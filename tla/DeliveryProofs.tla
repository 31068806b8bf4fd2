--------------------------- MODULE DeliveryProofs ---------------------------
(***************************************************************************)
(* Proofs about the components of MCDeliveries: the uploads of chat logs,  *)
(* the notices to signers and the review desk, and about the behaviours    *)
(* that are put together of them.                                          *)
(*                                                                         *)
(* ChatLogUploads, for any requests, claims, files and quotas.  What is    *)
(* used is a sum over the staged uploads and one over the packages.  A     *)
(* request that was admitted holds the lock until it commits and what it   *)
(* was admitted with still fits (AdmittedStillFits), because without the   *)
(* lock the sums can only fall (OnlyFrees).                                *)
(*                                                                         *)
(* PayoutNotices, for any replicas, payouts, quotes and failures.  A       *)
(* delivery is rewritten by the lease that is still its own, after an      *)
(* answer that is true (AnswersAreTrue), or before it was sent             *)
(* (OutboxMoves).  What is owed is within the lock whatever was quoted     *)
(* (OwedIsCovered).                                                        *)
(*                                                                         *)
(* ReviewDesk, for any uploads, documents, reviewers, visitors and sweeps. *)
(* The upload that decides holds the row, so what it counted is what is    *)
(* there (RowInv).  Rulings are only added, so one that was shown approved *)
(* stays the approval it was (ShownInv).                                   *)
(***************************************************************************)
EXTENDS MCDeliveries, SumTheorems,
        FiniteSetTheorems, FunctionTheorems, WellFoundedInduction, TLAPS

----------------------------------------------------------------------------
(* Uploads and packages of chat logs.                                      *)

\* What the tables, a request in progress and a download hold.
Parts == UNION Range(PartAt)
Files == Seq(Parts)
Receipts == SUBSET ((Nat \ {0}) \X Parts)
UploadRecords == [account : Accounts \cup {""}, size : Nat, parts : Files, expired : BOOLEAN,
                  acknowledged : Receipts]
PackageRecords == [content : Files, chunked : BOOLEAN, digest : Files]
StartRequests == [at : {"starting"}, account : Accounts, size : Nat, gone : SUBSET Nat]
PartRequests == [at : {"part"}, account : Accounts \cup {""}, upload : Nat, offset : Nat \ {0}, data : Parts]
PackageRequests == [at : {"validating", "checked", "saving"}, claim : LogClaims, raw : Files,
                    upload : SUBSET Nat]
Transfers == {Nothing} \cup StartRequests \cup PartRequests \cup PackageRequests
DownloadRecords == [at : {"streaming", "whole", "failed"}, claim : LogClaims, digest : Files,
                    chunked : BOOLEAN, sent : Files]

TransferTypesOK ==
    /\ logUploads \in Seq(UploadRecords)
    /\ packages \in [LogClaims -> PackageRecords]
    /\ requests \in [LogRequests -> Transfers]
    /\ validator \in [LogRequests -> {"none", "running", "hung"}]
    /\ download \in {Nothing} \cup DownloadRecords


\* Whoever was admitted holds the lock, and what it was admitted with still fits: until it
\* commits, the others can only free space.
AdmittedStillFits ==
    \A q \in LogRequests :
        /\ requests[q].at = "starting" =>
             /\ admissionLock = q
             /\ Fits(requests[q].account, requests[q].size, requests[q].gone, {})
        /\ requests[q].at = "saving" =>
             /\ admissionLock = q
             /\ Fits(ClaimOwner[requests[q].claim], Len(requests[q].raw),
                     IF Chunked(requests[q].raw) THEN requests[q].upload ELSE {}, {requests[q].claim})

UploadsIInv == TransferTypesOK /\ TransfersAreExact /\ AdmittedStillFits

\* The two sums of UsedBy, for any table of uploads and any packages.
PresentIn(us) == {u \in DOMAIN us : us[u] # NoUpload}
Reserving(us, accounts, leftOut) == {u \in PresentIn(us) \ leftOut : us[u].account \in accounts}
Reserved(us, accounts, leftOut) == SumFunctionOnSet([u \in DOMAIN us |-> us[u].size], Reserving(us, accounts, leftOut))
Keeping(accounts, replaced) == {c \in LogClaims \ replaced : ClaimOwner[c] \in accounts}
Kept(ps, accounts, replaced) == SumFunctionOnSet([c \in LogClaims |-> Len(ps[c].content)], Keeping(accounts, replaced))

LEMMA AnUpload ==
  ASSUME NEW us \in Seq(UploadRecords), NEW u \in DOMAIN us
  PROVE  /\ us[u] \in UploadRecords /\ us[u].size \in Nat /\ us[u].account \in Accounts \cup {""}
         /\ us[u].parts \in Files
  <1>1. us[u] \in UploadRecords
    OBVIOUS
  <1> QED
    BY <1>1 DEF UploadRecords

LEMMA ReservingFacts ==
  ASSUME NEW us \in Seq(UploadRecords), NEW accounts, NEW leftOut
  PROVE  /\ IsFiniteSet(Reserving(us, accounts, leftOut))
         /\ Numbers([u \in DOMAIN us |-> us[u].size], Reserving(us, accounts, leftOut))
         /\ Reserved(us, accounts, leftOut) \in Nat
  <1>1. Len(us) \in Nat /\ DOMAIN us = 1 .. Len(us)
    OBVIOUS
  <1>2. IsFiniteSet(Reserving(us, accounts, leftOut))
    <2>1. IsFiniteSet(1 .. Len(us))
      BY <1>1, FS_Interval
    <2>2. Reserving(us, accounts, leftOut) \in SUBSET (1 .. Len(us))
      BY <1>1 DEF Reserving, PresentIn
    <2> QED
      BY <2>1, <2>2, FS_Subset
  <1>3. \A u \in DOMAIN us : us[u].size \in Nat
    BY AnUpload
  <1>4. Numbers([u \in DOMAIN us |-> us[u].size], Reserving(us, accounts, leftOut))
    BY <1>3 DEF Numbers, Reserving, PresentIn
  <1> QED
    BY <1>2, <1>4, SumIsANumber DEF Reserved

LEMMA KeepingFacts ==
  ASSUME NEW ps \in [LogClaims -> PackageRecords], NEW accounts, NEW replaced
  PROVE  /\ IsFiniteSet(Keeping(accounts, replaced))
         /\ Numbers([c \in LogClaims |-> Len(ps[c].content)], Keeping(accounts, replaced))
         /\ Kept(ps, accounts, replaced) \in Nat
  <1>1. IsFiniteSet(Keeping(accounts, replaced))
    BY LogBounds, FS_Subset DEF Keeping
  <1>2. \A c \in LogClaims : Len(ps[c].content) \in Nat
    BY DEF PackageRecords, Files
  <1>3. Numbers([c \in LogClaims |-> Len(ps[c].content)], Keeping(accounts, replaced))
    BY <1>2 DEF Numbers, Keeping
  <1> QED
    BY <1>1, <1>3, SumIsANumber DEF Kept

\* What is present with a changed table was present before, for the same account and size.
LessReserved(us, leftOut, vs, leftOutThen) ==
    \A u \in PresentIn(vs) \ leftOutThen :
        u \in PresentIn(us) \ leftOut /\ vs[u].account = us[u].account /\ vs[u].size = us[u].size

LEMMA ReservedLess ==
  ASSUME NEW us \in Seq(UploadRecords), NEW vs \in Seq(UploadRecords), NEW accounts,
         NEW leftOut, NEW leftOutThen, LessReserved(us, leftOut, vs, leftOutThen)
  PROVE  Reserved(vs, accounts, leftOutThen) <= Reserved(us, accounts, leftOut)
  <1> DEFINE w == [u \in DOMAIN us |-> us[u].size]
             v == [u \in DOMAIN vs |-> vs[u].size]
             S == Reserving(us, accounts, leftOut)
             T == Reserving(vs, accounts, leftOutThen)
  <1>1. IsFiniteSet(S) /\ Numbers(w, S)
    BY ReservingFacts
  <1>2. T \in SUBSET S
    BY DEF LessReserved, Reserving
  <1>3. \A u \in T : v[u] \in Nat /\ v[u] <= w[u]
    <2> SUFFICES ASSUME NEW u \in T PROVE v[u] \in Nat /\ v[u] <= w[u]
      OBVIOUS
    <2>1. u \in DOMAIN vs /\ u \in DOMAIN us /\ vs[u].size = us[u].size
      BY DEF LessReserved, Reserving, PresentIn
    <2>2. vs[u].size \in Nat
      BY <2>1, AnUpload
    <2> QED
      BY <2>1, <2>2
  <1> HIDE DEF w, v, S, T
  <1>4. SumFunctionOnSet(v, T) <= SumFunctionOnSet(w, S)
    BY <1>1, <1>2, <1>3, SumGrows
  <1> QED
    BY <1>4 DEF w, v, S, T, Reserved

LEMMA KeptLess ==
  ASSUME NEW ps \in [LogClaims -> PackageRecords], NEW os \in [LogClaims -> PackageRecords], NEW accounts,
         NEW replaced, NEW replacedThen, replaced \subseteq replacedThen,
         \A c \in LogClaims \ replacedThen : Len(os[c].content) <= Len(ps[c].content)
  PROVE  Kept(os, accounts, replacedThen) <= Kept(ps, accounts, replaced)
  <1> DEFINE w == [c \in LogClaims |-> Len(ps[c].content)]
             v == [c \in LogClaims |-> Len(os[c].content)]
             S == Keeping(accounts, replaced)
             T == Keeping(accounts, replacedThen)
  <1>1. IsFiniteSet(S) /\ Numbers(w, S)
    BY KeepingFacts
  <1>2. T \in SUBSET S
    BY DEF Keeping
  <1>3. \A c \in LogClaims : Len(os[c].content) \in Nat
    BY DEF PackageRecords, Files
  <1>4. \A c \in T : v[c] \in Nat /\ v[c] <= w[c]
    BY <1>3 DEF Keeping
  <1> HIDE DEF w, v, S, T
  <1>5. SumFunctionOnSet(v, T) <= SumFunctionOnSet(w, S)
    BY <1>1, <1>2, <1>4, SumGrows
  <1> QED
    BY <1>5 DEF w, v, S, T, Kept

\* One upload more, one package more.
LEMMA ReservedWith ==
  ASSUME NEW us \in Seq(UploadRecords), NEW r \in UploadRecords, NEW accounts
  PROVE  /\ Append(us, r) \in Seq(UploadRecords)
         /\ Reserved(Append(us, r), accounts, {})
              <= Reserved(us, accounts, {}) + (IF r.account \in accounts THEN r.size ELSE 0)
  <1> DEFINE vs == Append(us, r)
             new == Len(us) + 1
             v == [u \in DOMAIN vs |-> vs[u].size]
             S == Reserving(vs, accounts, {})
             T == Reserving(vs, accounts, {new})
  <1>0. r.size \in Nat
    BY DEF UploadRecords
  <1>1. /\ vs \in Seq(UploadRecords) /\ new \in DOMAIN vs /\ vs[new] = r /\ r.size \in Nat
        /\ \A u \in DOMAIN vs \ {new} : u \in DOMAIN us /\ vs[u] = us[u]
    BY <1>0
  <1>2. LessReserved(us, {}, vs, {new})
    BY <1>1 DEF LessReserved, PresentIn
  <1>3. /\ Reserved(vs, accounts, {new}) <= Reserved(us, accounts, {})
        /\ Reserved(vs, accounts, {new}) \in Nat /\ Reserved(us, accounts, {}) \in Nat
    BY <1>1, <1>2, ReservedLess, ReservingFacts
  <1>4. IsFiniteSet(S) /\ Numbers(v, S) /\ IsFiniteSet(T)
    BY <1>1, ReservingFacts
  <1>5. CASE new \in S
    <2>1. S = T \cup {new} /\ new \notin T /\ v[new] = r.size /\ r.account \in accounts
      BY <1>1, <1>5 DEF Reserving
    <2> HIDE DEF v, S, T, new
    <2>2. SumFunctionOnSet(v, S) = v[new] + SumFunctionOnSet(v, T)
      BY <1>4, <2>1, SumWith
    <2>3. Reserved(vs, accounts, {}) = r.size + Reserved(vs, accounts, {new})
      BY <2>1, <2>2 DEF v, S, T, Reserved
    <2> QED
      BY <1>1, <1>3, <2>1, <2>3
  <1>6. CASE new \notin S
    <2>1. S = T
      BY <1>6 DEF Reserving
    <2>2. Reserved(vs, accounts, {}) = Reserved(vs, accounts, {new})
      BY <2>1 DEF Reserved
    <2> DEFINE more == IF r.account \in accounts THEN r.size ELSE 0
    <2>3. more \in Nat
      BY <1>0
    <2>4. vs \in Seq(UploadRecords)
      BY <1>1
    <2> HIDE DEF more
    <2>5. Reserved(vs, accounts, {}) <= Reserved(us, accounts, {}) + more
      <3> HIDE DEF vs, new
      <3> QED
        BY <1>3, <2>2, <2>3
    <2> USE DEF more
    <2> QED
      BY <2>4, <2>5
  <1> QED
    BY <1>5, <1>6

LEMMA KeptWith ==
  ASSUME NEW ps \in [LogClaims -> PackageRecords], NEW accounts, NEW c \in LogClaims
  PROVE  Kept(ps, accounts, {})
           = Kept(ps, accounts, {c}) + (IF ClaimOwner[c] \in accounts THEN Len(ps[c].content) ELSE 0)
  <1> DEFINE v == [d \in LogClaims |-> Len(ps[d].content)]
             S == Keeping(accounts, {})
             T == Keeping(accounts, {c})
  <1>1. IsFiniteSet(S) /\ Numbers(v, S) /\ IsFiniteSet(T) /\ Kept(ps, accounts, {c}) \in Nat
    BY KeepingFacts
  <1>2. Len(ps[c].content) \in Nat
    BY DEF PackageRecords, Files
  <1>3. CASE ClaimOwner[c] \in accounts
    <2>1. S = T \cup {c} /\ c \notin T /\ v[c] = Len(ps[c].content)
      BY <1>3 DEF Keeping
    <2> HIDE DEF v, S, T
    <2>2. SumFunctionOnSet(v, S) = v[c] + SumFunctionOnSet(v, T)
      BY <1>1, <2>1, SumWith
    <2>3. Kept(ps, accounts, {}) = Len(ps[c].content) + Kept(ps, accounts, {c})
      BY <2>1, <2>2 DEF v, S, T, Kept
    <2> QED
      BY <1>1, <1>2, <1>3, <2>3
  <1>4. CASE ClaimOwner[c] \notin accounts
    <2>1. S = T
      BY <1>4 DEF Keeping
    <2>2. Kept(ps, accounts, {}) = Kept(ps, accounts, {c})
      BY <2>1 DEF Kept
    <2> QED
      BY <1>1, <1>4, <2>2
  <1> QED
    BY <1>3, <1>4

\* The quota and its check, for any table of uploads and any packages.
Used(us, ps, accounts, leftOut, replaced) == Reserved(us, accounts, leftOut) + Kept(ps, accounts, replaced)
FitsIn(us, ps, a, n, leftOut, replaced) ==
    /\ Used(us, ps, {a}, leftOut, replaced) + n <= AccountParts
    /\ Used(us, ps, Accounts, leftOut, replaced) + n <= GlobalParts
HoldsIn(us, ps) ==
    /\ Used(us, ps, Accounts, {}, {}) <= GlobalParts
    /\ \A a \in Accounts : Used(us, ps, {a}, {}, {}) <= AccountParts

LEMMA UsedIs ==
  ASSUME NEW accounts, NEW leftOut, NEW replaced
  PROVE  UsedBy(accounts, leftOut, replaced) = Used(logUploads, packages, accounts, leftOut, replaced)
  BY DEF UsedBy, Used, Reserved, Kept, Reserving, Keeping, PresentIn, Present, Started

LEMMA QuotaIs == QuotaHolds <=> HoldsIn(logUploads, packages)
  BY UsedIs DEF QuotaHolds, HoldsIn

LEMMA FitsIs ==
  ASSUME NEW a, NEW n, NEW leftOut, NEW replaced
  PROVE  Fits(a, n, leftOut, replaced) <=> FitsIn(logUploads, packages, a, n, leftOut, replaced)
  BY UsedIs DEF Fits, FitsIn

\* Freeing space breaks neither the quota nor an admission.
LEMMA QuotaFalls ==
  ASSUME NEW us \in Seq(UploadRecords), NEW vs \in Seq(UploadRecords),
         NEW ps \in [LogClaims -> PackageRecords], NEW os \in [LogClaims -> PackageRecords],
         LessReserved(us, {}, vs, {}),
         \A c \in LogClaims : Len(os[c].content) <= Len(ps[c].content)
  PROVE  /\ HoldsIn(us, ps) => HoldsIn(vs, os)
         /\ \A a \in Accounts, n \in Nat : \A leftOut, replaced :
               FitsIn(us, ps, a, n, leftOut, replaced) => FitsIn(vs, os, a, n, leftOut, replaced)
  <1>1. ASSUME NEW accounts, NEW leftOut, NEW replaced
        PROVE  /\ Used(vs, os, accounts, leftOut, replaced) <= Used(us, ps, accounts, leftOut, replaced)
               /\ Used(vs, os, accounts, leftOut, replaced) \in Nat
               /\ Used(us, ps, accounts, leftOut, replaced) \in Nat
    <2>1. LessReserved(us, leftOut, vs, leftOut)
      BY DEF LessReserved
    <2>2. Reserved(vs, accounts, leftOut) <= Reserved(us, accounts, leftOut)
      BY <2>1, ReservedLess
    <2>3. Kept(os, accounts, replaced) <= Kept(ps, accounts, replaced)
      BY KeptLess
    <2>4. /\ Reserved(vs, accounts, leftOut) \in Nat /\ Reserved(us, accounts, leftOut) \in Nat
          /\ Kept(os, accounts, replaced) \in Nat /\ Kept(ps, accounts, replaced) \in Nat
      BY ReservingFacts, KeepingFacts
    <2> QED
      BY <2>2, <2>3, <2>4 DEF Used
  <1>2. AccountParts \in Nat /\ GlobalParts \in Nat
    BY LogBounds
  <1>3. HoldsIn(us, ps) => HoldsIn(vs, os)
    BY <1>1, <1>2 DEF HoldsIn
  <1>4. ASSUME NEW a \in Accounts, NEW n \in Nat, NEW leftOut, NEW replaced,
               FitsIn(us, ps, a, n, leftOut, replaced)
        PROVE  FitsIn(vs, os, a, n, leftOut, replaced)
    BY <1>1, <1>2, <1>4 DEF FitsIn
  <1> QED
    BY <1>3, <1>4

LEMMA WithinLimit ==
  ASSUME NEW x \in Nat, NEW y \in Nat, NEW n \in Nat, NEW most \in Nat, x <= y + n, y + n <= most
  PROVE  x <= most
  OBVIOUS

LEMMA MoreIsMore ==
  ASSUME NEW x \in Nat, NEW y \in Nat, NEW z \in Nat, NEW n \in Nat, NEW h \in Nat, NEW k \in Nat,
         x <= y + n, y <= z, h <= k
  PROVE  x + h <= (z + k) + n
  OBVIOUS

\* A new reservation that fitted without what is now gone.
LEMMA QuotaAfterStart ==
  ASSUME NEW us \in Seq(UploadRecords), NEW vs \in Seq(UploadRecords),
         NEW ps \in [LogClaims -> PackageRecords], NEW r \in UploadRecords, NEW leftOut,
         NEW n \in Nat, n = r.size,
         HoldsIn(us, ps), r.account \in Accounts, FitsIn(us, ps, r.account, n, leftOut, {}),
         LessReserved(us, leftOut, vs, {})
  PROVE  HoldsIn(Append(vs, r), ps)
  <1>1. LessReserved(us, {}, vs, {})
    BY DEF LessReserved
  <1>2. n \in Nat /\ AccountParts \in Nat /\ GlobalParts \in Nat
    BY LogBounds
  <1>3. ASSUME NEW accounts
        PROVE  /\ Used(Append(vs, r), ps, accounts, {}, {}) \in Nat
               /\ Used(us, ps, accounts, {}, {}) \in Nat /\ Used(us, ps, accounts, leftOut, {}) \in Nat
               /\ r.account \in accounts =>
                    Used(Append(vs, r), ps, accounts, {}, {}) <= Used(us, ps, accounts, leftOut, {}) + n
               /\ r.account \notin accounts =>
                    Used(Append(vs, r), ps, accounts, {}, {}) <= Used(us, ps, accounts, {}, {})
    <2>1. /\ Reserved(vs, accounts, {}) <= Reserved(us, accounts, leftOut)
          /\ Reserved(vs, accounts, {}) <= Reserved(us, accounts, {})
      BY <1>1, ReservedLess
    <2>2. /\ Append(vs, r) \in Seq(UploadRecords)
          /\ Reserved(Append(vs, r), accounts, {})
               <= Reserved(vs, accounts, {}) + (IF r.account \in accounts THEN r.size ELSE 0)
      BY ReservedWith
    <2>3. /\ Reserved(vs, accounts, {}) \in Nat /\ Reserved(us, accounts, {}) \in Nat
          /\ Reserved(us, accounts, leftOut) \in Nat /\ Reserved(Append(vs, r), accounts, {}) \in Nat
          /\ Kept(ps, accounts, {}) \in Nat
      BY <2>2, ReservingFacts, KeepingFacts
    <2>4. CASE r.account \in accounts
      <3>1. Reserved(Append(vs, r), accounts, {}) <= Reserved(vs, accounts, {}) + n
        BY <2>2, <2>4
      <3> QED
        <4>1. Reserved(Append(vs, r), accounts, {}) + Kept(ps, accounts, {})
                <= (Reserved(us, accounts, leftOut) + Kept(ps, accounts, {})) + n
          BY ONLY n \in Nat, <2>1, <2>3, <3>1, MoreIsMore
        <4> QED
          BY <2>3, <2>4, <4>1 DEF Used
    <2>5. CASE r.account \notin accounts
      <3>1. Reserved(Append(vs, r), accounts, {}) <= Reserved(vs, accounts, {}) + 0
        BY <2>2, <2>5
      <3> QED
        BY <2>1, <2>3, <2>5, <3>1 DEF Used
    <2> QED
      BY <2>4, <2>5
  <1>4. Used(Append(vs, r), ps, Accounts, {}, {}) <= GlobalParts
    <2>1. Used(us, ps, Accounts, leftOut, {}) + n <= GlobalParts
      BY DEF FitsIn
    <2>2. Used(Append(vs, r), ps, Accounts, {}, {}) <= Used(us, ps, Accounts, leftOut, {}) + n
      BY <1>3
    <2> QED
      BY <1>2, <1>3, <2>1, <2>2
  <1>5. ASSUME NEW a \in Accounts
        PROVE  Used(Append(vs, r), ps, {a}, {}, {}) <= AccountParts
    <2>1. CASE a = r.account
      <3>1. Used(us, ps, {a}, leftOut, {}) + n <= AccountParts
        BY <2>1 DEF FitsIn
      <3>2. Used(Append(vs, r), ps, {a}, {}, {}) <= Used(us, ps, {a}, leftOut, {}) + n
        BY <1>3, <2>1
      <3> QED
        BY <1>2, <1>3, <3>1, <3>2
    <2>2. CASE a # r.account
      <3>1. Used(us, ps, {a}, {}, {}) <= AccountParts
        BY DEF HoldsIn
      <3>2. Used(Append(vs, r), ps, {a}, {}, {}) <= Used(us, ps, {a}, {}, {})
        BY <1>3, <2>2
      <3> QED
        BY <1>2, <1>3, <3>1, <3>2
    <2> QED
      BY <2>1, <2>2
  <1> QED
    BY <1>4, <1>5 DEF HoldsIn

\* A package that fitted without its own reservation and without what it replaces.
LEMMA QuotaAfterSave ==
  ASSUME NEW us \in Seq(UploadRecords), NEW vs \in Seq(UploadRecords),
         NEW ps \in [LogClaims -> PackageRecords], NEW c \in LogClaims, NEW p \in PackageRecords,
         NEW leftOut, NEW n \in Nat, n = Len(p.content),
         HoldsIn(us, ps), FitsIn(us, ps, ClaimOwner[c], n, leftOut, {c}),
         LessReserved(us, leftOut, vs, {})
  PROVE  HoldsIn(vs, [ps EXCEPT ![c] = p])
  <1> DEFINE os == [ps EXCEPT ![c] = p]
  <1>1. LessReserved(us, {}, vs, {})
    BY DEF LessReserved
  <1>2. /\ n \in Nat /\ AccountParts \in Nat /\ GlobalParts \in Nat
        /\ ClaimOwner[c] \in Accounts
    BY LogBounds
  <1>3. /\ os \in [LogClaims -> PackageRecords] /\ os[c] = p
        /\ \A d \in LogClaims \ {c} : os[d] = ps[d]
    OBVIOUS
  <1>4. \A d \in LogClaims : Len(ps[d].content) \in Nat
    BY DEF PackageRecords, Files
  <1> HIDE DEF os
  <1>5. ASSUME NEW accounts
        PROVE  /\ Used(vs, os, accounts, {}, {}) \in Nat
               /\ Used(us, ps, accounts, {}, {}) \in Nat /\ Used(us, ps, accounts, leftOut, {c}) \in Nat
               /\ ClaimOwner[c] \in accounts =>
                    Used(vs, os, accounts, {}, {}) <= Used(us, ps, accounts, leftOut, {c}) + n
               /\ ClaimOwner[c] \notin accounts =>
                    Used(vs, os, accounts, {}, {}) <= Used(us, ps, accounts, {}, {})
    <2>1. /\ Reserved(vs, accounts, {}) <= Reserved(us, accounts, leftOut)
          /\ Reserved(vs, accounts, {}) <= Reserved(us, accounts, {})
      BY <1>1, ReservedLess
    <2>2. Kept(os, accounts, {})
            = Kept(os, accounts, {c}) + (IF ClaimOwner[c] \in accounts THEN Len(os[c].content) ELSE 0)
      BY <1>3, KeptWith
    <2>3. /\ Kept(os, accounts, {c}) <= Kept(ps, accounts, {c})
          /\ Kept(os, accounts, {c}) <= Kept(ps, accounts, {})
      <3>1. \A d \in LogClaims \ {c} : Len(os[d].content) <= Len(ps[d].content)
        BY <1>3, <1>4
      <3> QED
        BY <1>3, <3>1, KeptLess
    <2>4. /\ Reserved(vs, accounts, {}) \in Nat /\ Reserved(us, accounts, {}) \in Nat
          /\ Reserved(us, accounts, leftOut) \in Nat
          /\ Kept(ps, accounts, {}) \in Nat /\ Kept(ps, accounts, {c}) \in Nat
          /\ Kept(os, accounts, {}) \in Nat /\ Kept(os, accounts, {c}) \in Nat
      BY <1>3, ReservingFacts, KeepingFacts
    <2> DEFINE x == Kept(os, accounts, {})  y == Kept(os, accounts, {c})
               z == Kept(ps, accounts, {c})  w == Kept(ps, accounts, {})
               h == Reserved(vs, accounts, {})  k == Reserved(us, accounts, leftOut)  j == Reserved(us, accounts, {})
    <2>5. /\ x \in Nat /\ y \in Nat /\ z \in Nat /\ w \in Nat /\ h \in Nat /\ k \in Nat /\ j \in Nat /\ n \in Nat
          /\ y <= z /\ y <= w /\ h <= k /\ h <= j
          /\ x = y + (IF ClaimOwner[c] \in accounts THEN n ELSE 0)
      BY ONLY <1>2, <1>3, <2>1, <2>2, <2>3, <2>4, n = Len(p.content)
    <2>6. /\ Used(vs, os, accounts, {}, {}) = h + x /\ Used(us, ps, accounts, {}, {}) = j + w
          /\ Used(us, ps, accounts, leftOut, {c}) = k + z
      BY DEF Used
    <2> HIDE DEF x, y, z, w, h, k, j
    <2>7. /\ h + x \in Nat /\ j + w \in Nat /\ k + z \in Nat
          /\ ClaimOwner[c] \in accounts => h + x <= (k + z) + n
          /\ ClaimOwner[c] \notin accounts => h + x <= j + w
      BY ONLY <2>5
    <2> QED
      BY ONLY <2>6, <2>7
  <1>6. Used(vs, os, Accounts, {}, {}) <= GlobalParts
    <2>1. Used(us, ps, Accounts, leftOut, {c}) + n <= GlobalParts
      BY DEF FitsIn
    <2>2. Used(vs, os, Accounts, {}, {}) <= Used(us, ps, Accounts, leftOut, {c}) + n
      BY <1>2, <1>5
    <2> QED
      BY <1>2, <1>5, <2>1, <2>2, WithinLimit
  <1>7. ASSUME NEW a \in Accounts
        PROVE  Used(vs, os, {a}, {}, {}) <= AccountParts
    <2>1. CASE a = ClaimOwner[c]
      <3>1. Used(us, ps, {a}, leftOut, {c}) + n <= AccountParts
        BY <2>1 DEF FitsIn
      <3>2. Used(vs, os, {a}, {}, {}) <= Used(us, ps, {a}, leftOut, {c}) + n
        BY <1>5, <2>1
      <3> QED
        BY <1>2, <1>5, <3>1, <3>2, WithinLimit
    <2>2. CASE a # ClaimOwner[c]
      <3>1. Used(us, ps, {a}, {}, {}) <= AccountParts
        BY DEF HoldsIn
      <3>2. Used(vs, os, {a}, {}, {}) <= Used(us, ps, {a}, {}, {})
        BY <1>5, <2>2
      <3> QED
        BY <1>2, <1>5, <3>1, <3>2
    <2> QED
      BY <2>1, <2>2
  <1> QED
    BY <1>6, <1>7 DEF HoldsIn, os

LEMMA APart ==
  ASSUME NEW k \in 1 .. MaxParts, NEW p \in PartAt[k]
  PROVE  p \in Parts
  BY LogBounds DEF Parts, MaxParts, Range

LEMMA AFile ==
  ASSUME NEW n, NEW f \in PackageFiles(n), n \in Nat
  PROVE  f \in Files
  <1> USE DEF Files
  <1>1. PICK k \in 1 .. n : f \in [1 .. k -> Parts]
    BY DEF PackageFiles, Parts
  <1>2. k \in Nat
    BY <1>1
  <1> QED
    BY <1>1, <1>2

LEMMA StoredFiles == StoredBefore \subseteq Files
  <1>1. MaxParts \in Nat
    BY LogBounds DEF MaxParts
  <1>2. <<>> \in Files
    BY DEF Files
  <1> QED
    BY <1>1, <1>2, LogBounds, AFile

LEMMA APackage ==
  ASSUME NEW f \in Files
  PROVE  Package(f) \in PackageRecords /\ Package(f).content = f
  BY DEF Package, PackageRecords, Chunked

LEMMA Empty == <<>> \in Files /\ {} \in Receipts
  BY DEF Files, Receipts

LEMMA NothingUploaded == NoUpload \in UploadRecords
  BY Empty DEF NoUpload, UploadRecords

LEMMA GoneOnes ==
  ASSUME logUploads \in Seq(UploadRecords), NEW us
  PROVE  /\ Gone(us) \in Seq(UploadRecords)
         /\ DOMAIN Gone(us) = DOMAIN logUploads
         /\ \A u \in DOMAIN logUploads : Gone(us)[u] = IF u \in us THEN NoUpload ELSE logUploads[u]
         /\ PresentIn(Gone(us)) = Present \ us
  <1>1. Len(logUploads) \in Nat /\ DOMAIN logUploads = 1 .. Len(logUploads)
    OBVIOUS
  <1>2. \A u \in DOMAIN logUploads : logUploads[u] \in UploadRecords
    OBVIOUS
  <1>3. Gone(us) \in [1 .. Len(logUploads) -> UploadRecords]
    BY <1>1, <1>2, NothingUploaded DEF Gone, Started
  <1>4. Gone(us) \in Seq(UploadRecords)
    BY <1>1, <1>3
  <1> QED
    BY <1>4 DEF Gone, Started, PresentIn, Present

\* Which request is which.
LEMMA WhichRequest ==
  ASSUME NEW r \in Transfers
  PROVE  /\ r.at \in {"idle", "starting", "part", "validating", "checked", "saving"}
         /\ r.at = "starting" => /\ r \in StartRequests /\ r.account \in Accounts /\ r.size \in Nat
                                 /\ r.gone \in SUBSET Nat
         /\ r.at = "part" => /\ r \in PartRequests /\ r.account \in Accounts \cup {""} /\ r.upload \in Nat
                             /\ r.offset \in Nat \ {0} /\ r.data \in Parts
         /\ r.at \in {"validating", "checked", "saving"} =>
              r \in PackageRequests /\ r.claim \in LogClaims /\ r.raw \in Files /\ r.upload \in SUBSET Nat
  <1>1. CASE r = Nothing
    BY <1>1 DEF Nothing
  <1>2. CASE r \in StartRequests
    BY <1>2 DEF StartRequests
  <1>3. CASE r \in PartRequests
    BY <1>3 DEF PartRequests
  <1>4. CASE r \in PackageRequests
    BY <1>4 DEF PackageRequests
  <1> QED
    BY <1>1, <1>2, <1>3, <1>4 DEF Transfers

LEMMA UploadTypesStep ==
  ASSUME TransferTypesOK, [UploadsNext]_uploadVars
  PROVE  TransferTypesOK'
  <1> USE DEF TransferTypesOK
  <1> Nothing \in Transfers
    BY DEF Transfers
  <1> \A q \in LogRequests : requests[q] \in Transfers
    OBVIOUS
  <1>1. ASSUME NEW q \in LogRequests, NEW a \in Accounts, NEW n \in 1 .. MaxParts, start_upload(q, a, n)
        PROVE  TransferTypesOK'
    <2>1. Superseded(a) \in SUBSET Nat
      BY DEF Superseded, Present, Started
    <2>2. n \in Nat
      BY LogBounds DEF MaxParts
    <2>3. [at |-> "starting", account |-> a, size |-> n, gone |-> Superseded(a)] \in Transfers
      BY <2>1, <2>2 DEF Transfers, StartRequests
    <2> QED
      BY <1>1, <2>3 DEF start_upload
  <1>2. ASSUME NEW q \in LogRequests, NEW u \in Started, NEW k \in 1 .. MaxParts, NEW p \in PartAt[k],
               upload_part(q, u, k, p)
        PROVE  TransferTypesOK'
    <2>1. logUploads[u].account \in Accounts \cup {""}
      BY AnUpload DEF Started
    <2>2. k \in Nat \ {0} /\ u \in Nat /\ p \in Parts
      BY APart, LogBounds DEF MaxParts, Started
    <2>3. [at |-> "part", account |-> logUploads[u].account, upload |-> u, offset |-> k, data |-> p] \in Transfers
      BY <2>1, <2>2 DEF Transfers, PartRequests
    <2> QED
      BY <1>2, <2>3 DEF upload_part
  <1>3. ASSUME NEW q \in LogRequests, NEW c \in LogClaims, read(q, c)
        PROVE  TransferTypesOK'
    <2>1. ASSUME NEW file \in Files, NEW us \in SUBSET Nat
          PROVE  [at |-> "validating", claim |-> c, raw |-> file, upload |-> us] \in Transfers
      BY DEF Transfers, PackageRequests
    <2>2. \A u \in Present : logUploads[u].parts \in Files /\ {u} \in SUBSET Nat
      <3> SUFFICES ASSUME NEW u \in Present PROVE logUploads[u].parts \in Files /\ {u} \in SUBSET Nat
        OBVIOUS
      <3>1. u \in DOMAIN logUploads /\ u \in Nat
        BY DEF Present, Started
      <3> QED
        BY <3>1, AnUpload
    <2>3. \A file \in PackageFiles(InlineParts) : file \in Files
      BY AFile, LogBounds
    <2>4. {} \in SUBSET Nat
      OBVIOUS
    <2>5. requests' \in [LogRequests -> Transfers]
      BY <1>3, <2>1, <2>2, <2>3, <2>4 DEF read
    <2> QED
      BY <1>3, <2>5 DEF read
  <1>4. ASSUME NEW q \in LogRequests, hang(q) PROVE TransferTypesOK'
    BY <1>4 DEF hang
  <1>5. ASSUME NEW q \in LogRequests, started(q) PROVE TransferTypesOK'
    <2>1. requests[q].account \in Accounts /\ requests[q].size \in Nat
      BY <1>5, WhichRequest DEF started
    <2> DEFINE r == [account |-> requests[q].account, size |-> requests[q].size, parts |-> <<>>,
                     expired |-> FALSE, acknowledged |-> {}]
    <2>2. r \in UploadRecords
      BY <2>1, Empty DEF UploadRecords
    <2>3. logUploads' \in Seq(UploadRecords)
      <3>1. logUploads' = Append(Gone(requests[q].gone), r)
        BY <1>5 DEF started
      <3> HIDE DEF r
      <3> QED
        BY <2>2, <3>1, GoneOnes
    <2> QED
      BY <1>5, <2>3 DEF started
  <1>6. ASSUME NEW q \in LogRequests, append(q) PROVE TransferTypesOK'
    <2> DEFINE u == requests[q].upload
    <2>1. requests[q].offset \in Nat \ {0} /\ requests[q].data \in Parts
      BY <1>6, WhichRequest DEF append
    <2>2. CASE UNCHANGED logUploads
      BY <1>6, <2>2 DEF append
    <2>3. CASE /\ u \in DOMAIN logUploads
               /\ logUploads' = [logUploads EXCEPT
                              ![u].parts = IF requests[q].offset > Len(@) THEN Append(@, requests[q].data) ELSE @,
                              ![u].acknowledged = @ \union {<<requests[q].offset, requests[q].data>>}]
      <3> DEFINE now == [logUploads[u] EXCEPT
                              !.parts = IF requests[q].offset > Len(@) THEN Append(@, requests[q].data) ELSE @,
                              !.acknowledged = @ \union {<<requests[q].offset, requests[q].data>>}]
      <3>1. logUploads[u] \in UploadRecords
        BY <2>3, AnUpload
      <3>2. now \in UploadRecords
        <4>1. logUploads[u].parts \in Files /\ logUploads[u].acknowledged \in Receipts
          BY <3>1 DEF UploadRecords
        <4>2. Append(logUploads[u].parts, requests[q].data) \in Files
          BY <2>1, <4>1 DEF Files
        <4>3. logUploads[u].acknowledged \union {<<requests[q].offset, requests[q].data>>} \in Receipts
          BY <2>1, <4>1 DEF Receipts
        <4>4. ASSUME NEW f \in Files, NEW s \in Receipts
              PROVE  [logUploads[u] EXCEPT !.parts = f, !.acknowledged = s] \in UploadRecords
          BY <3>1 DEF UploadRecords
        <4>5. now = [logUploads[u] EXCEPT !.parts = IF requests[q].offset > Len(logUploads[u].parts)
                                             THEN Append(logUploads[u].parts, requests[q].data)
                                             ELSE logUploads[u].parts,
                                  !.acknowledged = logUploads[u].acknowledged
                                                     \union {<<requests[q].offset, requests[q].data>>}]
          BY <3>1 DEF UploadRecords
        <4> HIDE DEF now
        <4> QED
          BY <4>1, <4>2, <4>3, <4>4, <4>5
      <3>3. logUploads' = [logUploads EXCEPT ![u] = now]
        BY <2>3, <3>1 DEF UploadRecords
      <3> HIDE DEF now
      <3>4. logUploads' \in Seq(UploadRecords)
        BY <2>3, <3>2, <3>3
      <3> QED
        BY <1>6, <3>4 DEF append
    <2> QED
      BY <1>6, <2>2, <2>3 DEF append, owned, Present, Started
  <1>7. ASSUME NEW q \in LogRequests, run_validator(q) PROVE TransferTypesOK'
    <2>1. [requests[q] EXCEPT !.at = "checked"] \in Transfers
      BY <1>7, WhichRequest DEF run_validator, Transfers, PackageRequests
    <2> QED
      BY <1>7, <2>1 DEF run_validator
  <1>8. ASSUME NEW q \in LogRequests, saved(q) PROVE TransferTypesOK'
    <2>1. requests[q].claim \in LogClaims /\ requests[q].raw \in Files
      BY <1>8, WhichRequest DEF saved
    <2> QED
      BY <1>8, <2>1, APackage, GoneOnes DEF saved
  <1>9. ASSUME NEW q \in LogRequests, save(q) PROVE TransferTypesOK'
    <2>1. [requests[q] EXCEPT !.at = "saving"] \in Transfers
      BY <1>9, WhichRequest DEF save, Transfers, PackageRequests
    <2> QED
      BY <1>9, <2>1 DEF save
  <1>10. ASSUME NEW q \in LogRequests, give_up(q) PROVE TransferTypesOK'
    BY <1>10 DEF give_up
  <1>11. ASSUME NEW c \in LogClaims, clear(c) PROVE TransferTypesOK'
    <2>1. [packages[c] EXCEPT !.content = <<>>, !.chunked = FALSE] \in PackageRecords
      BY Empty DEF PackageRecords
    <2>2. packages' = [packages EXCEPT ![c] = [packages[c] EXCEPT !.content = <<>>, !.chunked = FALSE]]
      BY <1>11 DEF clear, PackageRecords
    <2> QED
      BY <1>11, <2>1, <2>2 DEF clear
  <1>12. ASSUME NEW c \in LogClaims, download_response(c) PROVE TransferTypesOK'
    <2>1. packages[c].digest \in Files /\ packages[c].chunked \in BOOLEAN
      BY DEF PackageRecords
    <2>2. [at |-> "streaming", claim |-> c, digest |-> packages[c].digest, chunked |-> packages[c].chunked,
           sent |-> <<>>] \in DownloadRecords
      BY <2>1, Empty DEF DownloadRecords
    <2> QED
      BY <1>12, <2>2 DEF download_response
  <1>13. ASSUME NEW u \in Present, discard(u) \/ expire(u) PROVE TransferTypesOK'
    <2>1. CASE discard(u)
      BY <2>1, GoneOnes DEF discard
    <2>2. CASE expire(u)
      <3>1. logUploads[u] \in UploadRecords /\ u \in DOMAIN logUploads
        BY AnUpload DEF Present, Started
      <3>2. [logUploads[u] EXCEPT !.expired = TRUE] \in UploadRecords
        BY <3>1 DEF UploadRecords
      <3>3. logUploads' = [logUploads EXCEPT ![u] = [logUploads[u] EXCEPT !.expired = TRUE]]
        BY <2>2, <3>1 DEF expire, UploadRecords
      <3> QED
        BY <2>2, <3>1, <3>2, <3>3 DEF expire
    <2> QED
      BY <1>13, <2>1, <2>2
  <1>14. CASE purge_expired
    BY <1>14, GoneOnes DEF purge_expired
  <1>15. CASE chunks
    <2>1. download \in DownloadRecords
      BY <1>15 DEF chunks, Nothing
    <2>2. download.claim \in LogClaims /\ packages[download.claim] \in PackageRecords
      BY <2>1 DEF DownloadRecords
    <2> DEFINE data == Downloaded(download, packages[download.claim])
    <2>3. data \in Files
      <3> DEFINE content == packages[download.claim].content
      <3>1. content \in Files /\ download.sent \in Files
        BY <2>1, <2>2 DEF DownloadRecords, PackageRecords
      <3>2. CASE Len(download.sent) < Len(content)
        <4>1. SubSeq(content, Len(download.sent) + 1, Len(download.sent) + 1) \in Files
          <5> HIDE DEF content
          <5> QED
            BY <3>1, <3>2 DEF Files
        <4> QED
          BY <3>1, <4>1, Empty DEF Downloaded
      <3>3. CASE ~(Len(download.sent) < Len(content))
        <4>1. Len(download.sent) >= Len(content)
          <5> HIDE DEF content
          <5> QED
            BY <3>1, <3>3 DEF Files
        <4>2. data = <<>>
          BY <4>1 DEF Downloaded
        <4> HIDE DEF data
        <4> QED
          BY <4>2, Empty
      <3> QED
        BY <3>2, <3>3
    <2>4. download' \in DownloadRecords
      <3>1. download' = IF data # <<>> THEN [download EXCEPT !.sent = @ \o data]
                        ELSE [download EXCEPT !.at = StreamEnds(download)]
        BY <1>15 DEF chunks
      <3> HIDE DEF data
      <3>2. [download EXCEPT !.sent = @ \o data] \in DownloadRecords
        <4>1. download.sent \in Files
          BY <2>1 DEF DownloadRecords
        <4>2. download.sent \o data \in Files
          BY <2>3, <4>1 DEF Files
        <4> QED
          BY <2>1, <4>2 DEF DownloadRecords
      <3>3. [download EXCEPT !.at = StreamEnds(download)] \in DownloadRecords
        BY <2>1 DEF DownloadRecords, StreamEnds
      <3> QED
        BY <3>1, <3>2, <3>3
    <2> QED
      BY <1>15, <2>4 DEF chunks
  <1>16. CASE UNCHANGED uploadVars
    BY <1>16 DEF uploadVars
  <1> QED
    BY <1>1, <1>2, <1>3, <1>4, <1>5, <1>6, <1>7, <1>8, <1>9, <1>10, <1>11, <1>12, <1>13, <1>14, <1>15, <1>16
       DEF UploadsNext, RequestGoesOn

\* What a request was admitted with, for any tables.
AdmittedIn(us, ps, r) ==
    /\ r.at = "starting" => FitsIn(us, ps, r.account, r.size, r.gone, {})
    /\ r.at = "saving" => FitsIn(us, ps, ClaimOwner[r.claim], Len(r.raw),
                                 IF Chunked(r.raw) THEN r.upload ELSE {}, {r.claim})
HoldsLock(lock, r, q) == r.at \in {"starting", "saving"} => lock = q

LEMMA AdmittedIs ==
  AdmittedStillFits <=> \A q \in LogRequests : /\ HoldsLock(admissionLock, requests[q], q)
                                               /\ AdmittedIn(logUploads, packages, requests[q])
  BY FitsIs DEF AdmittedStillFits, AdmittedIn, HoldsLock

LEMMA AdmittedIsNext ==
  /\ QuotaHolds' <=> HoldsIn(logUploads', packages')
  /\ AdmittedStillFits' <=> \A q \in LogRequests : /\ HoldsLock(admissionLock', requests'[q], q)
                                                   /\ AdmittedIn(logUploads', packages', requests'[q])
  <1>1. ASSUME NEW accounts, NEW leftOut, NEW replaced
        PROVE  UsedBy(accounts, leftOut, replaced)' = Used(logUploads', packages', accounts, leftOut, replaced)
    BY DEF UsedBy, Used, Reserved, Kept, Reserving, Keeping, PresentIn, Present, Started
  <1>2. ASSUME NEW a, NEW n, NEW leftOut, NEW replaced
        PROVE  Fits(a, n, leftOut, replaced)' <=> FitsIn(logUploads', packages', a, n, leftOut, replaced)
    BY <1>1 DEF Fits, FitsIn
  <1>3. QuotaHolds' <=> HoldsIn(logUploads', packages')
    BY <1>1 DEF QuotaHolds, HoldsIn
  <1> QED
    BY <1>2, <1>3 DEF AdmittedStillFits, AdmittedIn, HoldsLock

\* A step that only frees space.
OnlyFrees ==
    /\ LessReserved(logUploads, {}, logUploads', {})
    /\ \A c \in LogClaims : Len(packages'[c].content) <= Len(packages[c].content)

LEMMA OthersStayAdmitted ==
  ASSUME TransferTypesOK, TransferTypesOK', AdmittedStillFits, OnlyFrees,
         NEW P \in SUBSET LogRequests, \A p \in P : requests'[p] = requests[p],
         admissionLock' = admissionLock \/ admissionLock \notin P
  PROVE  \A p \in P : /\ HoldsLock(admissionLock', requests'[p], p)
                      /\ AdmittedIn(logUploads', packages', requests'[p])
  <1> SUFFICES ASSUME NEW p \in P
               PROVE  /\ HoldsLock(admissionLock', requests'[p], p)
                      /\ AdmittedIn(logUploads', packages', requests'[p])
    OBVIOUS
  <1>1. /\ HoldsLock(admissionLock, requests[p], p) /\ AdmittedIn(logUploads, packages, requests[p])
        /\ requests'[p] = requests[p] /\ requests[p] \in Transfers
    BY AdmittedIs DEF TransferTypesOK
  <1>2. \A a \in Accounts, n \in Nat : \A leftOut, replaced :
            FitsIn(logUploads, packages, a, n, leftOut, replaced)
              => FitsIn(logUploads', packages', a, n, leftOut, replaced)
    BY QuotaFalls DEF TransferTypesOK, OnlyFrees
  <1>3. requests[p].at = "starting" => requests[p].account \in Accounts /\ requests[p].size \in Nat
    BY <1>1, WhichRequest
  <1>4. requests[p].at = "saving" => ClaimOwner[requests[p].claim] \in Accounts /\ Len(requests[p].raw) \in Nat
    <2> SUFFICES ASSUME requests[p].at = "saving"
                 PROVE  ClaimOwner[requests[p].claim] \in Accounts /\ Len(requests[p].raw) \in Nat
      OBVIOUS
    <2>1. requests[p].claim \in LogClaims /\ requests[p].raw \in Files
      BY <1>1, WhichRequest
    <2>2. \A f \in Files : Len(f) \in Nat
      BY DEF Files
    <2> QED
      BY <2>1, <2>2, LogBounds
  <1>5. AdmittedIn(logUploads', packages', requests'[p])
    BY <1>1, <1>2, <1>3, <1>4 DEF AdmittedIn
  <1>6. HoldsLock(admissionLock', requests'[p], p)
    BY <1>1 DEF HoldsLock
  <1> QED
    BY <1>5, <1>6

LEMMA SamePackages ==
  ASSUME TransferTypesOK, packages' = packages
  PROVE  \A c \in LogClaims : Len(packages'[c].content) <= Len(packages[c].content)
  <1>1. \A c \in LogClaims : Len(packages[c].content) \in Nat
    BY DEF TransferTypesOK, PackageRecords, Files
  <1> QED
    BY <1>1

LEMMA NothingReservedMore ==
  ASSUME TransferTypesOK, packages' = packages,
         logUploads' = logUploads \/ \E us : logUploads' = Gone(us)
  PROVE  OnlyFrees
  <1>1. LessReserved(logUploads, {}, logUploads', {})
    <2>1. CASE logUploads' = logUploads
      BY <2>1 DEF LessReserved
    <2>2. ASSUME NEW us, logUploads' = Gone(us) PROVE LessReserved(logUploads, {}, logUploads', {})
      BY <2>2, GoneOnes DEF LessReserved, TransferTypesOK, PresentIn, Present, Started
    <2> QED
      BY <2>1, <2>2
  <1> QED
    BY <1>1, SamePackages DEF OnlyFrees

\* The steps that admit nobody and store nothing only free space; of the others, each is by the
\* request that holds the lock or takes it when it is free.
LEMMA QuotaStep ==
  ASSUME TransferTypesOK, TransferTypesOK', QuotaHolds, AdmittedStillFits, [UploadsNext]_uploadVars
  PROVE  QuotaHolds' /\ AdmittedStillFits'
  <1>1. ASSUME NEW q \in LogRequests
        PROVE  /\ requests[q] \in Transfers /\ HoldsLock(admissionLock, requests[q], q)
               /\ AdmittedIn(logUploads, packages, requests[q])
    BY AdmittedIs DEF TransferTypesOK
  <1>2. ASSUME OnlyFrees, NEW P \in SUBSET LogRequests, \A p \in P : requests'[p] = requests[p],
               admissionLock' = admissionLock \/ admissionLock \notin P,
               \A q \in LogRequests \ P : /\ HoldsLock(admissionLock', requests'[q], q)
                                          /\ AdmittedIn(logUploads', packages', requests'[q])
        PROVE  QuotaHolds' /\ AdmittedStillFits'
    <2>1. HoldsIn(logUploads', packages')
      BY <1>2, QuotaIs, QuotaFalls DEF OnlyFrees, TransferTypesOK
    <2>2. \A p \in P : /\ HoldsLock(admissionLock', requests'[p], p)
                       /\ AdmittedIn(logUploads', packages', requests'[p])
      BY <1>2, OthersStayAdmitted
    <2> QED
      BY <1>2, <2>1, <2>2, AdmittedIsNext
  <1>3. ASSUME OnlyFrees, UNCHANGED <<requests, admissionLock>> PROVE QuotaHolds' /\ AdmittedStillFits'
    BY <1>2, <1>3
  <1>4. ASSUME OnlyFrees, NEW q \in LogRequests, NEW r,
               r.at \notin {"starting", "saving"}, requests' = [requests EXCEPT ![q] = r],
               admissionLock' = admissionLock \/ admissionLock = q
        PROVE  QuotaHolds' /\ AdmittedStillFits'
    <2>1. /\ requests'[q] = r /\ \A p \in LogRequests \ {q} : requests'[p] = requests[p]
      BY <1>4 DEF TransferTypesOK
    <2>2. HoldsLock(admissionLock', requests'[q], q) /\ AdmittedIn(logUploads', packages', requests'[q])
      BY <1>4, <2>1 DEF HoldsLock, AdmittedIn
    <2>3. \A p \in LogRequests \ (LogRequests \ {q}) : p = q
      OBVIOUS
    <2> QED
      BY <1>2, <1>4, <2>1, <2>2, <2>3
  <1>5. ASSUME NEW q \in LogRequests, NEW a \in Accounts, NEW n \in 1 .. MaxParts, start_upload(q, a, n)
        PROVE  QuotaHolds' /\ AdmittedStillFits'
    <2> DEFINE r == [at |-> "starting", account |-> a, size |-> n, gone |-> Superseded(a)]
    <2>1. OnlyFrees
      BY <1>5, NothingReservedMore DEF start_upload
    <2>2. /\ admissionLock = NoAccount /\ admissionLock' = q
          /\ requests'[q] = r /\ \A p \in LogRequests \ {q} : requests'[p] = requests[p]
      BY <1>5 DEF start_upload, check_capacity, LockFree, TransferTypesOK
    <2>3. FitsIn(logUploads', packages', a, n, Superseded(a), {})
      BY <1>5, FitsIs DEF start_upload, check_capacity
    <2>4. HoldsLock(admissionLock', requests'[q], q) /\ AdmittedIn(logUploads', packages', requests'[q])
      BY <2>2, <2>3 DEF HoldsLock, AdmittedIn
    <2>5. admissionLock \notin LogRequests \ {q}
      BY <2>2, LogBounds
    <2>6. \A p \in LogRequests \ (LogRequests \ {q}) : p = q
      OBVIOUS
    <2> HIDE DEF r
    <2> QED
      BY <1>2, <2>1, <2>2, <2>4, <2>5, <2>6
  <1>6. ASSUME NEW q \in LogRequests, save(q)
        PROVE  QuotaHolds' /\ AdmittedStillFits'
    <2> DEFINE r == requests[q]
               leftOut == IF Chunked(r.raw) THEN r.upload ELSE {}
    <2>1. OnlyFrees
      BY <1>6, NothingReservedMore DEF save
    <2>2. r \in PackageRequests
      BY <1>1, <1>6, WhichRequest DEF save
    <2>3. /\ admissionLock = NoAccount /\ admissionLock' = q
          /\ requests' = [requests EXCEPT ![q].at = "saving"]
      BY <1>6 DEF save, check_capacity, LockFree
    <2>4. /\ requests'[q] = [r EXCEPT !.at = "saving"]
          /\ \A p \in LogRequests \ {q} : requests'[p] = requests[p]
      BY <2>3 DEF TransferTypesOK
    <2>5. /\ requests'[q].at = "saving" /\ requests'[q].claim = r.claim /\ requests'[q].raw = r.raw
          /\ requests'[q].upload = r.upload
      BY <2>2, <2>4 DEF PackageRequests
    <2>6. FitsIn(logUploads', packages', ClaimOwner[r.claim], Len(r.raw), leftOut, {r.claim})
      BY <1>6, FitsIs DEF save, check_capacity
    <2>7. HoldsLock(admissionLock', requests'[q], q) /\ AdmittedIn(logUploads', packages', requests'[q])
      BY <2>3, <2>5, <2>6 DEF HoldsLock, AdmittedIn
    <2>8. admissionLock \notin LogRequests \ {q}
      BY <2>3, LogBounds
    <2>9. \A p \in LogRequests \ (LogRequests \ {q}) : p = q
      OBVIOUS
    <2> QED
      BY <1>2, <2>1, <2>4, <2>7, <2>8, <2>9
  \* Nobody else is starting or saving while q commits.
  <1>7. ASSUME NEW q \in LogRequests, requests[q].at \in {"starting", "saving"},
               requests' = [requests EXCEPT ![q] = Nothing]
        PROVE  \A p \in LogRequests : /\ HoldsLock(admissionLock', requests'[p], p)
                                      /\ AdmittedIn(logUploads', packages', requests'[p])
    <2> SUFFICES ASSUME NEW p \in LogRequests PROVE requests'[p].at \notin {"starting", "saving"}
      BY DEF HoldsLock, AdmittedIn
    <2>1. CASE p = q
      BY <1>7, <2>1 DEF Nothing, TransferTypesOK
    <2>2. CASE p # q
      BY <1>1, <1>7, <2>2 DEF HoldsLock, TransferTypesOK
    <2> QED
      BY <2>1, <2>2
  <1>8. ASSUME NEW q \in LogRequests, started(q) PROVE QuotaHolds' /\ AdmittedStillFits'
    <2> DEFINE r == [account |-> requests[q].account, size |-> requests[q].size, parts |-> <<>>,
                     expired |-> FALSE, acknowledged |-> {}]
               gone == requests[q].gone
    <2>1. requests[q].at = "starting" /\ requests[q].account \in Accounts /\ requests[q].size \in Nat
      BY <1>1, <1>8, WhichRequest DEF started
    <2>2. r \in UploadRecords /\ r.account = requests[q].account /\ r.size = requests[q].size
      BY <2>1, Empty DEF UploadRecords
    <2>3. logUploads' = Append(Gone(gone), r) /\ packages' = packages
          /\ requests' = [requests EXCEPT ![q] = Nothing]
      BY <1>8 DEF started
    <2>4. FitsIn(logUploads, packages, r.account, r.size, gone, {})
      BY <1>1, <2>1, <2>2 DEF AdmittedIn
    <2>5. LessReserved(logUploads, gone, Gone(gone), {}) /\ Gone(gone) \in Seq(UploadRecords)
      BY GoneOnes DEF LessReserved, TransferTypesOK, PresentIn, Present, Started
    <2>6. HoldsIn(logUploads, packages)
      BY QuotaIs
    <2>7. \A p \in LogRequests : /\ HoldsLock(admissionLock', requests'[p], p)
                                 /\ AdmittedIn(logUploads', packages', requests'[p])
      BY <1>7, <2>1, <2>3
    <2> HIDE DEF r, gone
    <2>8. HoldsIn(Append(Gone(gone), r), packages)
      BY <2>1, <2>2, <2>4, <2>5, <2>6, QuotaAfterStart DEF TransferTypesOK
    <2> QED
      BY <2>3, <2>7, <2>8, AdmittedIsNext
  <1>9. ASSUME NEW q \in LogRequests, saved(q) PROVE QuotaHolds' /\ AdmittedStillFits'
    <2> DEFINE r == requests[q]
               leftOut == IF Chunked(r.raw) THEN r.upload ELSE {}
    <2>1. r.at = "saving" /\ r.claim \in LogClaims /\ r.raw \in Files
      BY <1>1, <1>9, WhichRequest DEF saved
    <2>2. /\ packages' = [packages EXCEPT ![r.claim] = Package(r.raw)] /\ logUploads' = Gone(r.upload)
          /\ requests' = [requests EXCEPT ![q] = Nothing]
      BY <1>9 DEF saved
    <2>3. FitsIn(logUploads, packages, ClaimOwner[r.claim], Len(r.raw), leftOut, {r.claim})
      BY <1>1, <2>1 DEF AdmittedIn
    <2>4. LessReserved(logUploads, leftOut, Gone(r.upload), {}) /\ Gone(r.upload) \in Seq(UploadRecords)
      BY GoneOnes DEF LessReserved, TransferTypesOK, PresentIn, Present, Started
    <2>5. HoldsIn(logUploads, packages)
      BY QuotaIs
    <2>6. \A p \in LogRequests : /\ HoldsLock(admissionLock', requests'[p], p)
                                 /\ AdmittedIn(logUploads', packages', requests'[p])
      BY <1>7, <2>1, <2>2
    <2>7. Package(r.raw) \in PackageRecords /\ Package(r.raw).content = r.raw /\ Len(r.raw) \in Nat
      BY <2>1, APackage DEF Files
    <2> HIDE DEF r, leftOut
    <2>8. HoldsIn(Gone(r.upload), [packages EXCEPT ![r.claim] = Package(r.raw)])
      BY <2>1, <2>3, <2>4, <2>5, <2>7, QuotaAfterSave DEF TransferTypesOK
    <2> QED
      BY <2>2, <2>6, <2>8, AdmittedIsNext
  <1>10. ASSUME NEW q \in LogRequests, NEW u \in Started, NEW k \in 1 .. MaxParts, NEW p \in PartAt[k],
                upload_part(q, u, k, p)
         PROVE  QuotaHolds' /\ AdmittedStillFits'
    <2> DEFINE r == [at |-> "part", account |-> logUploads[u].account, upload |-> u, offset |-> k, data |-> p]
    <2>1. OnlyFrees
      BY <1>10, NothingReservedMore DEF upload_part
    <2>2. requests' = [requests EXCEPT ![q] = r] /\ admissionLock' = admissionLock
      BY <1>10 DEF upload_part
    <2>3. r.at \notin {"starting", "saving"}
      OBVIOUS
    <2> HIDE DEF r
    <2> QED
      BY <1>4, <2>1, <2>2, <2>3
  <1>11. ASSUME NEW q \in LogRequests, NEW c \in LogClaims, read(q, c)
         PROVE  QuotaHolds' /\ AdmittedStillFits'
    <2>1. OnlyFrees
      BY <1>11, NothingReservedMore DEF read
    <2>2. \E file, us : requests' = [requests EXCEPT ![q] =
                            [at |-> "validating", claim |-> c, raw |-> file, upload |-> us]]
      BY <1>11 DEF read
    <2>3. PICK r : r.at = "validating" /\ requests' = [requests EXCEPT ![q] = r]
      BY <2>2
    <2> QED
      BY <1>4, <1>11, <2>1, <2>3 DEF read
  <1>12. ASSUME NEW q \in LogRequests, run_validator(q) PROVE QuotaHolds' /\ AdmittedStillFits'
    <2>1. OnlyFrees
      BY <1>12, NothingReservedMore DEF run_validator
    <2> DEFINE r == IF validator[q] = "running" THEN [requests[q] EXCEPT !.at = "checked"] ELSE Nothing
    <2>2. requests[q] \in PackageRequests
      BY <1>1, <1>12, WhichRequest DEF run_validator
    <2>3. r.at \notin {"starting", "saving"}
      BY <2>2 DEF PackageRequests, Nothing
    <2>4. requests' = [requests EXCEPT ![q] = r] /\ admissionLock' = admissionLock
      BY <1>12 DEF run_validator
    <2> HIDE DEF r
    <2> QED
      BY <1>4, <2>1, <2>3, <2>4
  <1>13. ASSUME NEW q \in LogRequests, give_up(q) PROVE QuotaHolds' /\ AdmittedStillFits'
    <2>1. OnlyFrees
      BY <1>13, NothingReservedMore DEF give_up
    <2> QED
      BY <1>4, <1>13, <2>1 DEF give_up, Nothing
  <1>14. ASSUME NEW q \in LogRequests, append(q) PROVE QuotaHolds' /\ AdmittedStillFits'
    <2> DEFINE u == requests[q].upload
    <2>1. LessReserved(logUploads, {}, logUploads', {})
      <3>1. CASE UNCHANGED logUploads
        BY <3>1 DEF LessReserved
      <3>2. CASE /\ u \in Present
                 /\ logUploads' = [logUploads EXCEPT
                              ![u].parts = IF requests[q].offset > Len(@) THEN Append(@, requests[q].data) ELSE @,
                              ![u].acknowledged = @ \union {<<requests[q].offset, requests[q].data>>}]
        <4>1. logUploads[u] \in UploadRecords /\ u \in DOMAIN logUploads
          BY <3>2, AnUpload DEF TransferTypesOK, Present, Started
        <4>2. \A v \in DOMAIN logUploads :
                 /\ v # u => logUploads'[v] = logUploads[v]
                 /\ logUploads'[v].account = logUploads[v].account /\ logUploads'[v].size = logUploads[v].size
          BY <3>2, <4>1 DEF UploadRecords
        <4>3. DOMAIN logUploads' = DOMAIN logUploads
          BY <3>2
        <4> QED
          BY <3>2, <4>2, <4>3 DEF LessReserved, PresentIn, Present, Started
      <3> QED
        BY <1>14, <3>1, <3>2 DEF append, owned
    <2>2. OnlyFrees
      BY <1>14, <2>1, SamePackages DEF OnlyFrees, append
    <2> QED
      BY <1>4, <1>14, <2>2 DEF append, Nothing
  <1>15. ASSUME NEW c \in LogClaims, clear(c) PROVE QuotaHolds' /\ AdmittedStillFits'
    <2>1. \A d \in LogClaims : packages[d] \in PackageRecords /\ Len(packages[d].content) \in Nat
      BY DEF TransferTypesOK, PackageRecords, Files
    <2>2. \A d \in LogClaims : d # c => packages'[d] = packages[d]
      BY <1>15 DEF clear, TransferTypesOK
    <2>3. packages'[c].content = <<>>
      BY <1>15, <2>1 DEF clear, TransferTypesOK, PackageRecords
    <2>4. \A d \in LogClaims : Len(packages'[d].content) <= Len(packages[d].content)
      BY <2>1, <2>2, <2>3
    <2>5. LessReserved(logUploads, {}, logUploads', {})
      BY <1>15 DEF clear, LessReserved
    <2> QED
      BY <1>3, <1>15, <2>4, <2>5 DEF OnlyFrees, clear
  <1>16. ASSUME NEW u \in Present, expire(u) PROVE QuotaHolds' /\ AdmittedStillFits'
    <2>1. logUploads[u] \in UploadRecords /\ u \in DOMAIN logUploads
      BY AnUpload DEF TransferTypesOK, Present, Started
    <2>2. \A v \in DOMAIN logUploads :
             /\ v # u => logUploads'[v] = logUploads[v]
             /\ logUploads'[v].account = logUploads[v].account /\ logUploads'[v].size = logUploads[v].size
      BY <1>16, <2>1 DEF UploadRecords, expire
    <2>3. DOMAIN logUploads' = DOMAIN logUploads
      BY <1>16 DEF expire
    <2>4. LessReserved(logUploads, {}, logUploads', {})
      BY <2>1, <2>2, <2>3 DEF LessReserved, PresentIn, Present, Started
    <2> QED
      BY <1>3, <1>16, <2>4, SamePackages DEF OnlyFrees, expire
  <1>17. ASSUME UNCHANGED <<packages, requests, admissionLock>>,
                logUploads' = logUploads \/ \E us : logUploads' = Gone(us)
         PROVE  QuotaHolds' /\ AdmittedStillFits'
    BY <1>3, <1>17, NothingReservedMore
  <1>18. ASSUME NEW q \in LogRequests, hang(q) PROVE QuotaHolds' /\ AdmittedStillFits'
    BY <1>17, <1>18 DEF hang
  <1>19. ASSUME NEW c \in LogClaims, download_response(c) PROVE QuotaHolds' /\ AdmittedStillFits'
    BY <1>17, <1>19 DEF download_response
  <1>20. ASSUME NEW u \in Present, discard(u) PROVE QuotaHolds' /\ AdmittedStillFits'
    BY <1>17, <1>20 DEF discard
  <1>21. CASE purge_expired
    BY <1>17, <1>21 DEF purge_expired
  <1>22. CASE chunks
    BY <1>17, <1>22 DEF chunks
  <1>23. CASE UNCHANGED uploadVars
    BY <1>17, <1>23 DEF uploadVars
  <1> QED
    BY <1>5, <1>6, <1>8, <1>9, <1>10, <1>11, <1>12, <1>13, <1>14, <1>15, <1>16, <1>18, <1>19, <1>20, <1>21,
       <1>22, <1>23 DEF UploadsNext, RequestGoesOn

LEMMA GoneConfirmed ==
  ASSUME TransferTypesOK, ConfirmedPartIsStaged, NEW us, logUploads' = Gone(us)
  PROVE  ConfirmedPartIsStaged'
  BY GoneOnes DEF ConfirmedPartIsStaged, TransferTypesOK, PresentIn, Present, Started

\* Whoever is confirmed wrote the part, or sent what was there: append looks under the row lock.
LEMMA ConfirmedStep ==
  ASSUME TransferTypesOK, ConfirmedPartIsStaged, [UploadsNext]_uploadVars
  PROVE  ConfirmedPartIsStaged'
  <1>1. ASSUME UNCHANGED logUploads PROVE ConfirmedPartIsStaged'
    BY <1>1 DEF ConfirmedPartIsStaged, Present, Started
  <1>2. ASSUME NEW q \in LogRequests, started(q) PROVE ConfirmedPartIsStaged'
    <2> DEFINE r == [account |-> requests[q].account, size |-> requests[q].size, parts |-> <<>>,
                     expired |-> FALSE, acknowledged |-> {}]
               gone == Gone(requests[q].gone)
    <2>1. logUploads' = Append(gone, r) /\ r.acknowledged = {}
      BY <1>2 DEF started
    <2>2. /\ gone \in Seq(UploadRecords) /\ DOMAIN gone = DOMAIN logUploads
          /\ \A u \in DOMAIN gone : u \in PresentIn(gone) => u \in Present /\ gone[u] = logUploads[u]
      BY GoneOnes DEF TransferTypesOK, PresentIn, Present, Started
    <2> HIDE DEF r, gone
    <2> SUFFICES ASSUME NEW u \in DOMAIN logUploads', logUploads'[u] # NoUpload,
                        NEW a \in logUploads'[u].acknowledged
                 PROVE  a[1] <= Len(logUploads'[u].parts) /\ logUploads'[u].parts[a[1]] = a[2]
      BY DEF ConfirmedPartIsStaged, Present, Started
    <2>3. u \in DOMAIN gone /\ logUploads'[u] = gone[u]
      <3>1. CASE u = Len(gone) + 1
        BY <2>1, <2>2, <3>1
      <3>2. CASE u # Len(gone) + 1
        BY <2>1, <2>2, <3>2
      <3> QED
        BY <3>1, <3>2
    <2>4. u \in Present /\ logUploads'[u] = logUploads[u]
      BY <2>2, <2>3 DEF PresentIn
    <2> QED
      BY <2>4 DEF ConfirmedPartIsStaged
  <1>3. ASSUME NEW q \in LogRequests, append(q) PROVE ConfirmedPartIsStaged'
    <2> DEFINE u == requests[q].upload
               k == requests[q].offset
               d == requests[q].data
    <2>1. k \in Nat \ {0}
      <3>1. requests[q] \in Transfers
        BY DEF TransferTypesOK
      <3> QED
        BY <1>3, <3>1, WhichRequest DEF append
    <2>2. CASE /\ u \in Present
               /\ resent(logUploads[u].parts, k, d) \/ k = Len(logUploads[u].parts) + 1
               /\ logUploads' = [logUploads EXCEPT
                              ![u].parts = IF k > Len(@) THEN Append(@, d) ELSE @,
                              ![u].acknowledged = @ \union {<<k, d>>}]
      <3>1. logUploads[u] \in UploadRecords /\ u \in DOMAIN logUploads /\ logUploads[u].parts \in Files
        BY <2>2, AnUpload DEF TransferTypesOK, Present, Started
      <3> DEFINE have == logUploads[u].parts
                 now == IF k > Len(have) THEN Append(have, d) ELSE have
      <3>2. /\ logUploads'[u].parts = now
            /\ logUploads'[u].acknowledged = logUploads[u].acknowledged \union {<<k, d>>}
            /\ \A v \in DOMAIN logUploads : v # u => logUploads'[v] = logUploads[v]
            /\ DOMAIN logUploads' = DOMAIN logUploads
        BY <2>2, <3>1 DEF UploadRecords
      <3>3. have \in Seq(Parts) /\ Len(have) \in Nat
        BY <3>1 DEF Files
      <3>4. \A a \in logUploads[u].acknowledged : a[1] \in Nat \ {0}
        BY <3>1 DEF UploadRecords, Receipts
      <3>5. \A a \in logUploads[u].acknowledged : a[1] <= Len(have) /\ have[a[1]] = a[2]
        BY <2>2 DEF ConfirmedPartIsStaged
      <3>6. resent(have, k, d) \/ k = Len(have) + 1
        BY <2>2
      <3> HIDE DEF have, k, d, u
      <3>7. k <= Len(now) /\ now[k] = d
        BY <2>1, <3>3, <3>6 DEF resent
      <3>8. ASSUME NEW i \in Nat, i <= Len(have), i # 0 PROVE i <= Len(now) /\ now[i] = have[i]
        BY <2>1, <3>3, <3>6, <3>8 DEF resent
      <3>9. \A a \in logUploads[u].acknowledged : a[1] <= Len(now) /\ now[a[1]] = a[2]
        BY <3>4, <3>5, <3>8
      <3>10. \A a \in logUploads'[u].acknowledged : a[1] <= Len(logUploads'[u].parts)
                                                    /\ logUploads'[u].parts[a[1]] = a[2]
        <4> SUFFICES ASSUME NEW a \in logUploads'[u].acknowledged
                     PROVE  a[1] <= Len(now) /\ now[a[1]] = a[2]
          BY <3>2
        <4>1. CASE a \in logUploads[u].acknowledged
          BY <3>9, <4>1
        <4>2. CASE a = <<k, d>>
          BY <3>7, <4>2
        <4> QED
          BY <3>2, <4>1, <4>2
      <3>11. \A v \in DOMAIN logUploads' : v # u /\ logUploads'[v] # NoUpload => v \in Present
        BY <3>2 DEF Present, Started
      <3> QED
        <4> SUFFICES ASSUME NEW v \in DOMAIN logUploads', logUploads'[v] # NoUpload,
                            NEW a \in logUploads'[v].acknowledged
                     PROVE  a[1] <= Len(logUploads'[v].parts) /\ logUploads'[v].parts[a[1]] = a[2]
          BY DEF ConfirmedPartIsStaged, Present, Started
        <4>1. CASE v = u
          BY <3>10, <4>1
        <4>2. CASE v # u
          <5>1. v \in Present /\ logUploads'[v] = logUploads[v]
            BY <3>2, <3>11, <4>2
          <5> QED
            BY <5>1 DEF ConfirmedPartIsStaged
        <4> QED
          BY <4>1, <4>2
    <2> QED
      BY <1>1, <1>3, <2>2 DEF append, owned
  <1>4. ASSUME NEW u \in Present, expire(u) PROVE ConfirmedPartIsStaged'
    <2>1. logUploads[u] \in UploadRecords /\ u \in DOMAIN logUploads
      BY AnUpload DEF TransferTypesOK, Present, Started
    <2>2. /\ DOMAIN logUploads' = DOMAIN logUploads
          /\ \A v \in DOMAIN logUploads :
               /\ v # u => logUploads'[v] = logUploads[v]
               /\ logUploads'[v].parts = logUploads[v].parts
               /\ logUploads'[v].acknowledged = logUploads[v].acknowledged
      BY <1>4, <2>1 DEF UploadRecords, expire
    <2>3. \A v \in DOMAIN logUploads : logUploads'[v] # NoUpload => v \in Present
      BY <2>2 DEF Present, Started
    <2> QED
      BY <2>2, <2>3 DEF ConfirmedPartIsStaged, Present, Started
  <1>5. ASSUME NEW us, logUploads' = Gone(us) PROVE ConfirmedPartIsStaged'
    BY <1>5, GoneConfirmed
  <1> QED
    <2>1. ASSUME NEW q \in LogRequests, RequestGoesOn(q) PROVE ConfirmedPartIsStaged'
      BY <1>1, <1>2, <1>3, <1>5, <2>1 DEF RequestGoesOn, run_validator, saved, save
    <2>2. ASSUME NEW q \in LogRequests,
                 \/ \E a \in Accounts, n \in 1 .. MaxParts : start_upload(q, a, n)
                 \/ \E u \in Started, k \in 1 .. MaxParts : \E p \in PartAt[k] : upload_part(q, u, k, p)
                 \/ \E c \in LogClaims : read(q, c)
                 \/ hang(q)
                 \/ give_up(q)
          PROVE  ConfirmedPartIsStaged'
      BY <1>1, <2>2 DEF start_upload, upload_part, read, hang, give_up
    <2>3. ASSUME NEW c \in LogClaims, clear(c) \/ download_response(c) PROVE ConfirmedPartIsStaged'
      BY <1>1, <2>3 DEF clear, download_response
    <2>4. ASSUME NEW u \in Present, discard(u) \/ expire(u) PROVE ConfirmedPartIsStaged'
      BY <1>4, <1>5, <2>4 DEF discard
    <2>5. ASSUME purge_expired \/ chunks \/ UNCHANGED uploadVars PROVE ConfirmedPartIsStaged'
      BY <1>1, <1>5, <2>5 DEF purge_expired, chunks, uploadVars
    <2> QED
      BY <2>1, <2>2, <2>3, <2>4, <2>5 DEF UploadsNext

\* The stream is called whole where it is compared with the digest, and not touched afterwards.
LEMMA DownloadStep ==
  ASSUME TransferTypesOK, DownloadIsWhole, [UploadsNext]_uploadVars
  PROVE  DownloadIsWhole'
  <1>1. ASSUME UNCHANGED download PROVE DownloadIsWhole'
    BY <1>1 DEF DownloadIsWhole
  <1>2. ASSUME NEW c \in LogClaims, download_response(c) PROVE DownloadIsWhole'
    BY <1>2 DEF download_response, DownloadIsWhole
  <1>3. CASE chunks
    <2>1. download \in DownloadRecords /\ download.at = "streaming"
      BY <1>3 DEF chunks, Nothing, TransferTypesOK
    <2>2. \/ download'.at = "streaming"
          \/ /\ download'.sent = download.sent /\ download'.digest = download.digest
             /\ download'.at = StreamEnds(download)
      BY <1>3, <2>1 DEF chunks, DownloadRecords
    <2> QED
      BY <2>2 DEF DownloadIsWhole, StreamEnds
  <1> QED
    BY <1>1, <1>2, <1>3 DEF UploadsNext, RequestGoesOn, start_upload, upload_part, read, hang, started, append,
       run_validator, saved, save, give_up, clear, discard, expire, purge_expired, uploadVars

\* A child is started with its request at "validating", and every step from there ends it.
LEMMA ValidatorStep ==
  ASSUME TransferTypesOK, NoValidatorIsLeft, [UploadsNext]_uploadVars
  PROVE  NoValidatorIsLeft'
  <1> USE DEF TransferTypesOK, NoValidatorIsLeft
  <1>1. ASSUME UNCHANGED <<requests, validator>> PROVE NoValidatorIsLeft'
    BY <1>1
  \* A request that is not validating goes on as it likes.
  <1>2. ASSUME NEW q \in LogRequests, requests[q].at # "validating", NEW r,
               requests' = [requests EXCEPT ![q] = r], validator' = validator
        PROVE  NoValidatorIsLeft'
    BY <1>2
  <1>3. ASSUME NEW q \in LogRequests, requests' = [requests EXCEPT ![q] = requests'[q]],
               validator' = [validator EXCEPT ![q] = "none"]
        PROVE  NoValidatorIsLeft'
    BY <1>3
  <1>4. ASSUME NEW q \in LogRequests, NEW a \in Accounts, NEW n \in 1 .. MaxParts, start_upload(q, a, n)
        PROVE  NoValidatorIsLeft'
    BY <1>2, <1>4 DEF start_upload, Nothing
  <1>5. ASSUME NEW q \in LogRequests, NEW u \in Started, NEW k \in 1 .. MaxParts, NEW p \in PartAt[k],
               upload_part(q, u, k, p)
        PROVE  NoValidatorIsLeft'
    BY <1>2, <1>5 DEF upload_part, Nothing
  <1>6. ASSUME NEW q \in LogRequests, NEW c \in LogClaims, read(q, c) PROVE NoValidatorIsLeft'
    <2>1. requests'[q].at = "validating" /\ \A p \in LogRequests \ {q} : requests'[p] = requests[p]
      BY <1>6 DEF read
    <2> QED
      BY <1>6, <2>1 DEF read
  <1>7. ASSUME NEW q \in LogRequests, hang(q) PROVE NoValidatorIsLeft'
    BY <1>7 DEF hang
  <1>8. ASSUME NEW q \in LogRequests, started(q) \/ append(q) PROVE NoValidatorIsLeft'
    BY <1>2, <1>8 DEF started, append
  <1>9. ASSUME NEW q \in LogRequests, run_validator(q) \/ give_up(q) PROVE NoValidatorIsLeft'
    BY <1>3, <1>9 DEF run_validator, give_up
  <1>10. ASSUME NEW q \in LogRequests, saved(q) PROVE NoValidatorIsLeft'
    BY <1>2, <1>10 DEF saved
  <1>11. ASSUME NEW q \in LogRequests, save(q) PROVE NoValidatorIsLeft'
    BY <1>2, <1>11 DEF save
  <1> QED
    BY <1>1, <1>4, <1>5, <1>6, <1>7, <1>8, <1>9, <1>10, <1>11 DEF UploadsNext, RequestGoesOn, clear,
       download_response, discard, expire, purge_expired, chunks, uploadVars

\* The tables start empty and with packages that were admitted.
LEMMA UploadsStart ==
  ASSUME UploadsInit
  PROVE  UploadsIInv
  <1>1. TransferTypesOK
    <2>1. PICK before \in [LogClaims -> StoredBefore] : packages = [c \in LogClaims |-> Package(before[c])]
      BY DEF UploadsInit
    <2>2. packages \in [LogClaims -> PackageRecords]
      BY <2>1, StoredFiles, APackage
    <2> QED
      BY <2>2 DEF UploadsInit, TransferTypesOK, Transfers
  <1>2. QuotaHolds
    <2>1. ASSUME NEW accounts PROVE UsedBy(accounts, {}, {}) \in Nat
      <3>1. Reserved(logUploads, accounts, {}) \in Nat
        BY <1>1, ReservingFacts DEF TransferTypesOK
      <3>2. Kept(packages, accounts, {}) \in Nat
        BY <1>1, KeepingFacts DEF TransferTypesOK
      <3> QED
        BY <3>1, <3>2, UsedIs DEF Used
    <2>2. AccountParts \in Nat /\ GlobalParts \in Nat
      BY LogBounds
    <2>3. \A a \in Accounts : UsedBy({a}, {}, {}) + 0 <= AccountParts /\ UsedBy(Accounts, {}, {}) + 0 <= GlobalParts
      BY DEF UploadsInit, Fits
    <2>4. \A a \in Accounts : UsedBy({a}, {}, {}) <= AccountParts /\ UsedBy(Accounts, {}, {}) <= GlobalParts
      BY <2>1, <2>2, <2>3
    <2>5. CASE Accounts = {}
      <3>1. Reserving(logUploads, Accounts, {}) = {} /\ Keeping(Accounts, {}) = {}
        BY <2>5 DEF Reserving, Keeping
      <3>2. UsedBy(Accounts, {}, {}) = 0
        <4>1. Reserved(logUploads, Accounts, {}) = 0
          BY <3>1, SumOfNothing DEF Reserved
        <4>2. Kept(packages, Accounts, {}) = 0
          BY <3>1, SumOfNothing DEF Kept
        <4> QED
          BY <4>1, <4>2, UsedIs DEF Used
      <3> QED
        BY <2>2, <2>5, <3>2 DEF QuotaHolds
    <2> QED
      BY <2>4, <2>5 DEF QuotaHolds
  <1>3. ConfirmedPartIsStaged /\ DownloadIsWhole /\ NoValidatorIsLeft /\ AdmittedStillFits
    BY DEF UploadsInit, ConfirmedPartIsStaged, DownloadIsWhole, NoValidatorIsLeft, AdmittedStillFits, Present,
           Started, Nothing
  <1> QED
    BY <1>1, <1>2, <1>3 DEF UploadsIInv, TransfersAreExact

\* The transfers keep their tables, the quota and what was admitted.
THEOREM UploadsInductive == UploadsSpec => []UploadsIInv
  <1>1. UploadsInit => UploadsIInv
    BY UploadsStart
  <1>2. UploadsIInv /\ [UploadsNext]_uploadVars => UploadsIInv'
    BY UploadTypesStep, QuotaStep, ConfirmedStep, DownloadStep, ValidatorStep DEF UploadsIInv, TransfersAreExact
  <1> QED
    BY <1>1, <1>2, PTL DEF UploadsSpec

\* Whatever requests, expiries and downloads overlap, the quota holds, what was confirmed is
\* staged, a whole download is the package it names, and no validator is left behind.
THEOREM UploadsAreExact == UploadsSpec => []TransfersAreExact
  <1>1. UploadsIInv => TransfersAreExact
    BY DEF UploadsIInv
  <1> QED
    BY <1>1, UploadsInductive, PTL

----------------------------------------------------------------------------
(* Notices to signers.                                                     *)

Deliveries == [status : {"none", "PENDING", "SENDING", "SENT", "FAILED"},
               owner : Notifiers \cup {""}, due : BOOLEAN]
Passes == {[at |-> "idle"], [at |-> "listing"], [at |-> "claiming"]}
          \cup [at : {"seeding"}, found : SUBSET Payees, quote : Nat]
          \cup [at : {"sending", "sent", "failed"}, notice : Notices]

NoticeTypes ==
    /\ owed \in [Payees -> Nat]
    /\ outbox \in [Notices -> Deliveries]
    /\ replica \in [Notifiers -> Passes]
    /\ approved \subseteq Payees

\* An answer is of a message that was sent.
AnswersAreTrue == \A w \in Notifiers : replica[w].at = "sent" => replica[w].notice \in acceptedNotices

\* Whatever quote came, an obligation is within the lock.
OwedIsCovered == \A s \in Payees : owed[s] <= LockedBounty[s]

NoticesIInv == NoticeTypes /\ SentWasAccepted /\ AnswersAreTrue /\ OwedIsCovered

\* What a step keeps of what was there.
NoticesKeep == SentIsFinal /\ OwedWithinTheLock

\* The lesser of two numbers.
LEMMA LesserOfTwo ==
  ASSUME NEW x \in Nat, NEW y \in Nat
  PROVE  Min({x, y}) \in Nat /\ Min({x, y}) <= y
  <1>1. \E m \in {x, y} : \A k \in {x, y} : m <= k
    OBVIOUS
  <1>2. Min({x, y}) \in {x, y} /\ \A k \in {x, y} : Min({x, y}) <= k
    BY <1>1 DEF Min
  <1> QED
    BY <1>2

\* A price is within the lock.
LEMMA AwardIsCovered ==
  ASSUME NEW s \in Payees, NEW quote \in Nat
  PROVE  award(s, quote) \in Nat /\ award(s, quote) <= LockedBounty[s]
  <1>1. LockedBounty[s] \in Nat
    BY NoticeBounds
  <1> QED
    BY <1>1, LesserOfTwo DEF award

\* A replica that goes on without an answer of Discord.
LEMMA ReplicaMoves ==
  ASSUME NoticesIInv, NEW w \in Notifiers, NEW p \in Passes, NoticeMoves(w, p),
         p.at = "sent" => p.notice \in acceptedNotices', acceptedNotices \subseteq acceptedNotices'
  PROVE  replica' \in [Notifiers -> Passes] /\ AnswersAreTrue'
  <1>1. replica' \in [Notifiers -> Passes]
    BY DEF NoticesIInv, NoticeTypes, NoticeMoves
  <1>2. ASSUME NEW o \in Notifiers, replica'[o].at = "sent" PROVE replica'[o].notice \in acceptedNotices'
    <2>1. replica'[o] = IF o = w THEN p ELSE replica[o]
      BY DEF NoticesIInv, NoticeTypes, NoticeMoves
    <2> QED
      BY <1>2, <2>1 DEF NoticesIInv, AnswersAreTrue
  <1> QED
    BY <1>1, <1>2 DEF AnswersAreTrue

\* A delivery that is rewritten although it was not sent, or because it was accepted.
LEMMA OutboxMoves ==
  ASSUME NoticesIInv, NEW n \in Notices, NEW d \in Deliveries, outbox' = [outbox EXCEPT ![n] = d],
         outbox[n].status = "SENT" => d.status = "SENT",
         d.status = "SENT" => n \in acceptedNotices', acceptedNotices \subseteq acceptedNotices'
  PROVE  outbox' \in [Notices -> Deliveries] /\ SentWasAccepted' /\ SentIsFinal
  <1>1. outbox \in [Notices -> Deliveries]
    BY DEF NoticesIInv, NoticeTypes
  <1>2. \A o \in Notices : outbox'[o] = IF o = n THEN d ELSE outbox[o]
    BY <1>1
  <1> QED
    BY <1>1, <1>2 DEF NoticesIInv, SentWasAccepted, SentIsFinal

LEMMA NoticesStart == NoticesInit => NoticesIInv
  <1> SUFFICES ASSUME NoticesInit PROVE NoticesIInv
    OBVIOUS
  <1>1. owed \in [Payees -> Nat] /\ \A s \in Payees : owed[s] <= LockedBounty[s]
    BY NoticeBounds DEF NoticesInit, Unowed
  <1>2. Unlisted \in Deliveries /\ Unlisted.status = "none" /\ Idle \in Passes /\ Idle.at = "idle"
    BY DEF Unlisted, Idle, Deliveries, Passes
  <1>3. /\ outbox \in [Notices -> Deliveries] /\ replica \in [Notifiers -> Passes]
        /\ \A n \in Notices : outbox[n].status = "none"
        /\ \A w \in Notifiers : replica[w].at = "idle"
    BY <1>2 DEF NoticesInit
  <1> QED
    BY <1>1, <1>3 DEF NoticesInit, NoticesIInv, NoticeTypes, SentWasAccepted, AnswersAreTrue, OwedIsCovered

\* Each step of the outbox keeps the invariant, what was sent and what is owed.
LEMMA NoticesStep ==
  ASSUME NoticesIInv, [NoticesNext]_noticeVars
  PROVE  NoticesIInv' /\ NoticesKeep
  <1>0. /\ owed \in [Payees -> Nat] /\ outbox \in [Notices -> Deliveries] /\ replica \in [Notifiers -> Passes]
        /\ \A s \in Payees : LockedBounty[s] \in Nat
    BY NoticeBounds DEF NoticesIInv, NoticeTypes
  \* What is left alone.
  <1>o. ASSUME UNCHANGED owed PROVE owed' \in [Payees -> Nat] /\ OwedIsCovered' /\ OwedWithinTheLock
    BY <1>0, <1>o DEF NoticesIInv, OwedIsCovered, OwedWithinTheLock
  <1>b. ASSUME UNCHANGED outbox, acceptedNotices \subseteq acceptedNotices'
        PROVE  outbox' \in [Notices -> Deliveries] /\ SentWasAccepted' /\ SentIsFinal
    BY <1>0, <1>b DEF NoticesIInv, SentWasAccepted, SentIsFinal
  <1>r. ASSUME UNCHANGED replica, acceptedNotices \subseteq acceptedNotices'
        PROVE  replica' \in [Notifiers -> Passes] /\ AnswersAreTrue'
    BY <1>0, <1>r DEF NoticesIInv, AnswersAreTrue
  <1>p. /\ Idle \in Passes /\ Idle.at # "sent"
        /\ [at |-> "listing"] \in Passes /\ [at |-> "listing"].at # "sent"
        /\ [at |-> "claiming"] \in Passes /\ [at |-> "claiming"].at # "sent"
    BY DEF Passes, Idle
  <1> DEFINE Good == NoticesIInv' /\ NoticesKeep
  <1>g. ASSUME approved' \subseteq Payees, owed' \in [Payees -> Nat] /\ OwedIsCovered' /\ OwedWithinTheLock,
               outbox' \in [Notices -> Deliveries] /\ SentWasAccepted' /\ SentIsFinal,
               replica' \in [Notifiers -> Passes] /\ AnswersAreTrue'
        PROVE  Good
    BY <1>g DEF NoticesIInv, NoticeTypes, NoticesKeep
  <1>a. approved \subseteq Payees
    BY DEF NoticesIInv, NoticeTypes
  <1> HIDE DEF Good
  <1>1. ASSUME NEW s \in Payees, review(s) \/ settle(s) PROVE Good
    BY <1>1, <1>a, <1>o, <1>b, <1>r, <1>g DEF review, settle
  <1>2. ASSUME NEW w \in Notifiers, process_once(w) PROVE Good
    <2>1. PICK found \in SUBSET Payees, q \in Nat : NoticeMoves(w, [at |-> "seeding", found |-> found, quote |-> q])
      BY <1>2, <1>a, NoticeBounds DEF process_once, Candidates
    <2>2. [at |-> "seeding", found |-> found, quote |-> q] \in Passes
      BY DEF Passes
    <2>3. UNCHANGED <<approved, owed, outbox, acceptedNotices>>
      BY <1>2 DEF process_once
    <2> QED
      BY <1>a, <1>o, <1>b, <1>g, <2>1, <2>2, <2>3, ReplicaMoves
  <1>3. ASSUME NEW w \in Notifiers, seed_reward_events(w) PROVE Good
    <2>1. UNCHANGED <<approved, outbox, acceptedNotices>>
      BY <1>3 DEF seed_reward_events
    <2>2. replica' \in [Notifiers -> Passes] /\ AnswersAreTrue'
      BY <1>3, <1>p, <2>1, ReplicaMoves DEF seed_reward_events
    <2>3. owed' \in [Payees -> Nat] /\ OwedIsCovered' /\ OwedWithinTheLock
      <3>1. CASE UNCHANGED owed
        BY <1>o, <3>1
      <3>2. CASE ~UNCHANGED owed
        <4>1. replica[w].quote \in Nat
          BY <1>0, <1>3 DEF seed_reward_events, Passes
        <4>2. owed' = [s \in Payees |-> IF s \in replica[w].found /\ owed[s] = Unowed
                                        THEN award(s, replica[w].quote) ELSE owed[s]]
          BY <1>3, <3>2 DEF seed_reward_events
        <4>3. \A s \in Payees : award(s, replica[w].quote) \in Nat /\ award(s, replica[w].quote) <= LockedBounty[s]
          BY <4>1, AwardIsCovered
        <4> QED
          BY <1>0, <4>2, <4>3 DEF NoticesIInv, OwedIsCovered, OwedWithinTheLock
      <3> QED
        BY <3>1, <3>2
    <2> QED
      BY <1>a, <1>b, <1>g, <2>1, <2>2, <2>3
  <1>4. ASSUME NEW w \in Notifiers, seed(w) PROVE Good
    <2>1. /\ outbox' = [n \in Notices |-> IF outbox[n].status = "none" /\ instruction_sendable(n[1])
                                          THEN [outbox[n] EXCEPT !.status = "PENDING"] ELSE outbox[n]]
          /\ NoticeMoves(w, [at |-> "claiming"]) /\ UNCHANGED <<approved, owed, acceptedNotices>>
      BY <1>4 DEF seed
    <2>2. \A n \in Notices : [outbox[n] EXCEPT !.status = "PENDING"] \in Deliveries
      BY <1>0 DEF Deliveries
    <2>3. \A n \in Notices : /\ outbox'[n] \in Deliveries
                             /\ outbox'[n] # outbox[n] => outbox[n].status = "none" /\ outbox'[n].status = "PENDING"
      BY <1>0, <2>1, <2>2 DEF Deliveries
    <2>4. outbox' \in [Notices -> Deliveries]
      BY <2>1, <2>3
    <2>5. SentWasAccepted' /\ SentIsFinal
      BY <2>1, <2>3 DEF NoticesIInv, SentWasAccepted, SentIsFinal
    <2> QED
      BY <1>a, <1>o, <1>p, <1>g, <2>1, <2>4, <2>5, ReplicaMoves
  <1>5. ASSUME NEW w \in Notifiers, claim_notice(w) PROVE Good
    <2>1. UNCHANGED <<approved, owed, acceptedNotices>>
      BY <1>5 DEF claim_notice
    <2>2. CASE UNCHANGED outbox /\ NoticeMoves(w, Idle)
      BY <1>a, <1>o, <1>b, <1>p, <1>g, <2>1, <2>2, ReplicaMoves
    <2>3. CASE \E n \in Notices : Due(n) /\ outbox' = [outbox EXCEPT ![n] = [status |-> "SENDING", owner |-> w, due |-> FALSE]]
                                  /\ NoticeMoves(w, [at |-> "sending", notice |-> n])
      <3>1. PICK n \in Notices : Due(n) /\ outbox' = [outbox EXCEPT ![n] = [status |-> "SENDING", owner |-> w, due |-> FALSE]]
                                 /\ NoticeMoves(w, [at |-> "sending", notice |-> n])
        BY <2>3
      <3>2. [status |-> "SENDING", owner |-> w, due |-> FALSE] \in Deliveries /\ [at |-> "sending", notice |-> n] \in Passes
        BY DEF Deliveries, Passes
      <3>3. outbox' \in [Notices -> Deliveries] /\ SentWasAccepted' /\ SentIsFinal
        BY <2>1, <3>1, <3>2, OutboxMoves DEF Due
      <3> QED
        BY <1>a, <1>o, <1>g, <2>1, <3>1, <3>2, <3>3, ReplicaMoves
    <2> QED
      BY <1>5, <2>2, <2>3 DEF claim_notice
  <1>6. ASSUME NEW w \in Notifiers, send_discord_notifications(w) PROVE Good
    <2>1. replica[w].at = "sending" /\ replica[w].notice \in Notices
      BY <1>0, <1>6 DEF send_discord_notifications, Passes
    <2>2. UNCHANGED <<approved, owed, outbox>> /\ acceptedNotices \subseteq acceptedNotices'
      BY <1>6 DEF send_discord_notifications
    <2>3. PICK at \in {"sent", "failed"} : /\ NoticeMoves(w, [replica[w] EXCEPT !.at = at])
                                           /\ at = "sent" => replica[w].notice \in acceptedNotices'
      BY <1>6 DEF send_discord_notifications
    <2>4. /\ [replica[w] EXCEPT !.at = at] = [at |-> at, notice |-> replica[w].notice]
          /\ [at |-> at, notice |-> replica[w].notice] \in Passes
      BY <1>0, <2>1 DEF Passes
    <2> QED
      BY <1>a, <1>o, <1>b, <1>g, <2>2, <2>3, <2>4, ReplicaMoves
  <1>7. ASSUME NEW w \in Notifiers, _finish(w) PROVE Good
    <2>1. UNCHANGED <<approved, owed, acceptedNotices>> /\ NoticeMoves(w, [at |-> "claiming"])
      BY <1>7 DEF _finish
    <2>2. replica[w].at \in {"sent", "failed"} /\ replica[w].notice \in Notices
      <3>1. replica[w].at \in {"sent", "failed"}
        BY <1>7 DEF _finish
      <3> QED
        BY <1>0, <3>1 DEF Passes
    <2>3. outbox' \in [Notices -> Deliveries] /\ SentWasAccepted' /\ SentIsFinal
      <3>1. CASE UNCHANGED outbox
        BY <1>b, <2>1, <3>1
      <3>2. CASE ~UNCHANGED outbox
        <4> DEFINE n == replica[w].notice
                   d == IF replica[w].at = "sent" THEN [status |-> "SENT", owner |-> "", due |-> TRUE]
                        ELSE [status |-> "FAILED", owner |-> "", due |-> FALSE]
        <4>1. StillMine(n, w) /\ outbox' = [outbox EXCEPT ![n] = d]
          BY <1>7, <3>2 DEF _finish
        <4>2. d \in Deliveries /\ (d.status = "SENT" => replica[w].at = "sent")
          BY DEF Deliveries
        <4>3. d.status = "SENT" => n \in acceptedNotices'
          BY <2>1, <4>2 DEF NoticesIInv, AnswersAreTrue
        <4>4. outbox[n].status # "SENT"
          BY <4>1 DEF StillMine
        <4> HIDE DEF d, n
        <4>5. n \in Notices
          BY <2>2 DEF n
        <4> QED
          BY <2>1, <4>1, <4>2, <4>3, <4>4, <4>5, OutboxMoves
      <3> QED
        BY <3>1, <3>2
    <2> QED
      BY <1>a, <1>o, <1>p, <1>g, <2>1, <2>3, ReplicaMoves
  <1>8. ASSUME NEW w \in Notifiers, crash(w) PROVE Good
    BY <1>8, <1>a, <1>o, <1>b, <1>p, <1>g, ReplicaMoves DEF crash
  <1>9. ASSUME NEW n \in Notices, retry_is_due(n) \/ lease_ends(n) PROVE Good
    <2>1. UNCHANGED <<approved, owed, replica, acceptedNotices>> /\ outbox[n].status \in {"FAILED", "SENDING"}
      BY <1>9 DEF retry_is_due, lease_ends
    <2>2. outbox' = [outbox EXCEPT ![n] = [outbox[n] EXCEPT !.due = TRUE]]
      BY <1>9 DEF retry_is_due, lease_ends
    <2>3. [outbox[n] EXCEPT !.due = TRUE] \in Deliveries /\ [outbox[n] EXCEPT !.due = TRUE].status = outbox[n].status
      BY <1>0 DEF Deliveries
    <2> QED
      BY <1>a, <1>o, <1>r, <1>g, <2>1, <2>2, <2>3, OutboxMoves
  <1>10. ASSUME UNCHANGED noticeVars PROVE Good
    BY <1>10, <1>a, <1>o, <1>b, <1>r, <1>g DEF noticeVars
  <1>11. Good
    BY <1>1, <1>2, <1>3, <1>4, <1>5, <1>6, <1>7, <1>8, <1>9, <1>10 DEF NoticesNext, PassGoesOn
  <1> QED
    BY <1>11 DEF Good

\* The outbox keeps its tables, what was accepted and what is covered.
THEOREM NoticesInductive == NoticesSpec => []NoticesIInv
  <1> QED
    BY NoticesStart, NoticesStep, PTL DEF NoticesSpec

\* However leases run out and answers are lost, a delivery marked sent was accepted by Discord.
THEOREM SentNoticesAreTrue == NoticesSpec => []SentWasAccepted
  <1>1. NoticesIInv => SentWasAccepted
    BY DEF NoticesIInv
  <1> QED
    BY <1>1, NoticesInductive, PTL

----------------------------------------------------------------------------
(* The review desk.                                                        *)

UploadsOfPdfs == [at : {"idle"}, document : {"none"}, rows : Seq(Documents)]
                 \cup [at : {"reading", "locking", "deciding"}, document : Documents, rows : Seq(Documents)]
Rulings == {"APPROVED", "REJECTED"} \X Nat
Desks == [at : {"away", "reading", "read"}, binding : Nat, attempts : SUBSET Nat]
Sweeps == [status : {"RUNNING", "COMPLETED", "FAILED"}, owner : Sweepers, leased : BOOLEAN]
Visits == [at : {"away", "listing"}, shown : Seq(Documents), when : Nat]

\* The upload that decides holds the row, and what it counted is what is there.
RowInv == \A u \in PdfUploads : uploading[u].at = "deciding" => pdfLock = u /\ uploading[u].rows = pdfs

\* No content is kept twice, by position.
AllDiffer == \A i, j \in 1 .. Len(pdfs) : pdfs[i] = pdfs[j] => i = j
PdfsInv == Len(pdfs) <= MaxPdfs /\ AllDiffer

\* What was shown was shown of a ruling that is there.
ShownInv == \A v \in Visitors : visitor[v].shown # <<>> => visitor[v].when \in 1 .. Len(ruledOn) /\ ApprovedAt(visitor[v].when)

\* The rows and the uploads; the rulings and the visitors; sweeps; reviewers' pages.
RowsOK == pdfs \in Seq(Documents) /\ uploading \in [PdfUploads -> UploadsOfPdfs] /\ RowInv /\ PdfsInv
RulingsOK == ruledOn \in Seq(Rulings) /\ visitor \in [Visitors -> Visits] /\ ShownInv
SweepsOK == sweeps \in Seq(Sweeps) /\ advice \subseteq Nat
DesksOK == desk \in [Reviewers -> Desks]

DeskIInv == RowsOK /\ RulingsOK /\ SweepsOK /\ DesksOK

\* As many contents as rows.
LEMMA AsManyAsRows ==
  ASSUME pdfs \in Seq(Documents), AllDiffer
  PROVE  Cardinality(Range(pdfs)) = Len(pdfs)
  <1>1. /\ Len(pdfs) \in Nat /\ DOMAIN pdfs = 1 .. Len(pdfs)
        /\ Range(pdfs) = {pdfs[i] : i \in 1 .. Len(pdfs)}
    BY DEF Range
  <1>2. pdfs \in [1 .. Len(pdfs) -> Range(pdfs)]
    BY <1>1
  <1>3. pdfs \in Bijection(1 .. Len(pdfs), Range(pdfs))
    BY <1>1, <1>2 DEF AllDiffer, Bijection, Injection, Surjection, IsInjective
  <1>4. ExistsBijection(1 .. Len(pdfs), Range(pdfs))
    BY <1>3 DEF ExistsBijection
  <1> QED
    BY <1>1, <1>4, FS_CountingElements

LEMMA DeskIsSafe == DeskIInv => AttachmentsAreBounded /\ ShownWasApproved
  BY AsManyAsRows DEF DeskIInv, RowsOK, RulingsOK, PdfsInv, ShownInv, AttachmentsAreBounded, ShownWasApproved

LEMMA DeskStart == ReviewDeskInit => DeskIInv
  <1> SUFFICES ASSUME ReviewDeskInit PROVE DeskIInv
    OBVIOUS
  <1>1. /\ <<>> \in Seq(Documents) /\ <<>> \in Seq(Rulings) /\ <<>> \in Seq(Sweeps) /\ Len(<<>>) = 0 /\ MaxPdfs \in Nat
    BY ReviewDeskBounds
  <1>2. pdfs \in Seq(Documents) /\ ruledOn \in Seq(Rulings) /\ sweeps \in Seq(Sweeps) /\ advice \subseteq Nat
    BY <1>1 DEF ReviewDeskInit
  <1>3. uploading \in [PdfUploads -> UploadsOfPdfs] /\ \A u \in PdfUploads : uploading[u].at = "idle"
    BY <1>1 DEF ReviewDeskInit, UploadsOfPdfs
  <1>4. desk \in [Reviewers -> Desks]
    BY DEF ReviewDeskInit, ClosedPage, Desks
  <1>5. visitor \in [Visitors -> Visits] /\ \A v \in Visitors : visitor[v].shown = <<>>
    BY <1>1 DEF ReviewDeskInit, Unread, Visits
  <1>6. PdfsInv
    BY <1>1 DEF ReviewDeskInit, PdfsInv, AllDiffer
  <1> QED
    BY <1>2, <1>3, <1>4, <1>5, <1>6 DEF DeskIInv, RowsOK, RulingsOK, SweepsOK, DesksOK, RowInv, ShownInv

\* One row more, of a content that was not there.
LEMMA OneMorePdf ==
  ASSUME pdfs \in Seq(Documents), PdfsInv, NEW d \in Documents, d \notin Range(pdfs), Len(pdfs) < MaxPdfs, pdfs' = Append(pdfs, d)
  PROVE  pdfs' \in Seq(Documents) /\ PdfsInv'
  <1>1. /\ pdfs \in Seq(Documents) /\ Len(pdfs) \in Nat /\ MaxPdfs \in Nat /\ Range(pdfs) = {pdfs[i] : i \in 1 .. Len(pdfs)}
    BY ReviewDeskBounds DEF Range
  <1>2. /\ pdfs' \in Seq(Documents) /\ Len(pdfs') = Len(pdfs) + 1
        /\ \A i \in 1 .. Len(pdfs') : pdfs'[i] = IF i = Len(pdfs) + 1 THEN d ELSE pdfs[i]
    BY <1>1
  <1>3. \A i \in 1 .. Len(pdfs) : pdfs[i] # d
    BY <1>1
  <1>4. ASSUME NEW i \in 1 .. Len(pdfs'), NEW j \in 1 .. Len(pdfs'), pdfs'[i] = pdfs'[j] PROVE i = j
    <2>1. /\ i \in 1 .. Len(pdfs) \/ i = Len(pdfs) + 1
          /\ j \in 1 .. Len(pdfs) \/ j = Len(pdfs) + 1
      BY <1>1, <1>2
    <2> QED
      BY <1>1, <1>2, <1>3, <1>4, <2>1 DEF PdfsInv, AllDiffer
  <1> QED
    BY <1>1, <1>2, <1>4 DEF PdfsInv, AllDiffer

\* The rows without one of them.
LEMMA OnePdfLess ==
  ASSUME pdfs \in Seq(Documents), PdfsInv, NEW k \in 1 .. Len(pdfs), pdfs' = RemoveAt(pdfs, k)
  PROVE  pdfs' \in Seq(Documents) /\ PdfsInv'
  <1> DEFINE front == SubSeq(pdfs, 1, k - 1)
             rest == SubSeq(pdfs, k + 1, Len(pdfs))
             at(i) == IF i < k THEN i ELSE i + 1
  <1>1. pdfs \in Seq(Documents) /\ Len(pdfs) \in Nat /\ MaxPdfs \in Nat /\ k \in Nat
    BY ReviewDeskBounds
  <1>2. /\ front \in Seq(Documents) /\ Len(front) = k - 1
        /\ \A i \in 1 .. k - 1 : front[i] = pdfs[i]
    BY <1>1
  <1>3. /\ rest \in Seq(Documents) /\ Len(rest) = Len(pdfs) - k
        /\ \A i \in 1 .. Len(pdfs) - k : rest[i] = pdfs[i + k]
    BY <1>1
  <1>4. pdfs' = front \o rest
    BY DEF RemoveAt
  <1> HIDE DEF front, rest
  <1>5. /\ pdfs' \in Seq(Documents) /\ Len(pdfs') = Len(pdfs) - 1
        /\ \A i \in 1 .. Len(pdfs') : pdfs'[i] = IF i <= k - 1 THEN front[i] ELSE rest[i - (k - 1)]
    BY <1>1, <1>2, <1>3, <1>4
  <1>6. \A i \in 1 .. Len(pdfs') : pdfs'[i] = pdfs[at(i)] /\ at(i) \in 1 .. Len(pdfs)
    <2> SUFFICES ASSUME NEW i \in 1 .. Len(pdfs') PROVE pdfs'[i] = pdfs[at(i)] /\ at(i) \in 1 .. Len(pdfs)
      OBVIOUS
    <2>1. CASE i < k
      BY <1>1, <1>2, <1>5, <2>1
    <2>2. CASE ~(i < k)
      <3>1. i - (k - 1) \in 1 .. Len(pdfs) - k /\ (i - (k - 1)) + k = i + 1
        BY <1>1, <1>5, <2>2
      <3> QED
        BY <1>1, <1>3, <1>5, <2>2, <3>1
    <2> QED
      BY <2>1, <2>2
  <1>7. ASSUME NEW i \in 1 .. Len(pdfs'), NEW j \in 1 .. Len(pdfs'), pdfs'[i] = pdfs'[j] PROVE i = j
    <2> DEFINE x == at(i)  y == at(j)
    <2>1. x \in 1 .. Len(pdfs) /\ y \in 1 .. Len(pdfs) /\ pdfs[x] = pdfs[y]
      BY <1>6, <1>7
    <2>2. x = y => i = j
      BY <1>1
    <2> HIDE DEF x, y
    <2>3. AllDiffer
      BY DEF PdfsInv
    <2>4. x = y
      BY ONLY <2>1, <2>3 DEF AllDiffer
    <2> QED
      BY <2>2, <2>4
  <1> QED
    BY <1>1, <1>5, <1>7 DEF PdfsInv, AllDiffer

LEMMA PartsStay ==
  /\ RowsOK /\ UNCHANGED pdfVars => RowsOK'
  /\ RulingsOK /\ UNCHANGED <<ruledOn, visitor>> => RulingsOK'
  /\ SweepsOK /\ UNCHANGED sweepVars => SweepsOK'
  /\ DesksOK /\ UNCHANGED desk => DesksOK' /\ RulingsAreInformed
  BY DEF RowsOK, RowInv, PdfsInv, AllDiffer, RulingsOK, ShownInv, ApprovedAt, SweepsOK, DesksOK, RulingsAreInformed,
         pdfVars, sweepVars

\* An upload that moves on without deciding, while the rows stay.
LEMMA UploadMoves ==
  ASSUME RowsOK, NEW u \in PdfUploads, NEW p \in UploadsOfPdfs, uploading' = [uploading EXCEPT ![u] = p],
         UNCHANGED pdfs, p.at = "deciding" => pdfLock' = u /\ p.rows = pdfs,
         \A o \in PdfUploads \ {u} : uploading[o].at = "deciding" => pdfLock' = pdfLock
  PROVE  RowsOK'
  <1>1. uploading' \in [PdfUploads -> UploadsOfPdfs]
    BY DEF RowsOK
  <1>2. \A o \in PdfUploads : uploading'[o] = IF o = u THEN p ELSE uploading[o]
    BY DEF RowsOK
  <1> QED
    BY <1>1, <1>2 DEF RowsOK, RowInv, PdfsInv, AllDiffer

\* One step of an upload, or the removal of a file.
LEMMA RowsStep ==
  ASSUME DeskIInv, (\E u \in PdfUploads : begin_upload(u) \/ read_pdf(u) \/ StoreStep(u)) \/ remove
  PROVE  RowsOK' /\ UNCHANGED <<ruledOn, desk, visitor, sweepVars>>
  <1>1. RowsOK /\ PdfsInv /\ pdfs \in Seq(Documents)
    BY DEF DeskIInv, RowsOK
  <1>2. UNCHANGED <<ruledOn, desk, visitor, sweepVars>>
    BY DEF begin_upload, read_pdf, StoreStep, lock_and_list, insert, remove
  <1>3. \A u \in PdfUploads : uploading[u] \in UploadsOfPdfs
    BY <1>1 DEF RowsOK
  <1>fields. \A u \in PdfUploads :
               /\ uploading[u] = [at |-> uploading[u].at, document |-> uploading[u].document, rows |-> uploading[u].rows]
               /\ uploading[u].rows \in Seq(Documents)
               /\ uploading[u].at # "idle" => uploading[u].document \in Documents
    BY <1>3 DEF UploadsOfPdfs
  <1>over. [at |-> "idle", document |-> "none", rows |-> <<>>] \in UploadsOfPdfs
    BY DEF UploadsOfPdfs
  <1>4. ASSUME NEW u \in PdfUploads, begin_upload(u) PROVE RowsOK'
    <2>1. UNCHANGED <<pdfs, pdfLock>> /\ uploading[u].at = "idle"
      BY <1>4 DEF begin_upload
    <2>2. CASE UNCHANGED uploading
      BY <1>1, <2>1, <2>2 DEF RowsOK, RowInv, PdfsInv, AllDiffer
    <2>3. CASE \E d \in Documents : uploading' = [uploading EXCEPT ![u] = [at |-> "reading", document |-> d, rows |-> <<>>]]
      <3>1. PICK d \in Documents : uploading' = [uploading EXCEPT ![u] = [at |-> "reading", document |-> d, rows |-> <<>>]]
        BY <2>3
      <3> DEFINE p == [at |-> "reading", document |-> d, rows |-> <<>>]
      <3>2. uploading' = [uploading EXCEPT ![u] = p] /\ p \in UploadsOfPdfs
        BY <3>1 DEF UploadsOfPdfs
      <3>3. p.at = "reading"
        OBVIOUS
      <3> HIDE DEF p
      <3> QED
        BY <1>1, <2>1, <3>2, <3>3, UploadMoves
    <2> QED
      BY <1>4, <2>2, <2>3 DEF begin_upload
  <1>5. ASSUME NEW u \in PdfUploads, read_pdf(u) PROVE RowsOK'
    <2>1. UNCHANGED <<pdfs, pdfLock>> /\ uploading[u].at = "reading"
      BY <1>5 DEF read_pdf
    <2>2. CASE uploading' = [uploading EXCEPT ![u].at = "locking"]
      <3> DEFINE p == [at |-> "locking", document |-> uploading[u].document, rows |-> uploading[u].rows]
      <3>1. [uploading[u] EXCEPT !.at = "locking"] = p
        BY ONLY <1>3 DEF UploadsOfPdfs
      <3>2. uploading' = [uploading EXCEPT ![u] = p] /\ p \in UploadsOfPdfs
        BY <1>fields, <2>1, <2>2, <3>1 DEF UploadsOfPdfs
      <3>3. p.at = "locking"
        OBVIOUS
      <3> HIDE DEF p
      <3> QED
        BY <1>1, <2>1, <3>2, <3>3, UploadMoves
    <2>3. CASE EndUpload(u)
      BY <1>1, <1>over, <2>1, <2>3, UploadMoves DEF EndUpload
    <2> QED
      BY <1>5, <2>2, <2>3 DEF read_pdf
  <1>6. ASSUME NEW u \in PdfUploads, lock_and_list(u) PROVE RowsOK'
    <2>1. /\ UNCHANGED pdfs /\ pdfLock = NoUploader /\ pdfLock' = u
          /\ uploading' = [uploading EXCEPT ![u] = [at |-> "deciding", document |-> @.document, rows |-> pdfs]]
      BY <1>6 DEF lock_and_list, RowFree
    <2> DEFINE p == [at |-> "deciding", document |-> uploading[u].document, rows |-> pdfs]
    <2>at. uploading[u].at = "locking"
      BY <1>6 DEF lock_and_list
    <2>2. uploading' = [uploading EXCEPT ![u] = p] /\ p \in UploadsOfPdfs /\ p.rows = pdfs
      BY <1>1, <1>fields, <2>1, <2>at DEF UploadsOfPdfs
    <2>3. \A o \in PdfUploads : uploading[o].at # "deciding"
      BY <1>1, <2>1, ReviewDeskBounds DEF RowsOK, RowInv
    <2> HIDE DEF p
    <2> QED
      BY <1>1, <2>1, <2>2, <2>3, UploadMoves
  <1>7. ASSUME NEW u \in PdfUploads, insert(u) PROVE RowsOK'
    <2>1. /\ uploading[u].at = "deciding" /\ pdfLock = u /\ uploading[u].rows = pdfs
          /\ \A o \in PdfUploads \ {u} : uploading[o].at # "deciding"
      BY <1>1, <1>7 DEF insert, RowsOK, RowInv
    <2>2. pdfs' \in Seq(Documents) /\ PdfsInv'
      <3>1. CASE UNCHANGED pdfs
        BY <1>1, <3>1 DEF RowsOK, PdfsInv, AllDiffer
      <3>2. CASE ~UNCHANGED pdfs
        <4>1. /\ uploading[u].document \notin Range(pdfs) /\ ~(Len(pdfs) >= MaxPdfs)
              /\ pdfs' = Append(pdfs, uploading[u].document)
          BY <1>7, <2>1, <3>2 DEF insert
        <4>2. Len(pdfs) < MaxPdfs
          BY <1>1, <4>1, ReviewDeskBounds DEF RowsOK
        <4>3. uploading[u].document \in Documents
          BY <1>3, <2>1 DEF UploadsOfPdfs
        <4> QED
          BY <1>1, <4>1, <4>2, <4>3, OneMorePdf
      <3> QED
        BY <3>1, <3>2
    <2>3. uploading' = [uploading EXCEPT ![u] = [at |-> "idle", document |-> "none", rows |-> <<>>]]
      BY <1>7 DEF insert, EndUpload
    <2>4. uploading' \in [PdfUploads -> UploadsOfPdfs] /\ \A o \in PdfUploads : uploading'[o].at # "deciding"
      BY <1>1, <1>over, <2>1, <2>3 DEF RowsOK
    <2> QED
      BY <2>2, <2>4 DEF RowsOK, RowInv
  <1>8. ASSUME remove PROVE RowsOK'
    <2>1. pdfLock = NoUploader /\ UNCHANGED uploading /\ \E k \in DOMAIN pdfs : pdfs' = RemoveAt(pdfs, k)
      BY <1>8 DEF remove
    <2>2. \A o \in PdfUploads : uploading[o].at # "deciding"
      BY <1>1, <2>1, ReviewDeskBounds DEF RowsOK, RowInv
    <2>3. DOMAIN pdfs = 1 .. Len(pdfs)
      BY <1>1 DEF RowsOK
    <2>4. pdfs' \in Seq(Documents) /\ PdfsInv'
      BY <1>1, <2>1, <2>3, OnePdfLess
    <2> QED
      BY <1>1, <2>1, <2>2, <2>4 DEF RowsOK, RowInv
  <1> QED
    BY <1>2, <1>4, <1>5, <1>6, <1>7, <1>8 DEF StoreStep

\* One statement of the public listing.
LEMMA VisitStep ==
  ASSUME DeskIInv, NEW v \in Visitors, public_submission(v) \/ pdf_list(v)
  PROVE  RulingsOK' /\ UNCHANGED <<pdfVars, desk, sweepVars>>
  <1>1. RulingsOK /\ pdfs \in Seq(Documents) /\ visitor[v] \in Visits
    BY DEF DeskIInv, RowsOK, RulingsOK
  <1>2. UNCHANGED <<pdfVars, ruledOn, desk, sweepVars>>
    BY DEF public_submission, pdf_list
  <1>3. PICK p \in Visits : /\ visitor' = [visitor EXCEPT ![v] = p]
                            /\ p.shown # <<>> => p.when \in 1 .. Len(ruledOn) /\ ApprovedAt(p.when)
    <2>1. CASE public_submission(v)
      <3> DEFINE p == [at |-> IF IsAccepted THEN "listing" ELSE "away", shown |-> <<>>, when |-> visitor[v].when]
      <3>p. p \in Visits
        BY <1>1 DEF Visits
      <3>1. visitor' = [visitor EXCEPT ![v] = p] /\ p \in Visits /\ p.shown = <<>>
        BY <2>1, <3>p DEF public_submission
      <3> HIDE DEF p
      <3> QED
        BY <3>1
    <2>2. CASE pdf_list(v)
      <3> DEFINE p == [at |-> "away", shown |-> ListedPdfs, when |-> Binding]
      <3>1. visitor' = [visitor EXCEPT ![v] = p] /\ Binding \in Nat /\ Binding = Len(ruledOn)
        BY <1>1, <2>2 DEF pdf_list, RulingsOK, Binding
      <3>2. ListedPdfs \in Seq(Documents) /\ (ListedPdfs # <<>> => ApprovedAt(Binding))
        BY <1>1 DEF ListedPdfs, IsAccepted
      <3>3. p \in Visits
        BY <3>1, <3>2 DEF Visits
      <3>4. ApprovedAt(Binding) => Binding \in 1 .. Len(ruledOn)
        BY <3>1 DEF ApprovedAt
      <3>5. p.shown = ListedPdfs /\ p.when = Binding
        OBVIOUS
      <3> HIDE DEF p
      <3> QED
        BY <3>1, <3>2, <3>3, <3>4, <3>5
    <2> QED
      BY <2>1, <2>2
  <1>4. visitor' \in [Visitors -> Visits] /\ \A o \in Visitors : visitor'[o] = IF o = v THEN p ELSE visitor[o]
    BY <1>1, <1>3 DEF RulingsOK
  <1> QED
    BY <1>1, <1>2, <1>3, <1>4 DEF RulingsOK, ShownInv, ApprovedAt

\* One step of a sweep.
LEMMA SweepStep ==
  ASSUME DeskIInv, (\E w \in Sweepers : claim_sweep(w) \/ record_stage(w) \/ settle_sweep(w)) \/ lease_expired
  PROVE  SweepsOK' /\ UNCHANGED <<pdfVars, ruledOn, desk, visitor>>
  <1>1. sweeps \in Seq(Sweeps) /\ advice \subseteq Nat /\ DOMAIN sweeps = 1 .. Len(sweeps) /\ Len(sweeps) \in Nat
    BY DEF DeskIInv, SweepsOK
  <1>2. UNCHANGED <<pdfVars, ruledOn, desk, visitor>>
    BY DEF claim_sweep, record_stage, settle_sweep, lease_expired
  <1>3. ASSUME NEW w \in Sweepers, claim_sweep(w) PROVE SweepsOK'
    <2>1. Leased(w) \in Sweeps
      BY DEF Leased, Sweeps
    <2> QED
      BY <1>1, <1>3, <2>1 DEF claim_sweep, SweepsOK
  <1>4. ASSUME NEW w \in Sweepers, record_stage(w) PROVE SweepsOK'
    <2>1. UNCHANGED sweeps /\ \E n \in DOMAIN sweeps : advice' = advice \cup {n}
      BY <1>4 DEF record_stage
    <2> QED
      BY <1>1, <2>1, \A n \in DOMAIN sweeps : n \in Nat DEF SweepsOK
  <1>5. ASSUME NEW n \in Running, NEW status \in {"COMPLETED", "FAILED"}, UNCHANGED advice,
               sweeps' = [sweeps EXCEPT ![n] = [status |-> status, owner |-> @.owner, leased |-> FALSE]]
        PROVE  SweepsOK'
    <2>1. n \in 1 .. Len(sweeps) /\ sweeps[n] \in Sweeps
      BY <1>1 DEF Running
    <2> DEFINE s == [status |-> status, owner |-> sweeps[n].owner, leased |-> FALSE]
    <2>s. s \in Sweeps
      BY <2>1 DEF Sweeps
    <2>2. s \in Sweeps /\ sweeps' = [sweeps EXCEPT ![n] = s]
      BY <1>5, <2>s
    <2> HIDE DEF s
    <2>3. sweeps' \in Seq(Sweeps)
      BY <1>1, <2>1, <2>2
    <2> QED
      BY <1>1, <1>5, <2>3 DEF SweepsOK
  <1>6. ASSUME NEW w \in Sweepers, settle_sweep(w) PROVE SweepsOK'
    BY <1>5, <1>6 DEF settle_sweep
  <1>7. ASSUME lease_expired PROVE SweepsOK'
    BY <1>5, <1>7 DEF lease_expired
  <1> QED
    BY <1>2, <1>3, <1>4, <1>6, <1>7

\* A reviewer's page and the ruling that is posted from it.
LEMMA ReviewerKeeps ==
  ASSUME DeskIInv, ReviewerStep
  PROVE  RulingsOK' /\ DesksOK' /\ RulingsAreInformed /\ UNCHANGED <<pdfVars, sweepVars>>
  <1>1. PICK r \in Reviewers : read_review(r) \/ attempts_for(r) \/ rule(r)
    BY DEF ReviewerStep
  <1>2. UNCHANGED <<pdfVars, visitor, sweepVars>>
    BY <1>1 DEF read_review, attempts_for, rule
  <1>3. RulingsOK /\ DesksOK /\ Len(ruledOn) \in Nat /\ desk[r] \in Desks /\ advice \subseteq Nat
    BY DEF DeskIInv, RulingsOK, DesksOK, SweepsOK
  <1>4. CASE read_review(r) \/ attempts_for(r)
    <2>1. PICK p \in Desks : desk' = [desk EXCEPT ![r] = p] /\ p.at \in {"reading", "read"}
      <3>1. CASE read_review(r)
        <4>1. [at |-> "reading", binding |-> Binding, attempts |-> {}] \in Desks
          BY <1>3 DEF Desks, Binding
        <4> QED
          BY <3>1, <4>1 DEF read_review
      <3>2. CASE attempts_for(r)
        <4> DEFINE p == [at |-> "read", binding |-> desk[r].binding, attempts |-> advice]
        <4>p. p \in Desks
          BY <1>3 DEF Desks
        <4>1. p \in Desks /\ desk' = [desk EXCEPT ![r] = p] /\ p.at = "read"
          BY <3>2, <4>p DEF attempts_for
        <4> HIDE DEF p
        <4> QED
          BY <4>1
      <3> QED
        BY <1>4, <3>1, <3>2
    <2>2. UNCHANGED ruledOn
      BY <1>4 DEF read_review, attempts_for
    <2>3. desk' \in [Reviewers -> Desks] /\ \A o \in Reviewers : desk'[o] = IF o = r THEN p ELSE desk[o]
      BY <1>3, <2>1 DEF DesksOK
    <2> QED
      BY <1>2, <1>3, <2>1, <2>2, <2>3, PartsStay DEF DesksOK, RulingsAreInformed
  <1>5. CASE rule(r)
    <2>1. PICK decision \in {"APPROVED", "REJECTED"} : ruledOn' = Append(ruledOn, <<decision, Binding>>)
      BY <1>5 DEF rule
    <2>2. /\ desk' = [desk EXCEPT ![r] = ClosedPage]
          /\ desk[r].binding = Len(ruledOn)
      BY <1>3, <1>5 DEF rule, StillBinding, Binding
    <2>3. ClosedPage \in Desks
      BY DEF ClosedPage, Desks
    <2>4. desk' \in [Reviewers -> Desks] /\ \A o \in Reviewers : o # r => desk'[o] = desk[o]
      BY <1>3, <2>2, <2>3 DEF DesksOK
    <2>5. <<decision, Binding>> \in Rulings
      BY <1>3 DEF Rulings, Binding
    <2>6. /\ ruledOn' \in Seq(Rulings) /\ Len(ruledOn') = Len(ruledOn) + 1
          /\ ruledOn'[Len(ruledOn')] = <<decision, Binding>>
          /\ \A i \in 1 .. Len(ruledOn) : ruledOn'[i] = ruledOn[i]
      BY <1>3, <2>1, <2>5 DEF RulingsOK
    <2>7. RulingsOK'
      BY <1>2, <1>3, <2>6 DEF RulingsOK, ShownInv, ApprovedAt
    <2>8. ruledOn'[Len(ruledOn')][2] = Len(ruledOn)
      BY <2>6 DEF Binding
    <2> QED
      BY <1>2, <2>2, <2>4, <2>7, <2>8 DEF DesksOK, RulingsAreInformed
  <1> QED
    BY <1>1, <1>4, <1>5

LEMMA DeskStep ==
  ASSUME DeskIInv, [PapersNext \/ AdviceNext]_reviewDeskVars
  PROVE  DeskIInv' /\ RulingsAreInformed
  <1>1. RowsOK /\ RulingsOK /\ SweepsOK /\ DesksOK
    BY DEF DeskIInv
  <1>2. CASE (\E u \in PdfUploads : begin_upload(u) \/ read_pdf(u) \/ StoreStep(u)) \/ remove
    BY <1>1, <1>2, RowsStep, PartsStay DEF DeskIInv
  <1>3. CASE \E v \in Visitors : public_submission(v) \/ pdf_list(v)
    BY <1>1, <1>3, VisitStep, PartsStay DEF DeskIInv
  <1>4. CASE ReviewerStep
    BY <1>1, <1>4, ReviewerKeeps, PartsStay DEF DeskIInv
  <1>5. CASE (\E w \in Sweepers : claim_sweep(w) \/ record_stage(w) \/ settle_sweep(w)) \/ lease_expired
    BY <1>1, <1>5, SweepStep, PartsStay DEF DeskIInv
  <1>6. CASE UNCHANGED reviewDeskVars
    BY <1>1, <1>6, PartsStay DEF DeskIInv, reviewDeskVars
  <1> QED
    BY <1>2, <1>3, <1>4, <1>5, <1>6 DEF PapersNext, AdviceNext

\* The desk keeps its tables, the row's lock and the order of its rulings.
THEOREM DeskInductive == ReviewDeskSpec => []DeskIInv
  <1> QED
    BY DeskStart, DeskStep, PTL DEF ReviewDeskSpec

----------------------------------------------------------------------------
(* The components together.                                                *)

DeliveriesIInv == NoticesIInv /\ DeskIInv

LEMMA DeliveriesStep ==
  ASSUME DeliveriesIInv, [DeliveriesNext]_<<scenario, uploadVars, noticeVars, reviewDeskVars>>
  PROVE  DeliveriesIInv' /\ NoticesKeep /\ RulingsAreInformed
  <1>1. [NoticesNext]_noticeVars /\ [PapersNext \/ AdviceNext]_reviewDeskVars
    BY DEF DeliveriesNext, ChatLogUploadsRuns, PayoutNoticesRuns, PapersRuns, AdviceRuns
  <1> QED
    BY <1>1, NoticesStep, DeskStep DEF DeliveriesIInv

THEOREM DeliveriesInductive == DeliveriesSpec => []DeliveriesIInv
  <1>1. DeliveriesInit => DeliveriesIInv
    BY NoticesStart, DeskStart DEF DeliveriesInit, DeliveriesIInv
  <1> QED
    BY <1>1, DeliveriesStep, PTL DEF DeliveriesSpec

\* A notice marked sent was accepted; attachments are bounded, and shown of a result that is approved.
THEOREM DeliveriesStayTrue == DeliveriesSpec => []DeliveriesAreTrue
  <1>1. DeliveriesIInv => DeliveriesAreTrue
    BY DeskIsSafe DEF DeliveriesIInv, NoticesIInv, DeliveriesAreTrue
  <1> QED
    BY <1>1, DeliveriesInductive, PTL

\* A sent notice stays sent, what is owed stays what it was and within the lock, and a ruling replaces
\* the one its reviewer had read, whatever the others do meanwhile (_finish, award, correct_decision).
THEOREM DecisionsAreKept == DeliveriesSpec => DecisionsStand
  <1>1. DeliveriesIInv /\ [DeliveriesNext]_<<scenario, uploadVars, noticeVars, reviewDeskVars>>
        => [SentIsFinal /\ OwedWithinTheLock /\ RulingsAreInformed]_<<noticeVars, reviewDeskVars>>
    BY DeliveriesStep DEF NoticesKeep
  <1> QED
    BY <1>1, DeliveriesInductive, PTL DEF DeliveriesSpec, DecisionsStand
=============================================================================
