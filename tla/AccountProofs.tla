---------------------------- MODULE AccountProofs ----------------------------
(***************************************************************************)
(* Proofs about what an account is and has: CreditAccounts, for any number *)
(* of intents, uploads, confirmations and web calls and any lifetime of an *)
(* intent; SignIn, for any number of requests, links, wallets and          *)
(* attempts; and what MCEntitlements composes: invitations, bounties and   *)
(* their prices, tokens of the command line, browser sessions and request  *)
(* rates, for any of each.                                                 *)
(*                                                                         *)
(* CreditAccounts.  What is kept is a bound on what is reserved: an intent *)
(* that is live, or was debited before it lapsed, and the call that holds  *)
(* the account's row never outnumber the credits given.  An upload may     *)
(* bring an intent that was debited back to life, so the two kinds are one *)
(* set and not a sum.                                                      *)
(*                                                                         *)
(* SignIn.  The invariant says what a request may rely on between two of   *)
(* its statements: the row of the link it consumed is its own, the account *)
(* it found is there, the address it is about to insert is locked and      *)
(* free, and the counter of an account is the set of its wrong guesses.    *)
(* Every lemma is one action, or what the other requests keep while one of *)
(* them moves.                                                             *)
(*                                                                         *)
(* Sessions and invitations.  What a request under way is about to write   *)
(* was decided earlier; the invariant says that it still holds: a coldkey  *)
(* linked to the holder, a session extended on the day it was used, an     *)
(* invitation locked and not withdrawn.                                    *)
(*                                                                         *)
(* Request rates.  Of a client the invariant says that the table knows its *)
(* latest admissions and has forgotten only what left the window.  Of a    *)
(* mailbox it is a sum: the failures of a window, those that would be      *)
(* refused a record if they failed now, and a slack for every attempt that *)
(* is older than the window, against what is on record.                    *)
(*                                                                         *)
(* Tokens, bounties and prices.  While a minting is alone the tokens of    *)
(* its account only become fewer, so what it counted still holds when it   *)
(* commits.  A share is bounded by cancelling its denominators; what is    *)
(* left of the balance is a number because what is committed is a sum of   *)
(* greatest amounts.  A price is as old as its cache was when it was       *)
(* filled and has been since.                                              *)
(***************************************************************************)
EXTENDS CreditAccounts, SignIn, MCEntitlements, SumTheorems, SequenceTheorems, NaturalsInduction, TLAPS

----------------------------------------------------------------------------
(* Credits.                                                                *)

Bundles == {UploadProof[u] : u \in Uploads} \cup {WebProof[w] : w \in WebCalls}
             \cup {SignedProof[c] : c \in Confirms} \cup {NoOne}
IntentStatus == {"None", "OPEN", "BUNDLE_ATTACHED", "CONFIRMED"}
IntentRow == [status : IntentStatus, expires : Nat, proof : Bundles]
Submission == [proof : Bundles, signed : Bundles,
               key : {WebKey[w] : w \in WebCalls} \cup Intents \cup {NoOne}]

CreditTypes ==
    /\ creditTime \in Nat /\ given \in Nat /\ accountLock \in WebCalls \cup {NoOne}
    /\ intent \in [Ids -> IntentRow] /\ accepted \in [Ids -> Submission]
    /\ spend \in [Ids -> [n : {0, 1}, at : Nat]]
    /\ opening \in [Intents -> [pc : {"New", "Asked", "Opened", "Refused"}, at : Nat]]
    /\ upload \in [Uploads -> [pc : {"New", "Loaded", "Attached", "Refused"}, seen : IntentStatus]]
    /\ confirming \in [Confirms -> [pc : {"New", "Verified", "Quoted", "Created", "Refused"},
                                    seen : IntentRow, at : Nat]]
    /\ web \in [WebCalls -> [pc : {"New", "Uploading", "Asked", "Opened", "Created", "Refused", "Replayed"},
                             at : Nat]]

\* Times that requests have read are past.
TimesAreRead ==
    /\ \A i \in Intents : opening[i].at <= creditTime
    /\ \A w \in WebCalls : web[w].at <= creditTime
    /\ \A i \in Ids : spend[i].at <= creditTime

\* An intent that is not there does not last, and one that is confirmed was debited.
RowsInv ==
    \A i \in Ids : /\ intent[i].status = "None" => intent[i].expires = 0
                   /\ intent[i].status = "CONFIRMED" => spend[i].n = 1

\* A web call has the account's row exactly between its open and its confirm, and is debited once.
WebInv ==
    \A w \in WebCalls : /\ web[w].pc = "Opened" <=> accountLock = w
                        /\ web[w].pc # "Created" => accepted[w] = NoSubmission
                        /\ accepted[w] # NoSubmission => accepted[w].key = WebKey[w]

\* What a confirmation will submit is what its signature was checked against.
SignatureInv ==
    \A c \in Confirms : confirming[c].pc \in {"Verified", "Quoted"} =>
        confirming[c].seen.proof = SignedProof[c]

Lasting(i, moment) == intent[i].status \in {"OPEN", "BUNDLE_ATTACHED"} /\ intent[i].expires > moment
Touched == {i \in Ids : intent[i].status # "None" \/ spend[i].n > 0}
Spent == {i \in Ids : spend[i].n > 0}
Held(moment) == {i \in Ids : Lasting(i, moment)}

\* What stands against the credits given.
Claimed == {i \in Ids : (spend[i].n > 0 /\ spend[i].at < intent[i].expires) \/ Lasting(i, creditTime)}
Reserved == Claimed \cup {w \in WebCalls : accountLock = w}

ReservedInv ==
    /\ IsFiniteSet(Touched) /\ IsFiniteSet(Reserved)
    /\ Cardinality(Reserved) <= given

CreditIInv ==
    /\ CreditTypes /\ TimesAreRead /\ RowsInv /\ WebInv /\ SignatureInv
    /\ OneSpendPerSubmission /\ SubmittedIsSigned /\ KeyChargedOnce /\ ReservedInv
-----------------------------------------------------------------------------
(* Reservations.                                                           *)

\* What credits_available leaves, a new hold may take: the holds it counts at a time that is
\* past include all that still last, and the debits it counts include the late ones.
LEMMA RoomForOne ==
  ASSUME CreditTypes, ReservedInv, NEW moment \in Nat, moment <= creditTime, ~(credits_available(moment) < 1)
  PROVE  /\ IsFiniteSet(Claimed) /\ Cardinality(Claimed) \in Nat
         /\ Cardinality(Claimed) + 1 <= given
  <1>1. Spent \subseteq Touched /\ Held(moment) \subseteq Touched /\ Claimed \subseteq Spent \cup Held(moment)
    BY DEF Spent, Held, Touched, Claimed, Lasting, CreditTypes, IntentRow
  <1>2. IsFiniteSet(Spent) /\ IsFiniteSet(Held(moment))
    BY <1>1, FS_Subset DEF ReservedInv
  <1>3. /\ Cardinality(Spent) \in Nat /\ Cardinality(Held(moment)) \in Nat
        /\ IsFiniteSet(Spent \cup Held(moment)) /\ Cardinality(Spent \cup Held(moment)) \in Nat
        /\ Cardinality(Spent \cap Held(moment)) \in Nat
    BY <1>2, FS_CardinalityType, FS_Union, FS_Intersection
  <1>4. Cardinality(Spent \cup Held(moment)) <= Cardinality(Spent) + Cardinality(Held(moment))
    <2>1. Cardinality(Spent \cup Held(moment))
            = Cardinality(Spent) + Cardinality(Held(moment)) - Cardinality(Spent \cap Held(moment))
      BY <1>2, FS_Union
    <2> QED
      BY <1>3, <2>1
  <1>5. /\ IsFiniteSet(Claimed) /\ Cardinality(Claimed) \in Nat
        /\ Cardinality(Claimed) <= Cardinality(Spent \cup Held(moment))
    BY <1>1, <1>3, FS_Subset, FS_CardinalityType
  <1>6. balance_rao = given - Cardinality(Spent) /\ held_rao(moment) = Cardinality(Held(moment))
    BY DEF balance_rao, held_rao, Spent, Held, Lasting
  <1>7. Cardinality(Spent) + Cardinality(Held(moment)) + 1 <= given
    <2>1. given \in Nat
      BY DEF CreditTypes
    <2>2. ~((IF given - Cardinality(Spent) - Cardinality(Held(moment)) <= 0 THEN 0
             ELSE given - Cardinality(Spent) - Cardinality(Held(moment))) < 1)
      BY <1>6 DEF credits_available
    <2> QED
      BY <1>3, <2>1, <2>2
  <1>8. given \in Nat
    BY DEF CreditTypes
  <1> QED
    BY <1>3, <1>4, <1>5, <1>7, <1>8

LEMMA ReservedShrinks ==
  ASSUME CreditTypes, ReservedInv, given' \in Nat, given' >= given,
         NEW i, Touched' \subseteq Touched \cup {i}, Reserved' \subseteq Reserved
  PROVE  ReservedInv'
  <1>1. IsFiniteSet(Touched')
    <2>1. IsFiniteSet(Touched \cup {i})
      BY FS_AddElement DEF ReservedInv
    <2> QED
      BY <2>1, FS_Subset
  <1>2. IsFiniteSet(Reserved') /\ Cardinality(Reserved') <= Cardinality(Reserved)
    BY FS_Subset DEF ReservedInv
  <1>3. Cardinality(Reserved) \in Nat /\ Cardinality(Reserved') \in Nat /\ given \in Nat
    BY <1>2, FS_CardinalityType DEF ReservedInv, CreditTypes
  <1>4. Cardinality(Reserved) <= given
    BY DEF ReservedInv
  <1> QED
    BY <1>1, <1>2, <1>3, <1>4 DEF ReservedInv

LEMMA ReservedGrows ==
  ASSUME CreditTypes, ReservedInv, given' = given, NEW i,
         IsFiniteSet(Claimed), Cardinality(Claimed) \in Nat, Cardinality(Claimed) + 1 <= given,
         Touched' \subseteq Touched \cup {i}, Reserved' \subseteq Claimed \cup {i}
  PROVE  ReservedInv'
  <1>1. IsFiniteSet(Touched')
    <2>1. IsFiniteSet(Touched \cup {i})
      BY FS_AddElement DEF ReservedInv
    <2> QED
      BY <2>1, FS_Subset
  <1>2. /\ IsFiniteSet(Claimed \cup {i}) /\ Cardinality(Claimed \cup {i}) \in Nat
        /\ Cardinality(Claimed \cup {i}) <= Cardinality(Claimed) + 1
    <2>1. /\ IsFiniteSet(Claimed \cup {i})
          /\ Cardinality(Claimed \cup {i}) = IF i \in Claimed THEN Cardinality(Claimed) ELSE Cardinality(Claimed) + 1
      BY FS_AddElement
    <2> QED
      BY <2>1, FS_CardinalityType
  <1>3. IsFiniteSet(Reserved') /\ Cardinality(Reserved') <= Cardinality(Claimed \cup {i})
    BY <1>2, FS_Subset
  <1>4. Cardinality(Reserved') \in Nat /\ given \in Nat
    BY <1>3, FS_CardinalityType DEF CreditTypes
  <1> QED
    BY <1>1, <1>2, <1>3, <1>4 DEF ReservedInv

\* While nobody has the account's row, what is claimed is all that is reserved.
LEMMA NobodyHoldsTheRow ==
  ASSUME accountLock = NoOne
  PROVE  Reserved = Claimed
  BY CreditConstants DEF Reserved
-----------------------------------------------------------------------------
(* Steps that enter nothing in the ledger.                                 *)

OpeningType == [Intents -> [pc : {"New", "Asked", "Opened", "Refused"}, at : Nat]]
UploadType == [Uploads -> [pc : {"New", "Loaded", "Attached", "Refused"}, seen : IntentStatus]]
ConfirmingType == [Confirms -> [pc : {"New", "Verified", "Quoted", "Created", "Refused"},
                                seen : IntentRow, at : Nat]]
WebType == [WebCalls -> [pc : {"New", "Uploading", "Asked", "Opened", "Created", "Refused", "Replayed"},
                         at : Nat]]

LEMMA NothingEntered ==
  ASSUME CreditIInv, UNCHANGED <<creditTime, given, tables, accountLock>>,
         opening' \in OpeningType, \A i \in Intents : opening'[i].at <= creditTime,
         upload' \in UploadType, confirming' \in ConfirmingType, SignatureInv',
         web' \in WebType, \A w \in WebCalls : web'[w].at <= creditTime, WebInv'
  PROVE  CreditIInv'
  <1> USE DEF tables
  <1>1. CreditTypes' /\ TimesAreRead'
    BY DEF CreditIInv, CreditTypes, TimesAreRead, OpeningType, UploadType, ConfirmingType, WebType
  <1>2. RowsInv' /\ OneSpendPerSubmission' /\ SubmittedIsSigned' /\ KeyChargedOnce'
    BY DEF CreditIInv, RowsInv, OneSpendPerSubmission, SubmittedIsSigned, KeyChargedOnce
  <1>3. ReservedInv'
    <2>1. Touched' = Touched /\ Claimed' = Claimed
      BY DEF Touched, Claimed, Lasting
    <2>2. Reserved' = Reserved
      BY <2>1 DEF Reserved
    <2> QED
      BY <2>1, <2>2 DEF CreditIInv, ReservedInv
  <1> QED
    BY <1>1, <1>2, <1>3 DEF CreditIInv

LEMMA TypesOfCalls ==
  ASSUME CreditTypes
  PROVE  /\ opening \in OpeningType /\ upload \in UploadType
         /\ confirming \in ConfirmingType /\ web \in WebType
  BY DEF CreditTypes, OpeningType, UploadType, ConfirmingType, WebType

\* A confirmation that is over.
LEMMA ConfirmationEnded ==
  ASSUME CreditIInv, NEW c \in Confirms, NEW pc \in {"Created", "Refused"}, ConfirmEnds(c, pc)
  PROVE  confirming' \in ConfirmingType /\ SignatureInv'
  <1>1. confirming \in ConfirmingType /\ NoIntent \in IntentRow
    BY TypesOfCalls DEF CreditIInv, NoIntent, IntentRow, IntentStatus, Bundles
  <1>2. /\ confirming' \in ConfirmingType /\ confirming'[c].pc = pc
        /\ \A d \in Confirms : d # c => confirming'[d] = confirming[d]
    BY <1>1 DEF ConfirmEnds, ConfirmingType
  <1> QED
    BY <1>2 DEF CreditIInv, SignatureInv

LEMMA QuietConfirmSteps ==
  ASSUME CreditIInv, NEW c \in Confirms, confirm_intent(c) \/ ConfirmQuote(c)
  PROVE  CreditIInv'
  <1> USE DEF tables
  <1>1. UNCHANGED <<creditTime, given, tables, accountLock, opening, upload, web>>
    BY DEF confirm_intent, ConfirmQuote
  <1>2. confirming' \in ConfirmingType /\ SignatureInv'
    <2>1. /\ confirming \in ConfirmingType /\ intent \in [Ids -> IntentRow] /\ creditTime \in Nat
          /\ ConfirmOf[c] \in Ids
      BY TypesOfCalls, CreditConstants DEF CreditIInv, CreditTypes, Ids
    <2>2. CASE ConfirmEnds(c, "Refused")
      BY <2>2, ConfirmationEnded
    <2> DEFINE seen == intent[ConfirmOf[c]]
    <2>3. CASE /\ seen.proof = SignedProof[c]
               /\ confirming' = [confirming EXCEPT ![c] = [pc |-> "Verified", seen |-> seen, at |-> 0]]
      <3>1. seen \in IntentRow
        BY <2>1
      <3>2. /\ confirming' \in ConfirmingType /\ confirming'[c].seen.proof = SignedProof[c]
            /\ \A d \in Confirms : d # c => confirming'[d] = confirming[d]
        BY <2>1, <2>3, <3>1 DEF ConfirmingType
      <3> QED
        BY <3>2 DEF CreditIInv, SignatureInv
    <2>4. CASE /\ confirming[c].pc = "Verified"
               /\ confirming' = [confirming EXCEPT ![c].pc = "Quoted", ![c].at = creditTime]
      <3> DEFINE half == [confirming EXCEPT ![c].pc = "Quoted"]
      <3>1. confirming' = [half EXCEPT ![c].at = creditTime]
        BY <2>4, Zenon
      <3>2. /\ half \in ConfirmingType /\ half[c].seen = confirming[c].seen
            /\ \A d \in Confirms : d # c => half[d] = confirming[d]
        BY <2>1 DEF ConfirmingType
      <3> HIDE DEF half
      <3>3. /\ confirming' \in ConfirmingType /\ confirming'[c].seen = half[c].seen
            /\ \A d \in Confirms : d # c => confirming'[d] = half[d]
        BY <2>1, <3>1, <3>2 DEF ConfirmingType
      <3>4. confirming[c].seen.proof = SignedProof[c]
        BY <2>4 DEF CreditIInv, SignatureInv
      <3> QED
        BY <3>2, <3>3, <3>4 DEF CreditIInv, SignatureInv
    <2> QED
      BY <2>2, <2>3, <2>4 DEF confirm_intent, ConfirmQuote
  <1>3. WebInv'
    BY <1>1 DEF CreditIInv, WebInv
  <1>4. /\ opening \in OpeningType /\ \A i \in Intents : opening[i].at <= creditTime
        /\ upload \in UploadType /\ web \in WebType /\ \A w \in WebCalls : web[w].at <= creditTime
    BY TypesOfCalls DEF CreditIInv, TimesAreRead
  <1> QED
    BY <1>1, <1>2, <1>3, <1>4, NothingEntered

\* Requests that only read, or are refused.
LEMMA QuietRequests ==
  ASSUME CreditIInv, UNCHANGED tables,
         \/ \E i \in Intents : create_intent(i) \/ open_intent(i)
         \/ \E u \in Uploads : upload_bundle(u) \/ attach_bundle(u)
  PROVE  CreditIInv'
  <1> USE DEF tables
  <1>1. UNCHANGED <<creditTime, given, tables, accountLock, confirming, web>>
    BY DEF create_intent, open_intent, upload_bundle, attach_bundle
  <1>2. /\ opening \in OpeningType /\ upload \in UploadType /\ confirming \in ConfirmingType /\ web \in WebType
        /\ creditTime \in Nat /\ intent \in [Ids -> IntentRow] /\ UploadTo \in [Uploads -> Intents]
        /\ \A i \in Intents : i \in Ids /\ opening[i].at <= creditTime
        /\ \A w \in WebCalls : web[w].at <= creditTime
    BY TypesOfCalls, CreditConstants DEF CreditIInv, CreditTypes, TimesAreRead, Ids
  <1>3. /\ opening' \in OpeningType /\ \A i \in Intents : opening'[i].at <= creditTime
        /\ upload' \in UploadType
    <2>1. ASSUME NEW i \in Intents, create_intent(i) \/ open_intent(i)
          PROVE  /\ opening' \in OpeningType /\ \A j \in Intents : opening'[j].at <= creditTime
                 /\ upload' = upload
      <3>1. /\ upload' = upload
            /\ \/ opening' = [opening EXCEPT ![i] = [pc |-> "Asked", at |-> creditTime]]
               \/ opening' = [opening EXCEPT ![i].pc = "Refused"]
               \/ opening' = [opening EXCEPT ![i].pc = "Opened"]
        BY <2>1 DEF create_intent, open_intent
      <3> QED
        BY <1>2, <3>1 DEF OpeningType
    <2>2. ASSUME NEW u \in Uploads, upload_bundle(u) \/ attach_bundle(u)
          PROVE  opening' = opening /\ upload' \in UploadType
      <3>1. /\ opening' = opening
            /\ \/ \E pc \in {"Loaded", "Refused"} :
                    upload' = [upload EXCEPT ![u] = [pc |-> pc, seen |-> intent[UploadTo[u]].status]]
               \/ \E pc \in {"Attached", "Refused"} : upload' = [upload EXCEPT ![u].pc = pc]
        BY <2>2 DEF upload_bundle, attach_bundle
      <3>2. intent[UploadTo[u]].status \in IntentStatus
        BY <1>2 DEF IntentRow
      <3> QED
        BY <1>2, <3>1, <3>2 DEF UploadType
    <2> QED
      BY <1>2, <2>1, <2>2
  <1>4. SignatureInv' /\ WebInv'
    BY <1>1 DEF CreditIInv, SignatureInv, WebInv
  <1> QED
    BY <1>1, <1>2, <1>3, <1>4, NothingEntered
-----------------------------------------------------------------------------
(* Steps that change what is reserved.                                     *)

LEMMA TimeAndGrants ==
  ASSUME CreditIInv, Tick \/ AddCredit
  PROVE  CreditIInv'
  <1> USE DEF tables
  <1>1. /\ UNCHANGED <<tables, opening, upload, confirming, web, accountLock>>
        /\ creditTime' \in Nat /\ creditTime' >= creditTime /\ given' \in Nat /\ given' >= given
    BY DEF Tick, AddCredit, CreditIInv, CreditTypes
  <1>2. CreditTypes'
    BY <1>1 DEF CreditIInv, CreditTypes
  <1>3. TimesAreRead'
    BY <1>1 DEF CreditIInv, CreditTypes, TimesAreRead
  <1>4. RowsInv' /\ WebInv' /\ SignatureInv' /\ OneSpendPerSubmission' /\ SubmittedIsSigned' /\ KeyChargedOnce'
    BY <1>1 DEF CreditIInv, RowsInv, WebInv, SignatureInv, OneSpendPerSubmission, SubmittedIsSigned, KeyChargedOnce
  <1>5. ReservedInv'
    <2>1. Touched' = Touched
      BY <1>1 DEF Touched
    <2>2. Claimed' \subseteq Claimed
      <3>1. \A i \in Ids : intent[i].expires \in Nat
        BY DEF CreditIInv, CreditTypes, IntentRow
      <3>2. creditTime \in Nat
        BY DEF CreditIInv, CreditTypes
      <3> QED
        BY <1>1, <3>1, <3>2 DEF Claimed, Lasting
    <2>3. Reserved' \subseteq Reserved
      BY <1>1, <2>2 DEF Reserved
    <2> QED
      BY <1>1, <2>1, <2>3, ReservedShrinks DEF CreditIInv
  <1> QED
    BY <1>2, <1>3, <1>4, <1>5 DEF CreditIInv

\* An intent is opened or gets a bundle: one row is written, and no debit.
LEMMA IntentWritten ==
  ASSUME CreditIInv, NEW i \in Intents, NEW e \in Nat, NEW p \in Bundles, NEW st \in IntentStatus,
         st # "None", st = "CONFIRMED" => spend[i].n = 1,
         intent' = [intent EXCEPT ![i] = [status |-> st, expires |-> e, proof |-> p]],
         opening' \in OpeningType, \A j \in Intents : opening'[j].at <= creditTime,
         upload' \in UploadType,
         UNCHANGED <<creditTime, given, spend, accepted, confirming, web, accountLock>>,
         ReservedInv'
  PROVE  CreditIInv'
  <1>1. i \in Ids /\ intent \in [Ids -> IntentRow]
    BY DEF Ids, CreditIInv, CreditTypes
  <1>2. /\ intent' \in [Ids -> IntentRow] /\ intent'[i].status = st
        /\ \A j \in Ids : j # i => intent'[j] = intent[j]
    BY <1>1 DEF IntentRow
  <1>3. CreditTypes' /\ TimesAreRead'
    BY <1>2 DEF CreditIInv, CreditTypes, TimesAreRead, OpeningType, UploadType
  <1>4. RowsInv'
    BY <1>1, <1>2 DEF CreditIInv, RowsInv
  <1>5. WebInv' /\ SignatureInv' /\ OneSpendPerSubmission' /\ SubmittedIsSigned' /\ KeyChargedOnce'
    BY DEF CreditIInv, WebInv, SignatureInv, OneSpendPerSubmission, SubmittedIsSigned, KeyChargedOnce
  <1> QED
    BY <1>3, <1>4, <1>5 DEF CreditIInv

LEMMA OpenKeeps ==
  ASSUME CreditIInv, NEW i \in Intents, open_intent(i), intent' # intent
  PROVE  CreditIInv'
  <1> DEFINE e == opening[i].at + Minutes
  <1>1. /\ accountLock = NoOne /\ ~(credits_available(opening[i].at) < 1)
        /\ intent' = [intent EXCEPT ![i] = [status |-> "OPEN", proof |-> NoOne, expires |-> e]]
        /\ opening' = [opening EXCEPT ![i].pc = "Opened"]
        /\ UNCHANGED <<creditTime, given, spend, accepted, upload, confirming, web, accountLock>>
    BY DEF open_intent
  <1>2. /\ opening \in OpeningType /\ opening[i].at \in Nat /\ e \in Nat /\ upload \in UploadType
        /\ \A j \in Intents : opening[j].at <= creditTime
        /\ NoOne \in Bundles /\ i \in Ids /\ intent \in [Ids -> IntentRow]
    BY TypesOfCalls, CreditConstants
       DEF CreditIInv, CreditTypes, TimesAreRead, OpeningType, Bundles, Ids
  <1>3. opening' \in OpeningType /\ \A j \in Intents : opening'[j].at <= creditTime
    BY <1>1, <1>2 DEF OpeningType
  <1>4. ReservedInv'
    <2>1. /\ IsFiniteSet(Claimed) /\ Cardinality(Claimed) \in Nat
          /\ Cardinality(Claimed) + 1 <= given
      BY <1>1, <1>2, RoomForOne DEF CreditIInv
    <2>2. \A j \in Ids : j # i => intent'[j] = intent[j]
      BY <1>1, <1>2
    <2>3. Claimed' \subseteq Claimed \cup {i} /\ Touched' \subseteq Touched \cup {i}
      BY <1>1, <2>2 DEF Claimed, Touched, Lasting
    <2>4. Reserved' \subseteq Claimed \cup {i}
      BY <1>1, <2>3, CreditConstants DEF Reserved
    <2> QED
      BY <1>1, <2>1, <2>3, <2>4, ReservedGrows DEF CreditIInv
  <1> HIDE DEF e
  <1>5. [status |-> "OPEN", proof |-> NoOne, expires |-> e] = [status |-> "OPEN", expires |-> e, proof |-> NoOne]
    OBVIOUS
  <1> QED
    BY <1>1, <1>2, <1>3, <1>4, <1>5, IntentWritten DEF IntentStatus

\* A bundle is attached, and a lapsed intent is not brought back: what was read as open may
\* have been confirmed since, and is then claimed already.
LEMMA AttachKeeps ==
  ASSUME CreditIInv, NEW u \in Uploads, attach_bundle(u), intent' # intent
  PROVE  CreditIInv'
  <1> DEFINE i == UploadTo[u]
             st == IF upload[u].seen = "OPEN" THEN "BUNDLE_ATTACHED" ELSE intent[i].status
  <1>1. /\ intent[i].expires > creditTime
        /\ intent' = [intent EXCEPT ![i].proof = UploadProof[u],
                                    ![i].status = IF upload[u].seen = "OPEN" THEN "BUNDLE_ATTACHED" ELSE @]
        /\ upload' = [upload EXCEPT ![u].pc = "Attached"]
        /\ UNCHANGED <<creditTime, given, spend, accepted, opening, confirming, web, accountLock>>
    BY DEF attach_bundle
  <1>2. /\ opening \in OpeningType /\ upload \in UploadType /\ creditTime \in Nat
        /\ \A j \in Intents : opening[j].at <= creditTime
        /\ i \in Intents /\ i \in Ids /\ intent \in [Ids -> IntentRow] /\ UploadProof[u] \in Bundles
        /\ spend \in [Ids -> [n : {0, 1}, at : Nat]] /\ spend[i].at <= creditTime
    BY TypesOfCalls, CreditConstants DEF CreditIInv, CreditTypes, TimesAreRead, Bundles, Ids
  <1>3. upload' \in UploadType
    BY <1>1, <1>2 DEF UploadType
  <1>4. intent[i] \in IntentRow /\ st \in IntentStatus
    BY <1>2 DEF IntentRow, IntentStatus
  <1>5. /\ intent[i].status # "None" /\ (intent[i].status = "CONFIRMED" => spend[i].n = 1)
        /\ intent[i].expires \in Nat
    BY <1>1, <1>2, <1>4 DEF CreditIInv, RowsInv, IntentRow
  <1>6. intent' = [intent EXCEPT ![i] = [status |-> st, expires |-> intent[i].expires, proof |-> UploadProof[u]]]
    <2> DEFINE half == [intent EXCEPT ![i].proof = UploadProof[u]]
    <2>1. intent' = [half EXCEPT ![i].status = st]
      BY <1>1, Zenon
    <2>2. /\ half[i] = [status |-> intent[i].status, expires |-> intent[i].expires, proof |-> UploadProof[u]]
          /\ DOMAIN half = Ids /\ \A j \in Ids : j # i => half[j] = intent[j]
      BY <1>2, <1>4 DEF IntentRow
    <2>3. half = [j \in Ids |-> half[j]]
      BY <1>2
    <2> HIDE DEF half, st
    <2>4. intent'[i] = [status |-> st, expires |-> intent[i].expires, proof |-> UploadProof[u]]
      BY <1>2, <2>1, <2>2
    <2>5. intent' = [j \in Ids |-> intent'[j]] /\ \A j \in Ids : j # i => intent'[j] = intent[j]
      BY <1>2, <2>1, <2>2, <2>3
    <2> QED
      BY <1>2, <2>4, <2>5
  <1>7. ReservedInv'
    <2>1. \A j \in Ids : j # i => intent'[j] = intent[j]
      BY <1>2, <1>6
    <2>2. i \in Claimed
      BY <1>1, <1>2, <1>4, <1>5 DEF Claimed, Lasting, IntentRow, IntentStatus
    <2>3. Claimed' \subseteq Claimed /\ Touched' \subseteq Touched \cup {i}
      BY <1>1, <2>1, <2>2 DEF Claimed, Touched, Lasting
    <2>4. Reserved' \subseteq Reserved
      BY <1>1, <2>3 DEF Reserved
    <2>5. CreditTypes /\ ReservedInv
      BY DEF CreditIInv
    <2>6. given' \in Nat /\ given' >= given
      BY <1>1, <2>5 DEF CreditTypes
    <2> QED
      BY ONLY <2>3, <2>4, <2>5, <2>6, ReservedShrinks
  <1>8. st # "None" /\ (st = "CONFIRMED" => spend[i].n = 1)
    BY <1>5
  <1> HIDE DEF i, st
  <1>9. UNCHANGED <<creditTime, given, spend, accepted, opening, confirming, web, accountLock>>
    BY <1>1
  <1> QED
    BY <1>2, <1>3, <1>4, <1>5, <1>6, <1>7, <1>8, <1>9, IntentWritten
-----------------------------------------------------------------------------
(* Debits.                                                                 *)

SpendType == [Ids -> [n : {0, 1}, at : Nat]]
ChargeKeys == {WebKey[w] : w \in WebCalls} \cup Intents \cup {NoOne}

\* What one debit writes.
LEMMA DebitWrites ==
  ASSUME CreditTypes, NEW i \in Ids, NEW p \in Bundles, NEW k \in ChargeKeys, NEW x \in Nat,
         Debit(i, p, p, k, x), SpendFree(i)
  PROVE  /\ intent' \in [Ids -> IntentRow] /\ accepted' \in [Ids -> Submission] /\ spend' \in SpendType
         /\ intent'[i].status = "CONFIRMED" /\ intent'[i].expires = x
         /\ spend'[i].n = 1 /\ spend'[i].at = creditTime
         /\ accepted'[i].proof = p /\ accepted'[i].signed = p /\ accepted'[i].key = k
         /\ \A j \in Ids : j # i => intent'[j] = intent[j] /\ spend'[j] = spend[j] /\ accepted'[j] = accepted[j]
  <1>1. /\ intent \in [Ids -> IntentRow] /\ accepted \in [Ids -> Submission] /\ spend \in SpendType
        /\ creditTime \in Nat /\ spend[i].n = 0
    BY DEF CreditTypes, SpendType, SpendFree
  <1>2. /\ intent' \in [Ids -> IntentRow] /\ intent'[i].status = "CONFIRMED" /\ intent'[i].expires = x
        /\ \A j \in Ids : j # i => intent'[j] = intent[j]
    BY <1>1 DEF Debit, IntentRow, IntentStatus, Bundles
  <1>3. /\ accepted' \in [Ids -> Submission]
        /\ accepted'[i].proof = p /\ accepted'[i].signed = p /\ accepted'[i].key = k
        /\ \A j \in Ids : j # i => accepted'[j] = accepted[j]
    BY <1>1 DEF Debit, Submission, ChargeKeys
  <1>4. /\ spend' \in SpendType /\ spend'[i].n = 1 /\ spend'[i].at = creditTime
        /\ \A j \in Ids : j # i => spend'[j] = spend[j]
    BY <1>1 DEF Debit, SpendType
  <1> QED
    BY <1>2, <1>3, <1>4

\* What one debit keeps: the submission's entry is its only one, and its proof is new.
LEMMA DebitKeeps ==
  ASSUME CreditIInv, NEW i \in Ids, NEW p \in Bundles, NEW k \in ChargeKeys, NEW x \in Nat,
         p # NoOne, Debit(i, p, p, k, x), SpendFree(i), ProofFree(p), creditTime' = creditTime
  PROVE  /\ RowsInv' /\ OneSpendPerSubmission' /\ SubmittedIsSigned'
         /\ \A j \in Ids : spend'[j].at <= creditTime
         /\ Touched' \subseteq Touched \cup {i} /\ Claimed' \subseteq Claimed \cup {i}
         /\ x <= creditTime => Claimed' \subseteq Claimed
  <1>1. CreditTypes /\ creditTime \in Nat /\ spend \in SpendType
    BY DEF CreditIInv, CreditTypes, SpendType
  <1>2. /\ intent'[i].status = "CONFIRMED" /\ intent'[i].expires = x
        /\ spend'[i].n = 1 /\ spend'[i].at = creditTime
        /\ accepted'[i].proof = p /\ accepted'[i].signed = p
        /\ \A j \in Ids : j # i => intent'[j] = intent[j] /\ spend'[j] = spend[j] /\ accepted'[j] = accepted[j]
    BY <1>1, DebitWrites
  <1>3. RowsInv'
    BY <1>2 DEF CreditIInv, RowsInv
  <1>4. OneSpendPerSubmission'
    <2>1. accepted'[i] # NoSubmission
      BY <1>2 DEF NoSubmission
    <2>2. \A j \in Ids : accepted[j].proof # p
      BY DEF ProofFree
    <2>3. NoSubmission' = NoSubmission
      BY DEF NoSubmission
    <2> HIDE DEF NoSubmission
    <2> QED
      BY <1>2, <2>1, <2>2, <2>3 DEF CreditIInv, OneSpendPerSubmission
  <1>5. SubmittedIsSigned'
    BY <1>2 DEF CreditIInv, SubmittedIsSigned
  <1>6. \A j \in Ids : spend'[j].at <= creditTime
    BY <1>1, <1>2 DEF CreditIInv, TimesAreRead
  <1>7. Touched' \subseteq Touched \cup {i}
    BY <1>2 DEF Touched
  <1>8. \A j \in Ids : j # i => (j \in Claimed' <=> j \in Claimed)
    BY <1>2 DEF Claimed, Lasting
  <1>9. Claimed' \subseteq Ids
    BY DEF Claimed
  <1>10. x <= creditTime => i \notin Claimed'
    BY <1>1, <1>2 DEF Claimed, Lasting
  <1> QED
    BY <1>3, <1>4, <1>5, <1>6, <1>7, <1>8, <1>9, <1>10

\* Confirming: the hold becomes a debit, or it had lapsed and the debit is late.
LEMMA ConfirmUnderLockKeeps ==
  ASSUME CreditIInv, NEW c \in Confirms, confirm_under_lock(c)
  PROVE  CreditIInv'
  <1> DEFINE i == ConfirmOf[c]
             p == confirming[c].seen.proof
             x == intent[i].expires
  <1>1. /\ i \in Intents /\ i \in Ids /\ i \notin WebCalls /\ i \in ChargeKeys
        /\ intent[i] \in IntentRow /\ x \in Nat /\ creditTime \in Nat /\ p \in Bundles
    BY CreditConstants DEF CreditIInv, CreditTypes, Ids, ChargeKeys, IntentRow
  <1>2. /\ confirming[c].pc = "Quoted" /\ accountLock = NoOne
        /\ UNCHANGED <<creditTime, given, opening, upload, web, accountLock>>
        /\ \E pc \in {"Created", "Refused"} : ConfirmEnds(c, pc)
    BY DEF confirm_under_lock
  <1>3. /\ confirming' \in ConfirmingType /\ SignatureInv'
        /\ opening \in OpeningType /\ upload \in UploadType /\ web \in WebType
        /\ \A j \in Intents : opening[j].at <= creditTime
        /\ \A w \in WebCalls : web[w].at <= creditTime
    BY <1>2, ConfirmationEnded, TypesOfCalls DEF CreditIInv, TimesAreRead
  <1>4. CASE UNCHANGED tables
    <2>1. WebInv'
      BY <1>2, <1>4 DEF CreditIInv, WebInv, tables
    <2> QED
      BY <1>2, <1>3, <1>4, <2>1, NothingEntered
  <1>5. CASE Debit(i, p, SignedProof[c], i, x) /\ p # NoOne /\ SpendFree(i) /\ ProofFree(p)
    <2>1. SignedProof[c] = p
      BY <1>2 DEF CreditIInv, SignatureInv
    <2>2. Debit(i, p, p, i, x)
      BY <1>5, <2>1
    <2> HIDE DEF i, p, x
    <2>3. /\ intent' \in [Ids -> IntentRow] /\ accepted' \in [Ids -> Submission] /\ spend' \in SpendType
          /\ \A j \in Ids : j # i => spend'[j] = spend[j] /\ accepted'[j] = accepted[j]
      BY <1>1, <1>5, <2>2, DebitWrites DEF CreditIInv
    <2>4. /\ RowsInv' /\ OneSpendPerSubmission' /\ SubmittedIsSigned'
          /\ \A j \in Ids : spend'[j].at <= creditTime
          /\ Touched' \subseteq Touched \cup {i} /\ Claimed' \subseteq Claimed \cup {i}
          /\ x <= creditTime => Claimed' \subseteq Claimed
      BY <1>1, <1>2, <1>5, <2>2, DebitKeeps
    <2>5. CreditTypes'
      BY <1>2, <1>3, <2>3 DEF CreditIInv, CreditTypes, OpeningType, UploadType, ConfirmingType, WebType, SpendType
    <2>6. TimesAreRead'
      BY <1>2, <1>3, <2>4 DEF TimesAreRead
    <2>7. WebCalls \subseteq Ids \ {i}
      BY <1>1 DEF Ids
    <2>8. WebInv' /\ KeyChargedOnce'
      <3>1. \A w \in WebCalls : spend'[w] = spend[w] /\ accepted'[w] = accepted[w]
        BY <2>3, <2>7
      <3>2. NoSubmission' = NoSubmission
        BY DEF NoSubmission
      <3> QED
        BY <1>2, <3>1, <3>2 DEF CreditIInv, WebInv, KeyChargedOnce
    <2>9. ReservedInv'
      <3>1. x > creditTime => i \in Claimed
        BY <1>1, <1>5 DEF CreditIInv, RowsInv, SpendFree, Claimed, Lasting, IntentRow, IntentStatus, i, x
      <3>2. Claimed' \subseteq Claimed
        BY <1>1, <2>4, <3>1
      <3>3. Reserved' \subseteq Reserved
        BY <1>2, <3>2 DEF Reserved
      <3>4. CreditTypes /\ ReservedInv /\ given' \in Nat /\ given' >= given
        BY <1>2 DEF CreditIInv, CreditTypes
      <3> QED
        BY ONLY <2>4, <3>3, <3>4, ReservedShrinks
    <2> QED
      BY <1>2, <1>3, <2>4, <2>5, <2>6, <2>8, <2>9 DEF CreditIInv
  <1> QED
    BY <1>4, <1>5 DEF confirm_under_lock, LockedIntent
-----------------------------------------------------------------------------
(* The website's one call.                                                 *)

\* A call that goes on or ends without having the row.
LEMMA QuietWebSteps ==
  ASSUME CreditIInv, NEW w \in WebCalls, create_web_submission(w) \/ WebUploaded(w)
  PROVE  CreditIInv'
  <1>1. /\ UNCHANGED <<creditTime, given, tables, opening, upload, confirming, accountLock>>
        /\ web[w].pc \in {"New", "Uploading"}
        /\ \/ \E pc \in {"Replayed", "Refused"} : web' = [web EXCEPT ![w] = [pc |-> pc, at |-> 0]]
           \/ web' = [web EXCEPT ![w].pc = "Uploading"]
           \/ web' = [web EXCEPT ![w] = [pc |-> "Asked", at |-> creditTime]]
    BY DEF create_web_submission, WebUploaded, WebEnds
  <1>2. /\ opening \in OpeningType /\ upload \in UploadType /\ confirming \in ConfirmingType /\ web \in WebType
        /\ creditTime \in Nat /\ \A i \in Intents : opening[i].at <= creditTime
        /\ \A v \in WebCalls : web[v].at <= creditTime
    BY TypesOfCalls DEF CreditIInv, CreditTypes, TimesAreRead
  <1>3. /\ web' \in WebType /\ web'[w].pc \notin {"Opened", "Created"} /\ web'[w].at <= creditTime
        /\ \A v \in WebCalls : v # w => web'[v] = web[v]
    BY <1>1, <1>2 DEF WebType
  <1>4. WebInv'
    <2>1. NoSubmission' = NoSubmission /\ UNCHANGED <<accepted, accountLock>>
      BY <1>1 DEF NoSubmission, tables
    <2> HIDE DEF NoSubmission
    <2> QED
      BY <1>1, <1>3, <2>1 DEF CreditIInv, WebInv
  <1>5. SignatureInv'
    BY <1>1 DEF CreditIInv, SignatureInv
  <1> QED
    BY <1>1, <1>2, <1>3, <1>4, <1>5, NothingEntered

\* What the calls' rows look like after one of them took a step that leaves time and intents alone.
LEMMA WebStepWrites ==
  ASSUME CreditTypes, NEW w \in WebCalls, NEW pc \in {"Opened", "Created", "Refused"},
         \/ web' = [web EXCEPT ![w].pc = pc]
         \/ web' = [web EXCEPT ![w] = [pc |-> pc, at |-> 0]]
  PROVE  /\ web' \in WebType /\ web'[w].pc = pc /\ web'[w].at <= web[w].at
         /\ \A v \in WebCalls : v # w => web'[v] = web[v]
  <1>1. web \in WebType /\ web[w].at \in Nat
    BY DEF CreditTypes, WebType
  <1> QED
    BY <1>1 DEF WebType

\* Open takes the account's row when there is room for one more; refused, it changes nothing.
LEMMA WebOpenKeeps ==
  ASSUME CreditIInv, NEW w \in WebCalls, WebOpen(w)
  PROVE  CreditIInv'
  <1>1. /\ UNCHANGED <<creditTime, given, tables, opening, upload, confirming>>
        /\ accountLock = NoOne /\ web[w].pc = "Asked"
        /\ \/ WebEnds(w, "Refused") /\ accountLock' = accountLock
           \/ /\ ~(credits_available(web[w].at) < 1)
              /\ web' = [web EXCEPT ![w].pc = "Opened"] /\ accountLock' = w
    BY DEF WebOpen
  <1>2. /\ opening \in OpeningType /\ upload \in UploadType /\ confirming \in ConfirmingType
        /\ CreditTypes /\ web[w].at \in Nat /\ web[w].at <= creditTime /\ creditTime \in Nat /\ given \in Nat
        /\ \A i \in Intents : opening[i].at <= creditTime
        /\ \A v \in WebCalls : web[v].at \in Nat /\ web[v].at <= creditTime
        /\ \A v \in WebCalls : v # NoOne
    BY TypesOfCalls, CreditConstants DEF CreditIInv, CreditTypes, TimesAreRead
  <1>3. /\ web' \in WebType /\ web'[w].pc \in {"Opened", "Refused"} /\ web'[w].at <= web[w].at
        /\ \A v \in WebCalls : v # w => web'[v] = web[v]
        /\ web'[w].pc = "Opened" <=> accountLock' = w
        /\ accountLock' \in {NoOne, w}
    <2>1. CASE WebEnds(w, "Refused") /\ accountLock' = accountLock
      BY <1>1, <1>2, <2>1, WebStepWrites DEF WebEnds
    <2>2. CASE web' = [web EXCEPT ![w].pc = "Opened"] /\ accountLock' = w
      BY <1>2, <2>2, WebStepWrites
    <2> QED
      BY <1>1, <2>1, <2>2
  <1>4. \A v \in WebCalls : web'[v].at <= creditTime
    <2>1. web'[w].at \in Nat
      BY <1>3 DEF WebType
    <2> QED
      BY <1>2, <1>3, <2>1
  <1>5. WebInv'
    <2>1. NoSubmission' = NoSubmission /\ accepted' = accepted
      BY <1>1 DEF NoSubmission, tables
    <2> HIDE DEF NoSubmission
    <2> QED
      BY <1>1, <1>2, <1>3, <2>1 DEF CreditIInv, WebInv
  <1>6. SignatureInv'
    BY <1>1 DEF CreditIInv, SignatureInv
  <1>7. CASE accountLock' = accountLock
    BY <1>1, <1>2, <1>3, <1>4, <1>5, <1>6, <1>7, NothingEntered
  <1>8. CASE ~(credits_available(web[w].at) < 1) /\ accountLock' = w
    <2>1. CreditTypes'
      BY <1>1, <1>2, <1>3, <1>8 DEF CreditTypes, tables, OpeningType, UploadType, ConfirmingType, WebType
    <2>2. TimesAreRead'
      BY <1>1, <1>4 DEF CreditIInv, TimesAreRead, tables
    <2>3. RowsInv' /\ OneSpendPerSubmission' /\ SubmittedIsSigned' /\ KeyChargedOnce'
      BY <1>1 DEF CreditIInv, RowsInv, OneSpendPerSubmission, SubmittedIsSigned, KeyChargedOnce, tables
    <2>4. ReservedInv'
      <3>1. /\ IsFiniteSet(Claimed) /\ Cardinality(Claimed) \in Nat
            /\ Cardinality(Claimed) + 1 <= given
        BY <1>2, <1>8, RoomForOne DEF CreditIInv
      <3>2. Touched' \subseteq Touched \cup {w} /\ Claimed' = Claimed
        BY <1>1 DEF Touched, Claimed, Lasting, tables
      <3>3. Reserved' \subseteq Claimed \cup {w}
        BY <1>8, <3>2 DEF Reserved
      <3>4. CreditTypes /\ ReservedInv /\ given' = given
        BY <1>1 DEF CreditIInv
      <3> QED
        BY ONLY <3>1, <3>2, <3>3, <3>4, ReservedGrows
    <2> QED
      BY <1>5, <1>6, <2>1, <2>2, <2>3, <2>4 DEF CreditIInv
  <1> QED
    BY <1>1, <1>7, <1>8

\* A call that gives the row back.
LEMMA WebReleases ==
  ASSUME CreditIInv, NEW w \in WebCalls, NEW pc \in {"Created", "Refused"}, web[w].pc = "Opened",
         WebEnds(w, pc), accountLock' = NoOne
  PROVE  /\ accountLock = w /\ accountLock' \in WebCalls \cup {NoOne} /\ w # NoOne
         /\ web' \in WebType /\ web'[w].pc = pc /\ \A v \in WebCalls : web'[v].at <= creditTime
         /\ \A v \in WebCalls : web'[v].pc # "Opened" /\ (v # w => web'[v] = web[v])
         /\ w \in Reserved /\ (Claimed' \subseteq Claimed \cup {w} => Reserved' \subseteq Reserved)
  <1>1. accountLock = w /\ w # NoOne /\ \A v \in WebCalls : v # w => web[v].pc # "Opened"
    BY CreditConstants DEF CreditIInv, WebInv
  <1>2. /\ web' \in WebType /\ web'[w].pc = pc /\ web'[w].at <= web[w].at
        /\ \A v \in WebCalls : v # w => web'[v] = web[v]
    BY WebStepWrites DEF CreditIInv, WebEnds
  <1>3. \A v \in WebCalls : web'[v].at <= creditTime
    <2>1. web'[w].at \in Nat /\ web[w].at \in Nat /\ creditTime \in Nat
      BY <1>2, TypesOfCalls DEF CreditIInv, CreditTypes, WebType
    <2>2. \A v \in WebCalls : web[v].at <= creditTime
      BY DEF CreditIInv, TimesAreRead
    <2> QED
      BY <1>2, <2>1, <2>2
  <1>4. w \in Reserved
    BY <1>1 DEF Reserved
  <1>5. Claimed' \subseteq Claimed \cup {w} => Reserved' \subseteq Reserved
    <2>1. Reserved' = Claimed'
      BY CreditConstants DEF Reserved
    <2>2. Claimed \subseteq Reserved
      BY DEF Reserved
    <2> QED
      BY <1>4, <2>1, <2>2
  <1> QED
    BY <1>1, <1>2, <1>3, <1>4, <1>5

LEMMA WebRefusedKeeps ==
  ASSUME CreditIInv, NEW w \in WebCalls, web[w].pc = "Opened", WebEnds(w, "Refused"),
         accountLock' = NoOne, UNCHANGED <<creditTime, given, tables, opening, upload, confirming>>
  PROVE  CreditIInv'
  <1> USE DEF tables
  <1>1. /\ accountLock = w /\ accountLock' \in WebCalls \cup {NoOne} /\ w # NoOne
        /\ web' \in WebType /\ web'[w].pc = "Refused" /\ \A v \in WebCalls : web'[v].at <= creditTime
        /\ \A v \in WebCalls : web'[v].pc # "Opened" /\ (v # w => web'[v] = web[v])
        /\ Claimed' \subseteq Claimed \cup {w} => Reserved' \subseteq Reserved
    BY WebReleases
  <1>2. CreditTypes' /\ TimesAreRead'
    BY <1>1 DEF CreditIInv, CreditTypes, TimesAreRead, WebType
  <1>3. RowsInv' /\ SignatureInv' /\ OneSpendPerSubmission' /\ SubmittedIsSigned' /\ KeyChargedOnce'
    BY DEF CreditIInv, RowsInv, SignatureInv, OneSpendPerSubmission, SubmittedIsSigned, KeyChargedOnce
  <1>4. WebInv'
    <2>1. /\ NoSubmission' = NoSubmission /\ accepted' = accepted /\ web[w].pc # "Created"
          /\ \A v \in WebCalls : accountLock' # v
      BY CreditConstants DEF NoSubmission
    <2> HIDE DEF NoSubmission
    <2> QED
      BY <1>1, <2>1 DEF CreditIInv, WebInv
  <1>5. ReservedInv'
    <2>1. Touched' \subseteq Touched \cup {w} /\ Claimed' \subseteq Claimed \cup {w}
      BY DEF Touched, Claimed, Lasting
    <2>2. CreditTypes /\ ReservedInv /\ given' \in Nat /\ given' >= given
      BY DEF CreditIInv, CreditTypes
    <2>3. Reserved' \subseteq Reserved
      BY <1>1, <2>1
    <2> QED
      BY ONLY <2>1, <2>2, <2>3, ReservedShrinks
  <1> QED
    BY <1>2, <1>3, <1>4, <1>5 DEF CreditIInv

\* The debit takes the place that the row's holder had.
LEMMA WebConfirmKeeps ==
  ASSUME CreditIInv, NEW w \in WebCalls, WebConfirm(w)
  PROVE  CreditIInv'
  <1> DEFINE p == WebProof[w]
             k == WebKey[w]
             x == web[w].at + Minutes
  <1>1. /\ web[w].pc = "Opened" /\ accountLock' = NoOne
        /\ UNCHANGED <<creditTime, given, opening, upload, confirming>>
        /\ \/ ProofFree(p) /\ KeyFree(k) /\ Debit(w, p, p, k, x) /\ WebEnds(w, "Created")
           \/ WebEnds(w, "Refused") /\ UNCHANGED tables
    BY DEF WebConfirm
  <1>2. CASE WebEnds(w, "Refused") /\ UNCHANGED tables
    BY <1>1, <1>2, WebRefusedKeeps
  <1>3. CASE ProofFree(p) /\ KeyFree(k) /\ Debit(w, p, p, k, x) /\ WebEnds(w, "Created")
    <2>1. /\ w \in Ids /\ p \in Bundles /\ k \in ChargeKeys /\ x \in Nat /\ creditTime \in Nat /\ given \in Nat
          /\ opening \in OpeningType /\ upload \in UploadType /\ confirming \in ConfirmingType
      BY CreditConstants, TypesOfCalls DEF CreditIInv, CreditTypes, Ids, Bundles, ChargeKeys
    <2>2. accepted[w] = NoSubmission /\ SpendFree(w) /\ p # NoOne
      <3>1. accepted[w] = NoSubmission
        BY <1>1 DEF CreditIInv, WebInv
      <3> QED
        BY <1>3, <2>1, <3>1 DEF CreditIInv, OneSpendPerSubmission, SpendFree, ProofFree, NoSubmission
    <2> HIDE DEF p, k, x
    <2>3. /\ intent' \in [Ids -> IntentRow] /\ accepted' \in [Ids -> Submission] /\ spend' \in SpendType
          /\ accepted'[w].key = k
          /\ \A j \in Ids : j # w => intent'[j] = intent[j] /\ spend'[j] = spend[j] /\ accepted'[j] = accepted[j]
      BY <1>3, <2>1, <2>2, DebitWrites DEF CreditIInv
    <2>4. /\ RowsInv' /\ OneSpendPerSubmission' /\ SubmittedIsSigned'
          /\ \A j \in Ids : spend'[j].at <= creditTime
          /\ Touched' \subseteq Touched \cup {w} /\ Claimed' \subseteq Claimed \cup {w}
      BY <1>1, <1>3, <2>1, <2>2, DebitKeeps
    <2>5. /\ accountLock = w /\ accountLock' \in WebCalls \cup {NoOne} /\ w # NoOne
          /\ web' \in WebType /\ web'[w].pc = "Created" /\ \A v \in WebCalls : web'[v].at <= creditTime
          /\ \A v \in WebCalls : web'[v].pc # "Opened" /\ (v # w => web'[v] = web[v])
          /\ Claimed' \subseteq Claimed \cup {w} => Reserved' \subseteq Reserved
      BY <1>1, <1>3, WebReleases
    <2>6. CreditTypes'
      BY <1>1, <2>1, <2>3, <2>5 DEF CreditTypes, OpeningType, UploadType, ConfirmingType, WebType, SpendType
    <2>7. TimesAreRead'
      BY <1>1, <2>4, <2>5 DEF CreditIInv, TimesAreRead
    <2>8. SignatureInv'
      BY <1>1 DEF CreditIInv, SignatureInv
    <2>9. \A v \in WebCalls : v \in Ids /\ accountLock' # v
      BY <1>1, CreditConstants DEF Ids
    <2>10. WebInv'
      <3>1. NoSubmission' = NoSubmission
        BY DEF NoSubmission
      <3> HIDE DEF NoSubmission
      <3> QED
        BY <2>3, <2>5, <2>9, <3>1 DEF CreditIInv, WebInv, k
    <2>11. KeyChargedOnce'
      <3>1. \A v \in WebCalls : v # w /\ spend[v].n > 0 => WebKey[v] # k
        BY <1>3, <2>9 DEF CreditIInv, OneSpendPerSubmission, WebInv, KeyFree
      <3> QED
        BY <2>3, <2>9, <3>1 DEF CreditIInv, KeyChargedOnce, k
    <2>12. ReservedInv'
      <3>1. CreditTypes /\ ReservedInv /\ given' \in Nat /\ given' >= given
        BY <1>1, <2>1 DEF CreditIInv
      <3>2. Reserved' \subseteq Reserved
        BY <2>4, <2>5
      <3> QED
        BY ONLY <2>4, <3>1, <3>2, ReservedShrinks
    <2> QED
      BY <2>4, <2>6, <2>7, <2>8, <2>10, <2>11, <2>12 DEF CreditIInv
  <1> QED
    BY <1>1, <1>2, <1>3

\* The detector ends one of two transactions that wait for each other.
LEMMA DeadlockVictimKeeps ==
  ASSUME CreditIInv, NEW c \in Confirms, NEW w \in WebCalls, DeadlockVictim(c, w)
  PROVE  CreditIInv'
  <1>1. /\ web[w].pc = "Opened" /\ UNCHANGED <<creditTime, given, tables, opening, upload>>
        /\ \/ ConfirmEnds(c, "Refused") /\ UNCHANGED <<web, accountLock>>
           \/ WebEnds(w, "Refused") /\ accountLock' = NoOne /\ confirming' = confirming
    BY DEF DeadlockVictim
  <1>2. CASE ConfirmEnds(c, "Refused") /\ UNCHANGED <<web, accountLock>>
    <2>1. /\ confirming' \in ConfirmingType /\ SignatureInv'
          /\ opening \in OpeningType /\ upload \in UploadType /\ web \in WebType
          /\ \A j \in Intents : opening[j].at <= creditTime
          /\ \A v \in WebCalls : web[v].at <= creditTime
      BY <1>2, ConfirmationEnded, TypesOfCalls DEF CreditIInv, TimesAreRead
    <2>2. WebInv'
      BY <1>1, <1>2 DEF CreditIInv, WebInv, tables
    <2> QED
      BY <1>1, <1>2, <2>1, <2>2, NothingEntered
  <1>3. CASE WebEnds(w, "Refused") /\ accountLock' = NoOne /\ confirming' = confirming
    BY <1>1, <1>3, WebRefusedKeeps
  <1> QED
    BY <1>1, <1>2, <1>3
-----------------------------------------------------------------------------
(* The invariant.                                                          *)

LEMMA CreditInitHolds == CreditInit => CreditIInv
  <1> SUFFICES ASSUME CreditInit PROVE CreditIInv
    OBVIOUS
  <1> USE DEF CreditInit
  <1>1. CreditTypes
    BY DEF CreditTypes, NoIntent, NoSubmission, IntentRow, IntentStatus, Submission, Bundles
  <1>2. TimesAreRead
    BY DEF TimesAreRead, Ids
  <1>3. RowsInv /\ SignatureInv
    BY DEF RowsInv, SignatureInv, NoIntent
  <1>4. WebInv
    BY CreditConstants DEF WebInv, Ids
  <1>5. OneSpendPerSubmission /\ SubmittedIsSigned /\ KeyChargedOnce
    BY DEF OneSpendPerSubmission, SubmittedIsSigned, KeyChargedOnce, NoSubmission, Ids
  <1>6. ReservedInv
    <2>1. Touched = {}
      BY DEF Touched, NoIntent
    <2>2. Reserved = {}
      BY CreditConstants DEF Reserved, Claimed, Lasting, NoIntent
    <2> QED
      BY <2>1, <2>2, FS_EmptySet DEF ReservedInv
  <1> QED
    BY <1>1, <1>2, <1>3, <1>4, <1>5, <1>6 DEF CreditIInv

LEMMA CreditUnchanged == CreditIInv /\ UNCHANGED creditVars => CreditIInv'
  BY DEF creditVars, CreditIInv, CreditTypes, TimesAreRead, RowsInv, WebInv, SignatureInv, OneSpendPerSubmission,
         SubmittedIsSigned, KeyChargedOnce, ReservedInv, Reserved, Claimed, Touched, Lasting

LEMMA CreditStepKeeps == CreditIInv /\ [CreditNext]_creditVars => CreditIInv'
  <1> SUFFICES ASSUME CreditIInv, [CreditNext]_creditVars PROVE CreditIInv'
    OBVIOUS
  <1>1. CASE Tick \/ AddCredit
    BY <1>1, TimeAndGrants
  <1>2. CASE Victims
    BY <1>2, DeadlockVictimKeeps DEF Victims
  <1>3. ASSUME NEW i \in Intents, create_intent(i) \/ open_intent(i) PROVE CreditIInv'
    <2>1. CASE intent' # intent
      BY <1>3, <2>1, OpenKeeps DEF create_intent, tables
    <2>2. CASE intent' = intent
      <3>1. UNCHANGED tables
        BY <1>3, <2>2 DEF create_intent, open_intent, tables
      <3> QED
        BY <1>3, <3>1, QuietRequests
    <2> QED
      BY <2>1, <2>2
  <1>4. ASSUME NEW u \in Uploads, upload_bundle(u) \/ attach_bundle(u) PROVE CreditIInv'
    <2>1. CASE intent' # intent
      BY <1>4, <2>1, AttachKeeps DEF upload_bundle, tables
    <2>2. CASE intent' = intent
      <3>1. UNCHANGED tables
        BY <1>4, <2>2 DEF upload_bundle, attach_bundle, tables
      <3> QED
        BY <1>4, <3>1, QuietRequests
    <2> QED
      BY <2>1, <2>2
  <1>5. ASSUME NEW c \in Confirms, ConfirmStep(c) PROVE CreditIInv'
    BY <1>5, QuietConfirmSteps, ConfirmUnderLockKeeps DEF ConfirmStep
  <1>6. ASSUME NEW w \in WebCalls, WebStep(w) PROVE CreditIInv'
    BY <1>6, QuietWebSteps, WebOpenKeeps, WebConfirmKeeps DEF WebStep
  <1>7. CASE UNCHANGED creditVars
    BY <1>7, CreditUnchanged
  <1> QED
    BY <1>1, <1>2, <1>3, <1>4, <1>5, <1>6, <1>7 DEF CreditNext

\* The reservations, the locks and the tables agree in every reachable state.
THEOREM CreditInductive == CreditSpec => []CreditIInv
  BY CreditInitHolds, CreditStepKeeps, PTL DEF CreditSpec

\* The debits in time were reserved, so only the late ones can exceed what was given.
LEMMA ReservedCoversSpends == CreditIInv => SpendsAreCovered
  <1> SUFFICES ASSUME CreditIInv PROVE SpendsAreCovered
    OBVIOUS
  <1>1. /\ Spent \subseteq Touched /\ LateSpends \subseteq Touched
        /\ Spent \subseteq Reserved \cup LateSpends
    <2>1. \A i \in Ids : spend[i].at \in Nat /\ intent[i].expires \in Nat
      BY DEF CreditIInv, CreditTypes, IntentRow
    <2> QED
      BY <2>1 DEF Spent, LateSpends, Touched, Reserved, Claimed
  <1>2. /\ IsFiniteSet(Spent) /\ IsFiniteSet(LateSpends) /\ IsFiniteSet(Reserved)
        /\ Cardinality(Reserved) <= given /\ given \in Nat
    BY <1>1, FS_Subset DEF CreditIInv, ReservedInv, CreditTypes
  <1>3. /\ Cardinality(Spent) \in Nat /\ Cardinality(LateSpends) \in Nat /\ Cardinality(Reserved) \in Nat
        /\ IsFiniteSet(Reserved \cup LateSpends) /\ Cardinality(Reserved \cup LateSpends) \in Nat
        /\ Cardinality(Reserved \cap LateSpends) \in Nat
    BY <1>2, FS_CardinalityType, FS_Union, FS_Intersection
  <1>4. Cardinality(Reserved \cup LateSpends)
          = Cardinality(Reserved) + Cardinality(LateSpends) - Cardinality(Reserved \cap LateSpends)
    BY <1>2, FS_Union
  <1>5. Cardinality(Spent) <= Cardinality(Reserved \cup LateSpends)
    BY <1>1, <1>3, FS_Subset
  <1>6. Cardinality(Spent) <= given + Cardinality(LateSpends)
    BY <1>2, <1>3, <1>4, <1>5
  <1> QED
    BY <1>6 DEF SpendsAreCovered, Spent

\* Safety.  Every spend is covered but for those debited after their hold lapsed, is the only one of its
\* submission and its key, and pays for the proof that was signed, for any number of requests of the account
\* (lock_account, held_rao, confirm, create_web_submission).
THEOREM CreditSpendsAreDue == CreditSpec => []SpendsAreDue
  <1>1. CreditIInv => SpendsAreDue
    BY ReservedCoversSpends DEF CreditIInv, SpendsAreDue
  <1> QED
    BY <1>1, CreditInductive, PTL

----------------------------------------------------------------------------
(* Sign-ins.                                                               *)

LinkKinds == {"None", "EMAIL", "PASSWORD_SIGNUP", "PASSWORD_RESET", "WALLET"}
LinkRows == [state : {"None", "Open", "Expired", "Used"}, kind : LinkKinds, email : Emails \cup {Nil},
          account : AccountIds \cup {Nil}, key : Keys \cup {Nil}, password : Passwords \cup {Nil},
          at : {Cardinality(T) : T \in SUBSET Tokens}]
Places == {"New", "Signed", "FindByEmail", "FindByColdkey", "SetPassword", "MarkVerified", "Create", "Compare",
           "Rehashed", "Cleared", "Revoke", "Commit", "CommitRehash", "CommitClear", "Refused", "SignedIn"}
Work == [pc : Places, account : AccountIds \cup {Nil}, seen : AccountRows \cup {Nil}, ends : SUBSET SignInRequests]
Cookies == [state : {"None", "Live", "Revoked"}, account : AccountIds \cup {Nil}]

SignInTypes ==
    /\ account \in [AccountIds -> AccountRows \cup {Nil}]
    /\ wallet \in [Keys -> AccountIds \cup {Nil}] /\ identity \in [Subjects -> AccountIds \cup {Nil}]
    /\ challenge \in [Tokens -> LinkRows] /\ cookie \in [SignInRequests -> Cookies]
    /\ work \in [SignInRequests -> Work] /\ lock \in [Locked -> SignInRequests \cup {Nil}]
    /\ guesses \in [AccountIds -> SUBSET SignInRequests]

\* An account that was committed; a request's own comes with its end.
Known(a) == a \in AccountIds /\ account[a] # Nil /\ (a \in SignInRequests => work[a].pc = "SignedIn")

\* Nothing refers to an account that is not there.
AccountInv ==
    /\ \A r \in SignInRequests : work[r].pc # "SignedIn" => account[r] = Nil
    /\ \A k \in Keys : wallet[k] # Nil => Known(wallet[k])
    /\ \A s \in Subjects : identity[s] # Nil => Known(identity[s])
    /\ \A r \in SignInRequests : cookie[r].state = "Live" => Known(cookie[r].account)

LinkKind == [EmailLink |-> "EMAIL", Signup |-> "PASSWORD_SIGNUP", Reset |-> "PASSWORD_RESET", Wallet |-> "WALLET"]
HasLink(r) == Ask[r].link # Nil /\ InProgress(r) /\ work[r].pc # "Signed"

\* Who consumed a link holds its row and nobody used it; who signed in by one has used it up.
LinkOK(r) ==
    /\ HasLink(r) => /\ lock[Ask[r].link] = r /\ challenge[Ask[r].link].state \in {"Open", "Expired"}
                     /\ challenge[Ask[r].link].kind = LinkKind[Ask[r].kind]
    /\ work[r].pc = "SignedIn" /\ Ask[r].link # Nil => challenge[Ask[r].link].state = "Used"

\* What a challenge is for: an address, or an account.
ChallengeInv ==
    \A c \in Tokens :
        /\ challenge[c].kind \in {"EMAIL", "PASSWORD_SIGNUP"} => challenge[c].email \in Emails
        /\ challenge[c].kind = "PASSWORD_RESET" => Known(challenge[c].account)
        /\ challenge[c].state = "None" => challenge[c].kind = "None"

Creators == {"EmailLink", "Signup", "Wallet", "Google"}
Creates(r) == work[r].account = r
NewAddress(r) ==
    IF Ask[r].kind = "Google" THEN Ask[r].email ELSE IF Ask[r].kind = "Wallet" THEN Nil ELSE challenge[Ask[r].link].email

\* An account that is about to be inserted has its address to itself.
AddressIsKept(r) ==
    NewAddress(r) \in Emails => lock[NewAddress(r)] = r /\ find_by_email(NewAddress(r)) = {}

\* A request that goes on knows its account, or is about to make one.
WorkOK(r) ==
    /\ work[r].pc = "FindByEmail" => Ask[r].kind \in {"EmailLink", "Signup"}
    /\ work[r].pc = "SetPassword" => Ask[r].kind = "Reset"
    /\ work[r].pc \in {"Signed", "FindByColdkey"} => Ask[r].kind = "Wallet"
    /\ work[r].pc = "Create" => Creates(r) /\ Ask[r].kind \in Creators
    /\ work[r].pc = "MarkVerified" => Ask[r].kind = "EmailLink" /\ Known(work[r].account)
    /\ work[r].pc \in {"Compare", "Rehashed", "Cleared", "CommitRehash", "CommitClear"} =>
          Ask[r].kind = "Login" /\ Known(work[r].account) /\ work[r].seen \in AccountRows
    /\ work[r].pc \in {"Revoke", "Commit"} =>
          /\ IF Creates(r) THEN Ask[r].kind \in Creators /\ AddressIsKept(r) ELSE Known(work[r].account)
          /\ Ask[r].kind = "Reset" => work[r].seen \in AccountRows

\* A wrong guess counts for a request that was refused.
GuessInv ==
    \A a \in AccountIds :
        /\ IsFiniteSet(guesses[a]) /\ \A r \in guesses[a] : work[r].pc = "Refused"
        /\ account[a] # Nil => account[a].failures = Cardinality(guesses[a]) /\ account[a].failures < Attempts

AddressInv == \A e \in Emails : \A a, b \in find_by_email(e) : a = b

SignInIInv ==
    /\ SignInTypes /\ AccountInv /\ ChallengeInv
    /\ \A r \in SignInRequests : LinkOK(r) /\ WorkOK(r)
    /\ GuessInv /\ AddressInv /\ LinkSignsInOnce
-----------------------------------------------------------------------------
(* A request that changes no table.                                        *)

\* The rows and keys that others hold stay theirs.
OthersKeep(r) == \A x \in Locked : lock[x] \notin {Nil, r} => lock'[x] = lock[x]

\* One request goes to another place.
Moves(r) ==
    /\ work' \in [SignInRequests -> Work] /\ \A s \in SignInRequests \ {r} : work'[s] = work[s]
    /\ work[r].pc \notin {"Refused", "SignedIn"} /\ work'[r].pc # "SignedIn"
    /\ lock' \in [Locked -> SignInRequests \cup {Nil}] /\ OthersKeep(r)

\* What the others rely on is as it was.
LEMMA OthersRely ==
  ASSUME SignInTypes, NEW r \in SignInRequests, Moves(r), UNCHANGED <<account, challenge>>,
         NEW s \in SignInRequests, s # r, LinkOK(s) /\ WorkOK(s)
  PROVE  LinkOK(s)' /\ WorkOK(s)'
  <1>1. s # Nil /\ work'[s] = work[s]
    BY SignInConstants DEF Moves
  <1>2. \A a : Known(a) => Known(a)'
    BY DEF Known, Moves
  <1>3. \A x \in Locked : lock[x] = s => lock'[x] = s
    BY <1>1 DEF Moves, OthersKeep
  <1>4. Ask[s].link \in Tokens \cup {Nil}
    BY SignInConstants
  <1>5. LinkOK(s)'
    BY <1>1, <1>3, <1>4 DEF LinkOK, HasLink, InProgress, Locked
  <1>6. AddressIsKept(s) => AddressIsKept(s)'
    BY <1>3 DEF AddressIsKept, NewAddress, find_by_email, Locked
  <1>7. WorkOK(s)'
    BY <1>1, <1>2, <1>6 DEF WorkOK, Creates
  <1> QED
    BY <1>5, <1>7

LEMMA RequestMoves ==
  ASSUME SignInIInv, NEW r \in SignInRequests, Moves(r), LinkOK(r)', WorkOK(r)',
         UNCHANGED <<account, wallet, identity, challenge, cookie, guesses>>
  PROVE  SignInIInv'
  <1>1. SignInTypes'
    BY DEF SignInIInv, SignInTypes, Moves
  <1>2. \A s \in SignInRequests : (work'[s].pc = "SignedIn" <=> work[s].pc = "SignedIn")
                                  /\ (work[s].pc = "Refused" => work'[s].pc = "Refused")
    BY DEF Moves
  <1>3. \A a : Known(a) => Known(a)'
    BY <1>2 DEF Known
  <1>4. AccountInv' /\ ChallengeInv'
    BY <1>2, <1>3 DEF SignInIInv, AccountInv, ChallengeInv
  <1>5. \A s \in SignInRequests : LinkOK(s)' /\ WorkOK(s)'
    BY OthersRely DEF SignInIInv
  <1>6. GuessInv'
    BY <1>2 DEF SignInIInv, GuessInv, SignInTypes
  <1>7. AddressInv' /\ LinkSignsInOnce'
    BY <1>2 DEF SignInIInv, AddressInv, find_by_email, LinkSignsInOnce
  <1> QED
    BY <1>1, <1>4, <1>5, <1>6, <1>7 DEF SignInIInv

\* A request as the session sees it.
LEMMA RequestTypes ==
  ASSUME SignInTypes, NEW r \in SignInRequests
  PROVE  /\ work[r] \in Work /\ work \in [SignInRequests -> Work]
         /\ lock \in [Locked -> SignInRequests \cup {Nil}] /\ r # Nil
         /\ Ask[r].link \in Tokens \cup {Nil}
         /\ Ask[r].kind \in {"EmailLink", "Signup", "Reset", "Wallet", "Google", "Login"}
         /\ Ask[r].link = Nil <=> Ask[r].kind \in {"Google", "Login"}
         /\ Ask[r].password \in Passwords \cup {Nil}
  BY SignInConstants DEF SignInTypes

LEMMA RefuseStep ==
  ASSUME SignInIInv, NEW r \in SignInRequests, work[r].pc \notin {"Refused", "SignedIn"}, Refuse(r)
  PROVE  SignInIInv'
  <1>1. work[r] \in Work /\ work \in [SignInRequests -> Work] /\ lock \in [Locked -> SignInRequests \cup {Nil}]
    BY RequestTypes DEF SignInIInv
  <1>2. work' = [work EXCEPT ![r].pc = "Refused"]
    BY DEF Refuse, Goes
  <1>3. work' \in [SignInRequests -> Work] /\ work'[r].pc = "Refused"
    BY <1>1, <1>2 DEF Work, Places
  <1>4. lock' \in [Locked -> SignInRequests \cup {Nil}] /\ OthersKeep(r)
    BY <1>1 DEF Refuse, GiveBack, OthersKeep
  <1>5. Moves(r)
    BY <1>1, <1>2, <1>3, <1>4 DEF Moves
  <1>6. LinkOK(r)' /\ WorkOK(r)'
    BY <1>3 DEF LinkOK, HasLink, InProgress, WorkOK
  <1> QED
    BY <1>5, <1>6, RequestMoves DEF Refuse

\* A request takes only what is free or its own.
TakesOnly(r) ==
    /\ lock' \in [Locked -> SignInRequests \cup {Nil}]
    /\ \A x \in Locked : lock'[x] = lock[x] \/ (lock[x] \in {Nil, r} /\ lock'[x] = r)

LEMMA Took ==
  ASSUME SignInTypes, NEW r \in SignInRequests, NEW x, lock' = lock \/ (CanTake(x, r) /\ Take(x, r))
  PROVE  TakesOnly(r)
  BY DEF SignInTypes, TakesOnly, CanTake, Take

\* A request that goes on keeps its link, and its place says what it knows.
LEMMA GoesOn ==
  ASSUME SignInIInv, NEW r \in SignInRequests, work[r].pc \notin {"Refused", "SignedIn"},
         NEW w \in Work, w.pc \notin {"SignedIn", "Refused"}, work' = [work EXCEPT ![r] = w], TakesOnly(r),
         HasLink(r) \/ Ask[r].link = Nil,
         work'[r] = w => WorkOK(r)',
         UNCHANGED <<account, wallet, identity, challenge, cookie, guesses>>
  PROVE  SignInIInv'
  <1>1. work \in [SignInRequests -> Work] /\ lock \in [Locked -> SignInRequests \cup {Nil}]
        /\ Ask[r].link \in Tokens \cup {Nil}
    BY RequestTypes DEF SignInIInv
  <1>2. work' \in [SignInRequests -> Work] /\ work'[r] = w /\ \A s \in SignInRequests \ {r} : work'[s] = work[s]
    BY <1>1
  <1>3. Moves(r)
    BY <1>2 DEF Moves, TakesOnly, OthersKeep
  <1>4. LinkOK(r)'
    BY <1>1, <1>2 DEF SignInIInv, LinkOK, HasLink, TakesOnly, Locked
  <1> QED
    BY <1>2, <1>3, <1>4, RequestMoves

\* No account is known by the name of a request that has not signed in.
LEMMA KnownIsOther ==
  ASSUME SignInIInv, NEW r \in SignInRequests, work[r].pc # "SignedIn", NEW a, Known(a)
  PROVE  a # r /\ a # Nil /\ a \in AccountIds /\ account[a] \in AccountRows
  BY SignInConstants DEF Known, SignInIInv, SignInTypes, AccountIds

LEMMA KnownByAddress ==
  ASSUME SignInIInv, NEW e, NEW a \in find_by_email(e)
  PROVE  Known(a)
  BY DEF find_by_email, Known, SignInIInv, AccountInv
-----------------------------------------------------------------------------
(* Consuming a link.                                                       *)

LEMMA ConsumeStep ==
  ASSUME SignInIInv, NEW r \in SignInRequests, work[r].pc \in {"New", "Signed"}, Ask[r].link # Nil,
         NEW next \in {"FindByEmail", "FindByColdkey", "SetPassword"}, Consume(r, LinkKind[Ask[r].kind], next),
         next = "FindByEmail" => Ask[r].kind \in {"EmailLink", "Signup"},
         next = "FindByColdkey" => Ask[r].kind = "Wallet", next = "SetPassword" => Ask[r].kind = "Reset"
  PROVE  SignInIInv'
  <1> DEFINE c == Ask[r].link
  <1>1. CASE Refuse(r)
    BY <1>1, RefuseStep
  <1>2. CASE /\ CanTake(c, r) /\ consume_challenge(c, LinkKind[Ask[r].kind]) /\ Goes(r, next) /\ Take(c, r)
             /\ UNCHANGED <<account, wallet, identity, challenge, cookie, guesses>>
    <2>1. work \in [SignInRequests -> Work] /\ lock \in [Locked -> SignInRequests \cup {Nil}] /\ c \in Tokens
      BY RequestTypes DEF SignInIInv
    <2>2. work' = [work EXCEPT ![r].pc = next] /\ lock' = [lock EXCEPT ![c] = r]
      BY <1>2 DEF Goes, Take
    <2>3. work' \in [SignInRequests -> Work] /\ work'[r].pc = next /\ \A s \in SignInRequests \ {r} : work'[s] = work[s]
      BY <2>1, <2>2 DEF Work, Places
    <2>4. lock' \in [Locked -> SignInRequests \cup {Nil}] /\ lock'[c] = r /\ OthersKeep(r)
      BY <1>2, <2>1, <2>2 DEF OthersKeep, CanTake, Locked
    <2>5. Moves(r)
      BY <2>3, <2>4 DEF Moves
    <2>6. LinkOK(r)'
      BY <1>2, <2>3, <2>4 DEF LinkOK, consume_challenge
    <2>7. WorkOK(r)'
      BY <2>3 DEF WorkOK
    <2> QED
      BY <1>2, <2>5, <2>6, <2>7, RequestMoves
  <1> QED
    BY <1>1, <1>2 DEF Consume

LEMMA LinkSteps ==
  ASSUME SignInIInv, NEW r \in SignInRequests,
         verify_email(r) \/ verify_password_signup(r) \/ reset_password(r) \/ ConsumeSigned(r)
  PROVE  SignInIInv'
  <1>1. Ask[r].link = Nil <=> Ask[r].kind \in {"Google", "Login"}
    BY RequestTypes DEF SignInIInv
  <1>2. CASE verify_email(r)
    BY <1>1, <1>2, ConsumeStep DEF verify_email, Starts, LinkKind
  <1>3. CASE verify_password_signup(r)
    BY <1>1, <1>3, ConsumeStep DEF verify_password_signup, Starts, LinkKind
  <1>4. CASE reset_password(r)
    BY <1>1, <1>4, ConsumeStep DEF reset_password, Starts, LinkKind
  <1>5. CASE ConsumeSigned(r)
    <2>1. Ask[r].kind = "Wallet"
      BY <1>5 DEF ConsumeSigned, SignInIInv, WorkOK
    <2> QED
      BY <1>1, <1>5, <2>1, ConsumeStep DEF ConsumeSigned, LinkKind
  <1> QED
    BY <1>2, <1>3, <1>4, <1>5

LEMMA VerifyWalletStep ==
  ASSUME SignInIInv, NEW r \in SignInRequests, verify_wallet(r)
  PROVE  SignInIInv'
  <1>1. work[r].pc = "New" /\ Ask[r].kind = "Wallet"
    BY DEF verify_wallet, Starts
  <1>2. CASE Refuse(r)
    BY <1>1, <1>2, RefuseStep
  <1>3. CASE Goes(r, "Signed") /\ UNCHANGED <<account, wallet, identity, challenge, cookie, lock, guesses>>
    <2>1. work \in [SignInRequests -> Work] /\ lock \in [Locked -> SignInRequests \cup {Nil}]
      BY RequestTypes DEF SignInIInv
    <2>2. work' \in [SignInRequests -> Work] /\ work'[r].pc = "Signed" /\ \A s \in SignInRequests \ {r} : work'[s] = work[s]
      BY <1>3, <2>1 DEF Goes, Work, Places
    <2>3. Moves(r) /\ LinkOK(r)' /\ WorkOK(r)'
      BY <1>1, <1>3, <2>1, <2>2 DEF Moves, OthersKeep, LinkOK, HasLink, WorkOK
    <2> QED
      BY <1>3, <2>3, RequestMoves
  <1> QED
    BY <1>2, <1>3 DEF verify_wallet
-----------------------------------------------------------------------------
(* Finding or making the account.                                          *)

LEMMA LooksStep ==
  ASSUME SignInIInv, NEW r \in SignInRequests, HasLink(r) \/ (Ask[r].link = Nil /\ work[r].pc = "New") \/ work[r].pc = "Create",
         work[r].pc \notin {"Refused", "SignedIn"},
         NEW pc, NEW a, Looks(r, pc, a),
         \/ pc = "Create" /\ a = r /\ Ask[r].kind \in Creators
         \/ pc = "MarkVerified" /\ Ask[r].kind = "EmailLink" /\ Known(a)
         \/ pc = "Revoke" /\ Ask[r].kind # "Reset" /\ Known(a)
  PROVE  SignInIInv'
  <1>1. work \in [SignInRequests -> Work] /\ (HasLink(r) \/ Ask[r].link = Nil)
    BY RequestTypes DEF SignInIInv, HasLink, InProgress
  <1>2. a \in AccountIds /\ (a = r => pc = "Create")
    BY KnownIsOther DEF AccountIds
  <1> DEFINE w == [work[r] EXCEPT !.pc = pc, !.account = a]
  <1>3. w \in Work /\ w.pc = pc /\ w.account = a /\ work' = [work EXCEPT ![r] = w]
    BY <1>1, <1>2 DEF Looks, GoesWith, Work, Places
  <1> HIDE DEF w
  <1>4. TakesOnly(r) /\ UNCHANGED <<account, wallet, identity, challenge, cookie, guesses>>
    BY Took DEF Looks, SignInIInv
  <1>5. Known(a) => (work'[r] = w => Known(a)')
    <2>1. SUFFICES ASSUME Known(a) PROVE Known(a)'
      OBVIOUS
    <2>2. a # r
      BY <2>1, KnownIsOther
    <2> QED
      BY <1>1, <1>3, <1>4, <2>1, <2>2 DEF Known
  <1>6. work'[r] = w => WorkOK(r)'
    BY <1>2, <1>3, <1>5 DEF WorkOK, Creates
  <1> QED
    BY <1>1, <1>3, <1>4, <1>6, GoesOn

LEMMA FindSteps ==
  ASSUME SignInIInv, NEW r \in SignInRequests, FindByEmail(r) \/ FindByColdkey(r) \/ google_callback(r)
  PROVE  SignInIInv'
  <1>0. Ask[r].link = Nil <=> Ask[r].kind \in {"Google", "Login"}
    BY RequestTypes DEF SignInIInv
  <1>1. CASE FindByEmail(r)
    <2>1. work[r].pc = "FindByEmail" /\ Ask[r].kind \in {"EmailLink", "Signup"} /\ HasLink(r)
      BY <1>0, <1>1 DEF FindByEmail, SignInIInv, WorkOK, HasLink, InProgress
    <2>2. CASE Refuse(r)
      BY <2>1, <2>2, RefuseStep
    <2>3. CASE Looks(r, "Create", r)
      BY <2>1, <2>3, LooksStep DEF Creators
    <2>4. ASSUME NEW a \in find_by_email(challenge[Ask[r].link].email), Ask[r].kind = "EmailLink",
                 Looks(r, "MarkVerified", a)
          PROVE  SignInIInv'
      BY <2>1, <2>4, KnownByAddress, LooksStep
    <2> QED
      BY <1>1, <2>2, <2>3, <2>4 DEF FindByEmail
  <1>2. CASE FindByColdkey(r)
    <2>1. work[r].pc = "FindByColdkey" /\ Ask[r].kind = "Wallet" /\ HasLink(r)
      BY <1>0, <1>2 DEF FindByColdkey, SignInIInv, WorkOK, HasLink, InProgress
    <2>2. Ask[r].key \in Keys /\ (wallet[Ask[r].key] # Nil => Known(wallet[Ask[r].key]))
      BY <2>1, SignInConstants DEF SignInIInv, AccountInv
    <2> QED
      BY <1>2, <2>1, <2>2, LooksStep DEF FindByColdkey, Creators
  <1>3. CASE google_callback(r)
    <2>1. work[r].pc = "New" /\ Ask[r].kind = "Google" /\ Ask[r].link = Nil
      BY <1>0, <1>3 DEF google_callback, Starts
    <2>2. Ask[r].subject \in Subjects /\ (identity[Ask[r].subject] # Nil => Known(identity[Ask[r].subject]))
      BY <2>1, SignInConstants DEF SignInIInv, AccountInv
    <2>3. CASE Refuse(r)
      BY <2>1, <2>3, RefuseStep
    <2> QED
      BY <1>3, <2>1, <2>2, <2>3, LooksStep DEF google_callback, Creators
  <1> QED
    BY <1>1, <1>2, <1>3

\* The update of a known account, or of nothing.
LEMMA MarkVerifiedStep ==
  ASSUME SignInIInv, NEW r \in SignInRequests, MarkVerified(r)
  PROVE  SignInIInv'
  <1> DEFINE a == work[r].account
             w == [work[r] EXCEPT !.pc = "Revoke"]
  <1>1. work[r].pc = "MarkVerified" /\ Ask[r].kind = "EmailLink" /\ Known(a) /\ HasLink(r) /\ work[r] \in Work
    BY RequestTypes DEF MarkVerified, SignInIInv, WorkOK, HasLink, InProgress
  <1>2. a # r /\ a \in AccountIds
    BY <1>1, KnownIsOther
  <1>3. TakesOnly(r)
    BY <1>2, Took DEF MarkVerified, SignInIInv, Take
  <1>4. w \in Work /\ w.pc = "Revoke" /\ w.account = a /\ work' = [work EXCEPT ![r] = w]
        /\ UNCHANGED <<account, wallet, identity, challenge, cookie, guesses>>
    BY <1>1 DEF MarkVerified, Goes, Work, Places
  <1> HIDE DEF w
  <1>5. Known(a)'
    BY <1>1, <1>2, <1>4, RequestTypes DEF Known, SignInIInv
  <1>6. work'[r] = w => WorkOK(r)'
    BY <1>1, <1>2, <1>4, <1>5 DEF WorkOK, Creates
  <1> QED
    BY <1>1, <1>3, <1>4, <1>6, GoesOn

LEMMA RevokeCookiesStep ==
  ASSUME SignInIInv, NEW r \in SignInRequests, RevokeCookies(r)
  PROVE  SignInIInv'
  <1> DEFINE a == work[r].account
             w == [work[r] EXCEPT !.ends = revoke_all_sessions(r), !.pc = AfterRevoking[@]]
  <1>0. /\ work[r].pc \in {"Revoke", "Rehashed", "Cleared"} /\ work \in [SignInRequests -> Work] /\ work[r] \in Work
        /\ Ask[r].link \in Tokens \cup {Nil}
    BY RequestTypes DEF RevokeCookies, AfterRevoking, SignInIInv
  <1>1. HasLink(r) \/ Ask[r].link = Nil
    BY <1>0 DEF HasLink, InProgress
  <1>2. AfterRevoking[work[r].pc] \in {"Commit", "CommitRehash", "CommitClear"} /\ revoke_all_sessions(r) \in SUBSET SignInRequests
        /\ (AfterRevoking[work[r].pc] = "Commit" => work[r].pc = "Revoke")
    BY <1>0 DEF AfterRevoking, revoke_all_sessions
  <1>3. work' = [work EXCEPT ![r] = w] /\ UNCHANGED <<account, wallet, identity, challenge, cookie, lock, guesses>>
    BY DEF RevokeCookies
  <1>4. w \in Work /\ w.pc = AfterRevoking[work[r].pc] /\ w.account = a /\ w.seen = work[r].seen
    BY <1>0, <1>2 DEF Work, Places
  <1> HIDE DEF w
  <1>5. TakesOnly(r)
    BY <1>3, Took DEF SignInIInv
  <1>6. \A b : Known(b) => (work'[r] = w => Known(b)')
    BY <1>0, <1>3, KnownIsOther DEF Known
  <1>7. AddressIsKept(r) => AddressIsKept(r)'
    BY <1>3 DEF AddressIsKept, NewAddress, find_by_email
  <1>8. WorkOK(r)
    BY DEF SignInIInv
  <1>9. work'[r] = w => WorkOK(r)'
    <2>1. SUFFICES ASSUME work'[r] = w PROVE WorkOK(r)'
      OBVIOUS
    <2>2. work'[r].pc = AfterRevoking[work[r].pc] /\ work'[r].account = a /\ work'[r].seen = work[r].seen
          /\ \A b : Known(b) => Known(b)'
      BY <1>4, <1>6, <2>1
    <2>3. CASE work[r].pc = "Revoke"
      BY <1>2, <1>7, <1>8, <2>2, <2>3 DEF WorkOK, Creates, AfterRevoking
    <2>4. CASE work[r].pc \in {"Rehashed", "Cleared"}
      BY <1>2, <1>8, <2>2, <2>4 DEF WorkOK, Creates, AfterRevoking
    <2> QED
      BY <1>0, <2>3, <2>4
  <1> QED
    BY <1>0, <1>1, <1>2, <1>3, <1>4, <1>5, <1>9, GoesOn
-----------------------------------------------------------------------------
(* Passwords.                                                              *)

LEMMA SetPasswordStep ==
  ASSUME SignInIInv, NEW r \in SignInRequests, SetPassword(r)
  PROVE  SignInIInv'
  <1> DEFINE a == challenge[Ask[r].link].account
             w == [work[r] EXCEPT !.pc = "Revoke", !.account = a, !.seen = account[a]]
  <1>1. work[r].pc = "SetPassword" /\ Ask[r].kind = "Reset" /\ work[r] \in Work /\ Ask[r].link \in Tokens
    BY RequestTypes DEF SetPassword, SignInIInv, WorkOK
  <1>2. HasLink(r)
    BY <1>1, SignInConstants DEF HasLink, InProgress
  <1>3. Known(a)
    BY <1>1, <1>2 DEF SignInIInv, LinkOK, LinkKind, ChallengeInv
  <1>4. a # r /\ a \in AccountIds /\ account[a] \in AccountRows
    BY <1>1, <1>3, KnownIsOther
  <1>5. TakesOnly(r)
    <2>1. CanTake(a, r) /\ Take(a, r) /\ SignInTypes
      BY DEF SetPassword, SignInIInv
    <2> QED
      BY <2>1, Took
  <1>6. work' = [work EXCEPT ![r] = w] /\ UNCHANGED <<account, wallet, identity, challenge, cookie, guesses>>
    BY DEF SetPassword
  <1>7. w \in Work /\ w.pc = "Revoke" /\ w.account = a /\ w.seen = account[a]
    BY <1>1, <1>4 DEF Work, Places
  <1> HIDE DEF w
  <1>8. Known(a)'
    BY <1>3, <1>4, <1>6, RequestTypes DEF Known, SignInIInv
  <1>9. work'[r] = w => WorkOK(r)'
    BY <1>1, <1>4, <1>6, <1>7, <1>8 DEF WorkOK, Creates
  <1> QED
    BY <1>1, <1>2, <1>5, <1>6, <1>7, <1>9, GoesOn

LEMMA PasswordLoginStep ==
  ASSUME SignInIInv, NEW r \in SignInRequests, password_login(r)
  PROVE  SignInIInv'
  <1>1. work[r].pc = "New" /\ Ask[r].kind = "Login" /\ work[r] \in Work /\ Ask[r].link = Nil
    BY RequestTypes DEF password_login, Starts, SignInIInv
  <1>2. CASE Refuse(r)
    BY <1>1, <1>2, RefuseStep
  <1>3. ASSUME NEW a \in find_by_email(Ask[r].email),
               work' = [work EXCEPT ![r] = [@ EXCEPT !.pc = "Compare", !.account = a, !.seen = account[a]]],
               UNCHANGED <<account, wallet, identity, challenge, cookie, lock, guesses>>
        PROVE  SignInIInv'
    <2> DEFINE w == [work[r] EXCEPT !.pc = "Compare", !.account = a, !.seen = account[a]]
    <2>1. Known(a)
      BY KnownByAddress
    <2>2. a # r /\ a \in AccountIds /\ account[a] \in AccountRows
      BY <1>1, <2>1, KnownIsOther
    <2>3. TakesOnly(r)
      BY <1>3, Took DEF SignInIInv
    <2>4. work' = [work EXCEPT ![r] = w]
      BY <1>3
    <2>5. w \in Work /\ w.pc = "Compare" /\ w.account = a /\ w.seen = account[a]
      BY <1>1, <2>2 DEF Work, Places
    <2> HIDE DEF w
    <2>6. Known(a)'
      BY <1>3, <2>1, <2>2, <2>4, RequestTypes DEF Known, SignInIInv
    <2>7. work'[r] = w => WorkOK(r)'
      BY <1>1, <2>2, <2>5, <2>6 DEF WorkOK, Creates
    <2> QED
      BY <1>1, <1>3, <2>3, <2>4, <2>5, <2>7, GoesOn
  <1> QED
    BY <1>2, <1>3 DEF password_login

LEMMA PasswordIsRightStep ==
  ASSUME SignInIInv, NEW r \in SignInRequests, PasswordIsRight(r)
  PROVE  SignInIInv'
  <1> DEFINE a == work[r].account
  <1>1. work[r].pc = "Compare" /\ Ask[r].kind = "Login" /\ work[r] \in Work /\ Ask[r].link = Nil /\ Known(a)
        /\ work[r].seen \in AccountRows
    BY RequestTypes DEF PasswordIsRight, WorkOK, SignInIInv
  <1>2. a # r /\ a \in AccountIds
    BY <1>1, KnownIsOther
  <1>3. TakesOnly(r) /\ UNCHANGED <<account, wallet, identity, challenge, cookie, guesses>>
    BY <1>2, Took DEF PasswordIsRight, SignInIInv
  <1>4. PICK pc \in {"Rehashed", "Cleared", "Revoke"} : Goes(r, pc)
    BY DEF PasswordIsRight
  <1> DEFINE w == [work[r] EXCEPT !.pc = pc]
  <1>5. w \in Work /\ w.pc = pc /\ w.account = a /\ w.seen = work[r].seen /\ work' = [work EXCEPT ![r] = w]
    BY <1>1, <1>4 DEF Goes, Work, Places
  <1> HIDE DEF w
  <1>6. Known(a)'
    BY <1>1, <1>2, <1>3, <1>5, RequestTypes DEF Known, SignInIInv
  <1>7. work'[r] = w => WorkOK(r)'
    BY <1>1, <1>2, <1>4, <1>5, <1>6 DEF WorkOK, Creates
  <1> QED
    BY <1>1, <1>3, <1>4, <1>5, <1>7, GoesOn
-----------------------------------------------------------------------------
(* Inserting an account.                                                   *)

LEMMA CreateStep ==
  ASSUME SignInIInv, NEW r \in SignInRequests, create_account(r)
  PROVE  SignInIInv'
  <1>1. work[r].pc = "Create" /\ Creates(r) /\ Ask[r].kind \in Creators /\ work[r] \in Work
        /\ Ask[r].link \in Tokens \cup {Nil} /\ (HasLink(r) \/ Ask[r].link = Nil)
    BY RequestTypes DEF create_account, SignInIInv, WorkOK, HasLink, InProgress
  <1>2. CASE /\ ~\E x \in Inserts(r) : Taken(x)
             /\ lock' = [x \in Locked |-> IF x \in Inserts(r) THEN r ELSE lock[x]]
             /\ Goes(r, "Revoke") /\ UNCHANGED <<account, wallet, identity, challenge, cookie, guesses>>
    <2> DEFINE w == [work[r] EXCEPT !.pc = "Revoke"]
    <2>1. w \in Work /\ w.pc = "Revoke" /\ w.account = r /\ work' = [work EXCEPT ![r] = w]
      BY <1>1, <1>2 DEF Goes, Work, Places, Creates
    <2> HIDE DEF w
    <2>2. \A x \in Inserts(r) : lock[x] \in {Nil, r}
      BY DEF create_account, CanTake
    <2>3. TakesOnly(r)
      BY <1>2, <2>2, RequestTypes DEF TakesOnly, SignInIInv
    <2>4. NewAddress(r) \in Emails => NewAddress(r) \in Inserts(r)
      BY <1>1, SignInConstants DEF NewAddress, Inserts, Creators
    <2>5. NewAddress(r)' = NewAddress(r) /\ find_by_email(NewAddress(r))' = find_by_email(NewAddress(r))
      BY <1>2 DEF NewAddress, find_by_email
    <2>6. AddressIsKept(r)'
      BY <1>2, <2>4, <2>5 DEF AddressIsKept, Taken, Locked
    <2>7. work'[r] = w => WorkOK(r)'
      BY <1>1, <2>1, <2>6 DEF WorkOK, Creates, Creators
    <2> QED
      BY <1>1, <1>2, <2>1, <2>3, <2>7, GoesOn
  <1>3. CASE Ask[r].kind = "Google" /\ identity[Ask[r].subject] # Nil /\ Looks(r, "Revoke", identity[Ask[r].subject])
    <2>1. Known(identity[Ask[r].subject])
      BY <1>3, SignInConstants DEF SignInIInv, AccountInv
    <2> QED
      BY <1>1, <1>3, <2>1, LooksStep
  <1>4. CASE Refuse(r)
    BY <1>1, <1>4, RefuseStep
  <1> QED
    BY <1>2, <1>3, <1>4 DEF create_account
-----------------------------------------------------------------------------
(* Steps that write a table.                                               *)

\* A request's link is as it was, or has run out of time.
KeepsLink(s) ==
    (HasLink(s) \/ work[s].pc = "SignedIn") /\ Ask[s].link # Nil =>
        \/ challenge'[Ask[s].link] = challenge[Ask[s].link]
        \/ /\ challenge[Ask[s].link].state = "Open"
           /\ challenge'[Ask[s].link] = [challenge[Ask[s].link] EXCEPT !.state = "Expired"]

\* What a request relies on while others write.
LEMMA StillRelies ==
  ASSUME SignInTypes, NEW s \in SignInRequests, LinkOK(s), WorkOK(s),
         work'[s] = work[s], KeepsLink(s), \A a : Known(a) => Known(a)', \A x \in Locked : lock[x] = s => lock'[x] = s,
         \A e \in Emails : lock[e] = s /\ find_by_email(e) = {} => find_by_email(e)' = {}
  PROVE  LinkOK(s)' /\ WorkOK(s)'
  <1>1. Ask[s].link \in Tokens \cup {Nil} /\ (Ask[s].link = Nil <=> Ask[s].kind \in {"Google", "Login"})
        /\ work[s].pc \in Places
    BY RequestTypes DEF Work
  <1>2. Ask[s].link # Nil => challenge[Ask[s].link] \in LinkRows
    BY <1>1 DEF SignInTypes
  <1>3. LinkOK(s)'
    BY <1>1, <1>2 DEF LinkOK, HasLink, InProgress, Locked, KeepsLink, LinkRows
  <1>4. work[s].pc \in {"Revoke", "Commit"} => NewAddress(s)' = NewAddress(s) \/ Ask[s].kind = "Login"
    BY <1>1, <1>2 DEF NewAddress, KeepsLink, HasLink, InProgress, LinkRows
  <1>5. work[s].pc \in {"Revoke", "Commit"} /\ AddressIsKept(s) /\ Ask[s].kind # "Login" => AddressIsKept(s)'
    BY <1>4 DEF AddressIsKept, Locked
  <1>6. WorkOK(s)'
    BY <1>5 DEF WorkOK, Creates, Creators
  <1> QED
    BY <1>3, <1>6

\* The same accounts have the same addresses.
SameAddresses ==
    /\ account' \in [AccountIds -> AccountRows \cup {Nil}]
    /\ \A a \in AccountIds : /\ account'[a] = Nil <=> account[a] = Nil
                             /\ account[a] # Nil => account'[a].email = account[a].email

LEMMA SameFound ==
  ASSUME SameAddresses
  PROVE  \A e : find_by_email(e)' = find_by_email(e)
  BY DEF SameAddresses, find_by_email

LEMMA PauseEndsStep ==
  ASSUME SignInIInv, NEW a \in AccountIds, PauseEnds(a)
  PROVE  SignInIInv'
  <1>1. account \in [AccountIds -> AccountRows \cup {Nil}] /\ account[a] # Nil /\ account[a] \in AccountRows
        /\ account' = [account EXCEPT ![a] = [account[a] EXCEPT !.pause = "Over"]]
        /\ UNCHANGED <<wallet, identity, challenge, cookie, work, lock, guesses>>
    BY DEF PauseEnds, SignInIInv, SignInTypes
  <1> DEFINE row == [account[a] EXCEPT !.pause = "Over"]
  <1>2. row \in AccountRows /\ row.email = account[a].email /\ row.failures = account[a].failures /\ row # Nil
    BY <1>1, SignInConstants DEF AccountRows
  <1>3. account' = [account EXCEPT ![a] = row]
    BY <1>1
  <1> HIDE DEF row
  <1>4. SameAddresses /\ \A b \in AccountIds : account[b] # Nil => account'[b].failures = account[b].failures
    BY <1>1, <1>2, <1>3 DEF SameAddresses
  <1>5. \A e : find_by_email(e)' = find_by_email(e)
    BY <1>4, SameFound
  <1>6. \A b : Known(b) <=> Known(b)'
    BY <1>1, <1>4 DEF Known, SameAddresses
  <1>7. SignInTypes'
    BY <1>1, <1>4 DEF SignInIInv, SignInTypes, SameAddresses
  <1>8. AccountInv' /\ ChallengeInv'
    BY <1>1, <1>4, <1>6 DEF SignInIInv, AccountInv, ChallengeInv, SameAddresses, AccountIds
  <1>9. \A s \in SignInRequests : KeepsLink(s)
    BY <1>1 DEF KeepsLink
  <1>10. \A s \in SignInRequests : LinkOK(s)' /\ WorkOK(s)'
    BY <1>1, <1>5, <1>6, <1>9, StillRelies DEF SignInIInv
  <1>11. GuessInv'
    BY <1>1, <1>4 DEF SignInIInv, GuessInv, SameAddresses
  <1>12. AddressInv' /\ LinkSignsInOnce'
    BY <1>1, <1>5 DEF SignInIInv, AddressInv, LinkSignsInOnce
  <1> QED
    BY <1>7, <1>8, <1>10, <1>11, <1>12 DEF SignInIInv

\* One more wrong guess, by a request that made none before.
LEMMA FailureStep ==
  ASSUME SignInIInv, NEW r \in SignInRequests, record_password_failure(r)
  PROVE  SignInIInv'
  <1> DEFINE a == work[r].account
             full == Counted(r) >= Attempts
             row == [account[a] EXCEPT !.failures = IF full THEN 0 ELSE Counted(r), !.pause = IF full THEN "Paused" ELSE @]
             mine == IF full THEN {} ELSE guesses[a] \cup {r}
  <1>1. /\ work[r].pc = "Compare" /\ Ask[r].kind = "Login" /\ Ask[r].link = Nil /\ Known(a) /\ work[r] \in Work
        /\ work \in [SignInRequests -> Work] /\ lock \in [Locked -> SignInRequests \cup {Nil}]
    BY RequestTypes DEF record_password_failure, SignInIInv, WorkOK
  <1>2. a # r /\ a \in AccountIds /\ account[a] \in AccountRows /\ account[a] # Nil
    BY <1>1, KnownIsOther DEF Known
  <1>3. /\ account \in [AccountIds -> AccountRows \cup {Nil}] /\ guesses \in [AccountIds -> SUBSET SignInRequests]
        /\ account' = [account EXCEPT ![a] = row] /\ guesses' = [guesses EXCEPT ![a] = mine]
        /\ UNCHANGED <<wallet, identity, challenge, cookie>> /\ Goes(r, "Refused") /\ GiveBack(r)
    BY <1>2 DEF record_password_failure, SignInIInv, SignInTypes
  <1>4. /\ IsFiniteSet(guesses[a]) /\ r \notin guesses[a] /\ account[a].failures = Cardinality(guesses[a])
        /\ account[a].failures < Attempts /\ account[a].failures \in Nat /\ Attempts \in Nat \ {0}
    BY <1>1, <1>2, SignInConstants DEF SignInIInv, GuessInv, AccountRows
  <1>5. Counted(r) = Cardinality(guesses[a]) + 1 /\ Counted(r) \in Nat
    BY <1>4 DEF Counted
  <1>6. IsFiniteSet(mine) /\ Cardinality(mine) = (IF full THEN 0 ELSE Counted(r)) /\ mine \in SUBSET SignInRequests
    <2>1. IsFiniteSet({}) /\ Cardinality({}) = 0
      BY FS_EmptySet
    <2>2. IsFiniteSet(guesses[a] \cup {r}) /\ Cardinality(guesses[a] \cup {r}) = Counted(r)
      BY <1>4, <1>5, FS_AddElement
    <2>3. guesses[a] \in SUBSET SignInRequests
      BY <1>2, <1>3
    <2> QED
      BY <2>1, <2>2, <2>3
  <1>7. row \in AccountRows /\ row.email = account[a].email /\ row # Nil
        /\ row.failures = Cardinality(mine) /\ row.failures < Attempts
    <2> DEFINE n == IF full THEN 0 ELSE Counted(r)
    <2>1. n \in Nat /\ n < Attempts /\ n = Cardinality(mine)
      BY <1>4, <1>5, <1>6
    <2> HIDE DEF n
    <2>2. row = [account[a] EXCEPT !.failures = n, !.pause = IF full THEN "Paused" ELSE @]
      BY DEF n
    <2>3. row \in AccountRows /\ row.email = account[a].email /\ row.failures = n
      BY <1>2, <2>1, <2>2 DEF AccountRows
    <2> QED
      BY <2>1, <2>3, SignInConstants
  <1>8. \A x \in mine : x = r \/ x \in guesses[a]
    OBVIOUS
  <1> HIDE DEF row, mine, full
  <1>9. work' = [work EXCEPT ![r].pc = "Refused"]
    BY <1>3 DEF Goes
  <1>10. /\ work' \in [SignInRequests -> Work] /\ work'[r].pc = "Refused" /\ \A s \in SignInRequests \ {r} : work'[s] = work[s]
    BY <1>1, <1>9 DEF Work, Places
  <1>11. lock' \in [Locked -> SignInRequests \cup {Nil}] /\ \A s \in SignInRequests \ {r} : \A x \in Locked : lock[x] = s => lock'[x] = s
    BY <1>1, <1>3 DEF GiveBack
  <1>12. SameAddresses
    BY <1>2, <1>3, <1>7 DEF SameAddresses
  <1>13. \A e : find_by_email(e)' = find_by_email(e)
    BY <1>12, SameFound
  <1>14. \A s \in SignInRequests : work'[s].pc = "SignedIn" <=> work[s].pc = "SignedIn"
    BY <1>1, <1>10
  <1>15. \A b : Known(b) <=> Known(b)'
    BY <1>12, <1>14 DEF Known, SameAddresses
  <1>16. SignInTypes'
    BY <1>2, <1>3, <1>6, <1>10, <1>11, <1>12 DEF SignInIInv, SignInTypes, SameAddresses
  <1>17. AccountInv' /\ ChallengeInv'
    BY <1>3, <1>12, <1>14, <1>15 DEF SignInIInv, AccountInv, ChallengeInv, SameAddresses, AccountIds
  <1>18. LinkOK(r)' /\ WorkOK(r)'
    BY <1>10 DEF LinkOK, HasLink, InProgress, WorkOK
  <1>19. \A s \in SignInRequests : KeepsLink(s)
    BY <1>3 DEF KeepsLink
  <1>20. \A s \in SignInRequests : LinkOK(s)' /\ WorkOK(s)'
    BY <1>10, <1>11, <1>13, <1>15, <1>18, <1>19, StillRelies DEF SignInIInv
  <1>21. \A s \in SignInRequests : work[s].pc = "Refused" => work'[s].pc = "Refused"
    BY <1>10
  <1>22. GuessInv'
    <2> SUFFICES ASSUME NEW b \in AccountIds
                 PROVE  /\ IsFiniteSet(guesses'[b]) /\ \A x \in guesses'[b] : work'[x].pc = "Refused"
                        /\ account'[b] # Nil => account'[b].failures = Cardinality(guesses'[b]) /\ account'[b].failures < Attempts
      BY DEF GuessInv
    <2>1. CASE b = a
      BY <1>2, <1>3, <1>6, <1>7, <1>8, <1>10, <1>21, <2>1 DEF SignInIInv, GuessInv
    <2>2. CASE b # a
      BY <1>3, <1>21, <2>2 DEF SignInIInv, GuessInv
    <2> QED
      BY <2>1, <2>2
  <1>23. AddressInv' /\ LinkSignsInOnce'
    BY <1>13, <1>14 DEF SignInIInv, AddressInv, LinkSignsInOnce
  <1> QED
    BY <1>16, <1>17, <1>20, <1>22, <1>23 DEF SignInIInv
-----------------------------------------------------------------------------
(* Challenges, and what needs no request.                                  *)

\* A step that writes one challenge: what it becomes is for an address or an account as its kind says, and a
\* link that somebody holds or used is not made anew.
LEMMA ChallengeWritten ==
  ASSUME SignInIInv, NEW c \in Tokens, NEW row \in LinkRows, challenge' = [challenge EXCEPT ![c] = row],
         UNCHANGED <<account, wallet, identity, cookie, work, lock, guesses>>,
         row.state # "None",
         row.kind \in {"EMAIL", "PASSWORD_SIGNUP"} => row.email \in Emails,
         row.kind = "PASSWORD_RESET" => Known(row.account),
         \/ challenge[c].state = "None"
         \/ challenge[c].state = "Open" /\ row = [challenge[c] EXCEPT !.state = "Expired"]
  PROVE  SignInIInv'
  <1>1. challenge \in [Tokens -> LinkRows] /\ challenge' \in [Tokens -> LinkRows] /\ challenge'[c] = row
        /\ \A d \in Tokens \ {c} : challenge'[d] = challenge[d]
    BY DEF SignInIInv, SignInTypes
  <1>2. \A b : Known(b) <=> Known(b)'
    BY DEF Known
  <1>3. \A e : find_by_email(e)' = find_by_email(e)
    BY DEF find_by_email
  <1>4. SignInTypes' /\ AccountInv'
    BY <1>1, <1>2 DEF SignInIInv, SignInTypes, AccountInv
  <1>5. ChallengeInv'
    BY <1>1, <1>2 DEF SignInIInv, ChallengeInv
  <1>6. \A s \in SignInRequests : KeepsLink(s)
    <2> SUFFICES ASSUME NEW s \in SignInRequests, HasLink(s) \/ work[s].pc = "SignedIn", Ask[s].link = c, Ask[s].link # Nil
                 PROVE  KeepsLink(s)
      BY <1>1, RequestTypes DEF KeepsLink, SignInIInv
    <2>1. challenge[c].state # "None"
      BY DEF SignInIInv, LinkOK
    <2> QED
      BY <1>1, <2>1 DEF KeepsLink
  <1>7. \A s \in SignInRequests : LinkOK(s)' /\ WorkOK(s)'
    BY <1>2, <1>3, <1>6, StillRelies DEF SignInIInv
  <1>8. GuessInv' /\ AddressInv' /\ LinkSignsInOnce'
    BY <1>3 DEF SignInIInv, GuessInv, AddressInv, LinkSignsInOnce
  <1> QED
    BY <1>4, <1>5, <1>7, <1>8 DEF SignInIInv

LEMMA ChallengeMade ==
  ASSUME SignInIInv, NEW c \in Tokens, NEW kind \in LinkKinds, NEW e \in Emails \cup {Nil}, NEW a \in AccountIds \cup {Nil},
         NEW k \in Keys \cup {Nil}, NEW p \in Passwords \cup {Nil}, create_challenge(c, kind, e, a, k, p),
         kind \in {"EMAIL", "PASSWORD_SIGNUP"} => e \in Emails, kind = "PASSWORD_RESET" => Known(a)
  PROVE  SignInIInv'
  <1> DEFINE at == Cardinality({d \in Tokens : challenge[d].state # "None"})
             row == [state |-> "Open", kind |-> kind, email |-> e, account |-> a, key |-> k, password |-> p, at |-> at]
  <1>1. at \in {Cardinality(T) : T \in SUBSET Tokens}
    OBVIOUS
  <1>2. row \in LinkRows
    BY <1>1 DEF LinkRows
  <1> QED
    BY <1>2, ChallengeWritten DEF create_challenge

LEMMA EmailChallengeSteps ==
  ASSUME SignInIInv, NEW c \in Tokens, NEW e \in Emails, request_email_link(c, e) \/ request_password_reset(c, e)
  PROVE  SignInIInv'
  <1>1. CASE request_email_link(c, e)
    BY <1>1, ChallengeMade DEF request_email_link, LinkKinds
  <1>2. CASE request_password_reset(c, e)
    <2>1. PICK a \in find_by_email(e) : create_challenge(c, "PASSWORD_RESET", e, a, Nil, Nil)
      BY <1>2 DEF request_password_reset
    <2>2. Known(a) /\ a \in AccountIds
      BY KnownByAddress DEF Known
    <2> QED
      BY <2>1, <2>2, ChallengeMade DEF LinkKinds
  <1> QED
    BY <1>1, <1>2

LEMMA RegisterStep ==
  ASSUME SignInIInv, NEW c \in Tokens, NEW e \in Emails, NEW p \in Passwords, register_password(c, e, p)
  PROVE  SignInIInv'
  <1>1. ASSUME NEW a \in find_by_email(e), create_challenge(c, "PASSWORD_RESET", e, a, Nil, Nil)
        PROVE  SignInIInv'
    <2>1. Known(a) /\ a \in AccountIds
      BY KnownByAddress DEF Known
    <2> QED
      BY <1>1, <2>1, ChallengeMade DEF LinkKinds
  <1>2. CASE create_challenge(c, "PASSWORD_SIGNUP", e, Nil, Nil, p)
    BY <1>2, ChallengeMade DEF LinkKinds
  <1> QED
    BY <1>1, <1>2 DEF register_password

LEMMA WalletChallengeStep ==
  ASSUME SignInIInv, NEW c \in Tokens, NEW k \in Keys, wallet_challenge(c, k)
  PROVE  SignInIInv'
  BY ChallengeMade DEF wallet_challenge, LinkKinds

LEMMA LinkExpiresStep ==
  ASSUME SignInIInv, NEW c \in Tokens, LinkExpires(c)
  PROVE  SignInIInv'
  <1> DEFINE row == [challenge[c] EXCEPT !.state = "Expired"]
  <1>1. challenge[c] \in LinkRows
    BY DEF SignInIInv, SignInTypes
  <1>2. row \in LinkRows /\ row.state = "Expired" /\ row.kind = challenge[c].kind /\ row.email = challenge[c].email
        /\ row.account = challenge[c].account
    BY <1>1 DEF LinkRows
  <1>3. challenge' = [challenge EXCEPT ![c] = row] /\ challenge[c].state = "Open"
        /\ UNCHANGED <<account, wallet, identity, cookie, work, lock, guesses>>
    BY DEF LinkExpires
  <1>4. /\ row.kind \in {"EMAIL", "PASSWORD_SIGNUP"} => row.email \in Emails
        /\ row.kind = "PASSWORD_RESET" => Known(row.account)
    BY <1>2 DEF SignInIInv, ChallengeInv
  <1>5. row = [challenge[c] EXCEPT !.state = "Expired"]
    OBVIOUS
  <1> HIDE DEF row
  <1> QED
    BY <1>2, <1>3, <1>4, <1>5, ChallengeWritten

LEMMA LogoutStep ==
  ASSUME SignInIInv, NEW r \in SignInRequests, logout(r)
  PROVE  SignInIInv'
  <1>1. cookie[r] \in Cookies /\ cookie \in [SignInRequests -> Cookies] /\ cookie[r].state = "Live"
        /\ cookie' = [cookie EXCEPT ![r] = [cookie[r] EXCEPT !.state = "Revoked"]]
        /\ UNCHANGED <<account, wallet, identity, challenge, work, lock, guesses>>
    BY DEF logout, SignInIInv, SignInTypes
  <1>2. cookie' \in [SignInRequests -> Cookies]
        /\ \A s \in SignInRequests : cookie'[s].account = cookie[s].account /\ (cookie'[s].state = "Live" => cookie[s].state = "Live")
    BY <1>1 DEF Cookies
  <1>3. \A b : Known(b) <=> Known(b)'
    BY <1>1 DEF Known
  <1>4. \A e : find_by_email(e)' = find_by_email(e)
    BY <1>1 DEF find_by_email
  <1>5. SignInTypes' /\ AccountInv' /\ ChallengeInv'
    BY <1>1, <1>2, <1>3 DEF SignInIInv, SignInTypes, AccountInv, ChallengeInv
  <1>6. \A s \in SignInRequests : KeepsLink(s)
    BY <1>1 DEF KeepsLink
  <1>7. \A s \in SignInRequests : LinkOK(s)' /\ WorkOK(s)'
    BY <1>1, <1>3, <1>4, <1>6, StillRelies DEF SignInIInv
  <1>8. GuessInv' /\ AddressInv' /\ LinkSignsInOnce'
    BY <1>1, <1>4 DEF SignInIInv, GuessInv, AddressInv, LinkSignsInOnce
  <1> QED
    BY <1>5, <1>7, <1>8 DEF SignInIInv

\* The address goes to the account only while nobody else has it or is about to.
LEMMA LinkGoogleStep ==
  ASSUME SignInIInv, NEW r \in SignInRequests, NEW s \in Subjects, NEW e \in Emails, link_google(r, s, e)
  PROVE  SignInIInv'
  <1> DEFINE a == cookie[r].account
             row == [account[a] EXCEPT !.email = e, !.verified = TRUE]
  <1>1. Known(a) /\ a \in AccountIds /\ account[a] \in AccountRows /\ account[a] # Nil
    BY DEF link_google, SignInIInv, AccountInv, SignInTypes, Known
  <1>2. row \in AccountRows /\ row # Nil /\ row.email = e /\ row.failures = account[a].failures
    BY <1>1, SignInConstants, ZenonT(60) DEF AccountRows
  <1>3. \/ account' = account
        \/ account' = [account EXCEPT ![a] = row] /\ find_by_email(e) \subseteq {a}
    BY DEF link_google
  <1>4. lock[e] = Nil /\ identity' = [identity EXCEPT ![s] = a] /\ UNCHANGED <<wallet, challenge, cookie, work, lock, guesses>>
    BY DEF link_google, CanTake
  <1> HIDE DEF row
  <1>5. account \in [AccountIds -> AccountRows \cup {Nil}] /\ identity \in [Subjects -> AccountIds \cup {Nil}]
    BY DEF SignInIInv, SignInTypes
  <1>6. /\ account' \in [AccountIds -> AccountRows \cup {Nil}]
        /\ \A b \in AccountIds : /\ account'[b] = Nil <=> account[b] = Nil
                                 /\ account[b] # Nil => account'[b].failures = account[b].failures
                                 /\ b # a => account'[b] = account[b]
    BY <1>1, <1>2, <1>3, <1>5
  <1>7. \A b : Known(b) <=> Known(b)'
    BY <1>4, <1>6 DEF Known
  <1>8. SignInTypes'
    BY <1>1, <1>4, <1>5, <1>6 DEF SignInIInv, SignInTypes
  <1>9. AccountInv' /\ ChallengeInv'
    BY <1>1, <1>4, <1>5, <1>6, <1>7 DEF SignInIInv, AccountInv, ChallengeInv, AccountIds
  <1>10. \A f \in Emails : f # e => find_by_email(f)' \subseteq find_by_email(f)
    BY <1>1, <1>2, <1>3, <1>5 DEF find_by_email
  <1>11. find_by_email(e)' = find_by_email(e) \/ find_by_email(e)' = {a}
    BY <1>1, <1>2, <1>3, <1>5 DEF find_by_email
  <1>12. \A t \in SignInRequests : KeepsLink(t)
    BY <1>4 DEF KeepsLink
  <1>13. \A t \in SignInRequests : \A f \in Emails : lock[f] = t /\ find_by_email(f) = {} => find_by_email(f)' = {}
    BY <1>4, <1>10, SignInConstants
  <1>14. \A t \in SignInRequests : LinkOK(t)' /\ WorkOK(t)'
    BY <1>4, <1>7, <1>12, <1>13, StillRelies DEF SignInIInv
  <1>15. GuessInv' /\ LinkSignsInOnce'
    BY <1>4, <1>6 DEF SignInIInv, GuessInv, LinkSignsInOnce
  <1>16. AddressInv'
    BY <1>10, <1>11 DEF SignInIInv, AddressInv
  <1> QED
    BY <1>8, <1>9, <1>14, <1>15, <1>16 DEF SignInIInv
-----------------------------------------------------------------------------
(* Signing in.                                                             *)

Committing(r) == work[r].pc \in {"Commit", "CommitRehash", "CommitClear"}

\* Whose sign-in it is: a new account's, or one that is known.
LEMMA SignsInTo ==
  ASSUME SignInIInv, NEW r \in SignInRequests, Committing(r)
  PROVE  /\ HasLink(r) \/ Ask[r].link = Nil
         /\ work[r] \in Work /\ work[r].account \in AccountIds
         /\ work[r].account = r => work[r].pc = "Commit" /\ Ask[r].kind \in Creators /\ AddressIsKept(r)
         /\ work[r].account # r => /\ Known(work[r].account) /\ account[work[r].account] \in AccountRows
                                   /\ Ask[r].kind = "Reset" => work[r].seen \in AccountRows
                                   /\ work[r].pc # "Commit" => work[r].seen \in AccountRows
  <1>1. work[r] \in Work
    BY RequestTypes DEF SignInIInv
  <1>2. HasLink(r) \/ Ask[r].link = Nil
    BY DEF Committing, HasLink, InProgress
  <1>3. WorkOK(r) /\ work[r].pc \in {"Commit", "CommitRehash", "CommitClear"}
    BY DEF SignInIInv, Committing
  <1>4. work[r].pc # "SignedIn"
    BY <1>3
  <1>5. CASE work[r].pc = "Commit"
    BY <1>1, <1>2, <1>3, <1>4, <1>5, KnownIsOther DEF WorkOK, Creates, AccountIds
  <1>6. CASE work[r].pc # "Commit"
    BY <1>1, <1>2, <1>3, <1>4, <1>6, KnownIsOther DEF WorkOK
  <1> QED
    BY <1>5, <1>6

LEMMA CountersCleared ==
  ASSUME NEW row \in AccountRows, NEW seen
  PROVE  /\ ClearCounters(row, seen) \in AccountRows /\ ClearCounters(row, seen).email = row.email
         /\ ClearCounters(row, seen).failures \in {0, row.failures}
  BY DEF ClearCounters, AccountRows

\* What the commit writes of the account.
LEMMA AccountWritten ==
  ASSUME SignInIInv, NEW r \in SignInRequests, Committing(r)
  PROVE  /\ AccountAfter(r) \in AccountRows
         /\ work[r].account = r => AccountAfter(r).email = NewAddress(r) /\ AccountAfter(r).failures = 0
         /\ work[r].account # r => /\ AccountAfter(r).email = account[work[r].account].email
                                   /\ AccountAfter(r).failures \in {0, account[work[r].account].failures}
  <1>1. CASE work[r].account = r
    <2> DEFINE verified == Ask[r].kind \in {"EmailLink", "Signup"}
               password == IF Ask[r].kind = "Signup" THEN challenge[Ask[r].link].password ELSE Nil
    <2>1. AccountAfter(r) = NewAccount(NewAddress(r), verified, password)
      <3>1. AccountAfter(r) = NewAccount(IF Ask[r].kind = "Google" THEN Ask[r].email
                                         ELSE IF Ask[r].kind = "Wallet" THEN Nil ELSE challenge[Ask[r].link].email,
                                         Ask[r].kind \in {"EmailLink", "Signup"},
                                         IF Ask[r].kind = "Signup" THEN challenge[Ask[r].link].password ELSE Nil)
        BY <1>1 DEF AccountAfter
      <3> QED
        BY <3>1, Zenon DEF NewAddress
    <2>2. Ask[r].kind \in {"EmailLink", "Signup"} => challenge[Ask[r].link] \in LinkRows
      BY <1>1, RequestTypes DEF SignInIInv, SignInTypes
    <2>3. NewAddress(r) \in Emails \cup {Nil} /\ password \in Passwords \cup {Nil} /\ verified \in BOOLEAN
      BY <1>1, <2>2, SignsInTo, SignInConstants DEF NewAddress, LinkRows, Creators
    <2> HIDE DEF verified, password
    <2> QED
      BY <1>1, <2>1, <2>3 DEF NewAccount, AccountRows
  <1>2. CASE work[r].account # r
    <2> DEFINE row == account[work[r].account]
               cleared == ClearCounters(row, work[r].seen)
    <2>1. row \in AccountRows /\ Ask[r].password \in Passwords \cup {Nil}
      BY <1>2, SignsInTo, RequestTypes DEF SignInIInv
    <2>2. /\ cleared \in AccountRows /\ cleared.email = row.email /\ cleared.failures \in {0, row.failures}
      BY <2>1, CountersCleared
    <2>3. AccountAfter(r) \in {row, [row EXCEPT !.verified = TRUE], cleared, [cleared EXCEPT !.password = Ask[r].password],
                               [cleared EXCEPT !.password = Ask[r].password, !.verified = TRUE]}
      BY <1>2 DEF AccountAfter
    <2> HIDE DEF row, cleared
    <2>4. AccountAfter(r) \in AccountRows /\ AccountAfter(r).email = row.email /\ AccountAfter(r).failures \in {0, row.failures}
      BY <2>1, <2>2, <2>3 DEF AccountRows
    <2> QED
      BY <1>2, <2>4 DEF row
  <1> QED
    BY <1>1, <1>2

LEMMA SignInStepKeeps ==
  ASSUME SignInIInv, NEW r \in SignInRequests, _sign_in(r)
  PROVE  SignInIInv'
  <1> DEFINE a == work[r].account
             row == AccountAfter(r)
             c == Ask[r].link
             mine == IF row.failures = 0 THEN {} ELSE guesses[a]
  <1>1. Committing(r)
    BY DEF _sign_in, Committing
  <1>2. /\ work \in [SignInRequests -> Work] /\ lock \in [Locked -> SignInRequests \cup {Nil}] /\ r # Nil /\ c \in Tokens \cup {Nil}
        /\ account \in [AccountIds -> AccountRows \cup {Nil}] /\ guesses \in [AccountIds -> SUBSET SignInRequests]
        /\ wallet \in [Keys -> AccountIds \cup {Nil}] /\ identity \in [Subjects -> AccountIds \cup {Nil}]
        /\ challenge \in [Tokens -> LinkRows] /\ cookie \in [SignInRequests -> Cookies]
    BY RequestTypes DEF SignInIInv, SignInTypes
  <1>3. a \in AccountIds /\ (HasLink(r) \/ c = Nil) /\ (a # r => Known(a)) /\ (a = r => AddressIsKept(r))
    BY <1>1, SignsInTo
  <1>4. row \in AccountRows /\ row # Nil
    BY <1>1, AccountWritten, SignInConstants
  <1>5. /\ a = r => row.email = NewAddress(r) /\ row.failures = 0
        /\ a # r => row.email = account[a].email /\ row.failures \in {0, account[a].failures}
    BY <1>1, AccountWritten
  <1>6. /\ work[r].pc \in {"Commit", "CommitRehash", "CommitClear"}
        /\ account' = [account EXCEPT ![a] = row] /\ guesses' = [guesses EXCEPT ![a] = mine]
        /\ Goes(r, "SignedIn") /\ GiveBack(r)
    BY DEF _sign_in
  <1>7. /\ wallet' \in [Keys -> AccountIds \cup {Nil}] /\ \A k \in Keys : wallet'[k] \in {wallet[k], a}
        /\ identity' \in [Subjects -> AccountIds \cup {Nil}] /\ \A s \in Subjects : identity'[s] \in {identity[s], a}
    BY <1>2, <1>3 DEF _sign_in
  <1>8. /\ challenge' \in [Tokens -> LinkRows]
        /\ \A d \in Tokens : IF d = c THEN challenge'[d] = [challenge[d] EXCEPT !.state = "Used"] ELSE challenge'[d] = challenge[d]
    <2>1. c = Nil => challenge' = challenge /\ c \notin Tokens
      BY SignInConstants DEF _sign_in
    <2>2. c # Nil => challenge' = [challenge EXCEPT ![c] = [challenge[c] EXCEPT !.state = "Used"]]
      BY DEF _sign_in
    <2>3. \A d \in Tokens : [challenge[d] EXCEPT !.state = "Used"] \in LinkRows
      BY <1>2 DEF LinkRows
    <2> QED
      BY <1>2, <2>1, <2>2, <2>3
  <1>9. /\ cookie' \in [SignInRequests -> Cookies]
        /\ \A s \in SignInRequests : (s = r /\ cookie'[s].account = a)
                                     \/ (cookie'[s].account = cookie[s].account /\ (cookie'[s].state = "Live" => cookie[s].state = "Live"))
    <2>1. cookie' = [s \in SignInRequests |-> CASE s = r -> [state |-> "Live", account |-> a]
                                           [] s \in work[r].ends -> [cookie[s] EXCEPT !.state = "Revoked"]
                                           [] OTHER -> cookie[s]]
      BY DEF _sign_in
    <2>2. [state |-> "Live", account |-> a] \in Cookies /\ \A s \in SignInRequests : [cookie[s] EXCEPT !.state = "Revoked"] \in Cookies
      BY <1>2, <1>3 DEF Cookies
    <2> QED
      BY <1>2, <2>1, <2>2 DEF Cookies
  <1>10. \A x \in mine : x \in guesses[a]
    OBVIOUS
  <1> HIDE DEF row, mine
  <1>11. work' = [work EXCEPT ![r].pc = "SignedIn"]
    BY <1>6 DEF Goes
  <1>12. /\ work' \in [SignInRequests -> Work] /\ work'[r].pc = "SignedIn"
         /\ \A s \in SignInRequests \ {r} : work'[s] = work[s]
    <2>1. [work[r] EXCEPT !.pc = "SignedIn"] \in Work
      BY <1>2 DEF Work, Places
    <2> QED
      BY <1>2, <1>11, <2>1
  <1>13. /\ lock' \in [Locked -> SignInRequests \cup {Nil}]
         /\ \A s \in SignInRequests \ {r} : \A x \in Locked : lock[x] = s => lock'[x] = s
    BY <1>2, <1>6 DEF GiveBack
  <1>14. /\ account' \in [AccountIds -> AccountRows \cup {Nil}] /\ account'[a] = row /\ account'[a] # Nil
         /\ \A b \in AccountIds \ {a} : account'[b] = account[b]
    BY <1>2, <1>3, <1>4, <1>6
  <1>15. \A b : Known(b) => Known(b)'
    BY <1>12, <1>14 DEF Known
  <1>16. \A b : b = a => Known(b)'
    BY <1>3, <1>12, <1>14, <1>15 DEF Known
  <1>17. SignInTypes'
    <2>1. mine \in SUBSET SignInRequests
      BY <1>2, <1>3, <1>10
    <2> QED
      BY <1>2, <1>6, <1>7, <1>8, <1>9, <1>12, <1>13, <1>14, <2>1 DEF SignInTypes
  <1>18. AccountInv'
    <2>1. \A s \in SignInRequests : work'[s].pc # "SignedIn" => account'[s] = Nil
      <3> SUFFICES ASSUME NEW s \in SignInRequests, work'[s].pc # "SignedIn"
                   PROVE  account'[s] = Nil
        OBVIOUS
      <3>1. s # r /\ work[s].pc # "SignedIn"
        BY <1>12
      <3>2. s # a
        BY <1>3, <3>1 DEF Known
      <3>3. account[s] = Nil
        BY <3>1 DEF SignInIInv, AccountInv
      <3> QED
        BY <1>14, <3>2, <3>3 DEF AccountIds
    <2>2. \A k \in Keys : wallet'[k] # Nil => Known(wallet[k])'
      BY <1>7, <1>15, <1>16 DEF SignInIInv, AccountInv
    <2>3. \A s \in Subjects : identity'[s] # Nil => Known(identity[s])'
      BY <1>7, <1>15, <1>16 DEF SignInIInv, AccountInv
    <2>4. \A s \in SignInRequests : cookie'[s].state = "Live" => Known(cookie[s].account)'
      BY <1>9, <1>15, <1>16 DEF SignInIInv, AccountInv
    <2> QED
      BY <2>1, <2>2, <2>3, <2>4 DEF AccountInv
  <1>19. ChallengeInv'
    <2>1. \A d \in Tokens : challenge'[d].kind = challenge[d].kind /\ challenge'[d].email = challenge[d].email
                /\ challenge'[d].account = challenge[d].account /\ (challenge'[d].state = "None" => challenge[d].state = "None")
      BY <1>2, <1>8 DEF LinkRows
    <2> QED
      BY <1>15, <2>1 DEF SignInIInv, ChallengeInv
  <1>20. c # Nil => c \in Tokens /\ lock[c] = r /\ challenge[c].state \in {"Open", "Expired"} /\ challenge'[c].state = "Used"
    BY <1>2, <1>3, <1>8 DEF SignInIInv, LinkOK, LinkRows
  <1>21. LinkOK(r)' /\ WorkOK(r)'
    BY <1>12, <1>20 DEF LinkOK, HasLink, InProgress, WorkOK
  <1>22. \A s \in SignInRequests \ {r} : KeepsLink(s)
    <2> SUFFICES ASSUME NEW s \in SignInRequests \ {r}, HasLink(s) \/ work[s].pc = "SignedIn", Ask[s].link # Nil
                 PROVE  challenge'[Ask[s].link] = challenge[Ask[s].link]
      BY DEF KeepsLink
    <2>1. Ask[s].link \in Tokens /\ LinkOK(s)
      BY RequestTypes DEF SignInIInv
    <2>2. Ask[s].link # c
      BY <1>20, <2>1 DEF LinkOK
    <2> QED
      BY <1>8, <2>1, <2>2
  <1>23. \A e \in Emails : \/ find_by_email(e)' \subseteq find_by_email(e)
                           \/ a = r /\ lock[e] = r /\ find_by_email(e)' \subseteq {r}
    <2> SUFFICES ASSUME NEW e \in Emails
                 PROVE  \/ find_by_email(e)' \subseteq find_by_email(e)
                        \/ a = r /\ lock[e] = r /\ find_by_email(e)' \subseteq {r}
      OBVIOUS
    <2>1. CASE a # r
      BY <1>3, <1>5, <1>14, <2>1 DEF find_by_email, Known
    <2>2. CASE a = r /\ e # NewAddress(r)
      BY <1>5, <1>14, <2>2 DEF find_by_email
    <2>3. CASE a = r /\ e = NewAddress(r)
      BY <1>3, <1>14, <2>3 DEF find_by_email, AddressIsKept
    <2> QED
      BY <2>1, <2>2, <2>3
  <1>24. \A s \in SignInRequests \ {r} : \A e \in Emails : lock[e] = s /\ find_by_email(e) = {} => find_by_email(e)' = {}
    BY <1>23
  <1>25. \A s \in SignInRequests : LinkOK(s)' /\ WorkOK(s)'
    BY <1>12, <1>13, <1>15, <1>21, <1>22, <1>24, StillRelies DEF SignInIInv
  <1>26. GuessInv'
    <2>1. \A b \in AccountIds : guesses'[b] \subseteq guesses[b]
      BY <1>2, <1>3, <1>6, <1>10
    <2>2. \A b \in AccountIds : \A x \in guesses'[b] : work'[x].pc = "Refused"
      BY <1>2, <1>6, <1>12, <2>1 DEF SignInIInv, GuessInv
    <2>3. \A b \in AccountIds \ {a} : guesses'[b] = guesses[b] /\ account'[b] = account[b]
      BY <1>2, <1>6, <1>14
    <2>4. IsFiniteSet(mine) /\ row.failures = Cardinality(mine) /\ row.failures < Attempts
      <3>1. IsFiniteSet({}) /\ Cardinality({}) = 0 /\ 0 < Attempts
        BY FS_EmptySet, SignInConstants
      <3>2. CASE row.failures = 0
        BY <3>1, <3>2 DEF mine
      <3>3. CASE row.failures # 0
        BY <1>3, <1>5, <3>3 DEF mine, Known, SignInIInv, GuessInv
      <3> QED
        BY <3>2, <3>3
    <2>5. guesses'[a] = mine
      BY <1>2, <1>3, <1>6
    <2> QED
      BY <1>14, <2>2, <2>3, <2>4, <2>5 DEF SignInIInv, GuessInv
  <1>27. AddressInv'
    BY <1>23 DEF SignInIInv, AddressInv
  <1>28. LinkSignsInOnce'
    <2> SUFFICES ASSUME NEW s \in SignInRequests, NEW t \in SignInRequests, work'[s].pc = "SignedIn", work'[t].pc = "SignedIn",
                        Ask[s].link = Ask[t].link, Ask[s].link # Nil
                 PROVE  s = t
      BY DEF LinkSignsInOnce
    <2>1. \A x \in SignInRequests \ {r} : work'[x].pc = "SignedIn" => work[x].pc = "SignedIn" /\ (Ask[x].link # Nil => Ask[x].link # c)
      BY <1>12, <1>20 DEF SignInIInv, LinkOK
    <2> QED
      BY <2>1 DEF SignInIInv, LinkSignsInOnce
  <1> QED
    BY <1>17, <1>18, <1>19, <1>25, <1>26, <1>27, <1>28 DEF SignInIInv
-----------------------------------------------------------------------------
LEMMA SignInStarts ==
  ASSUME SignInInit
  PROVE  SignInIInv
  <1>1. IsFiniteSet({}) /\ Cardinality({}) = 0
    BY FS_EmptySet
  <1>2. NewAccount(OldEmail, FALSE, OldPassword) \in AccountRows
    BY SignInConstants DEF NewAccount, AccountRows
  <1>3. [state |-> "None", kind |-> "None", email |-> Nil, account |-> Nil, key |-> Nil, password |-> Nil, at |-> 0] \in LinkRows
    BY <1>1 DEF LinkRows, LinkKinds
  <1>4. SignInTypes
    BY <1>2, <1>3 DEF SignInInit, SignInTypes, Work, Places, Cookies
  <1>5. AccountInv /\ ChallengeInv
    BY SignInConstants DEF SignInInit, AccountInv, ChallengeInv, AccountIds
  <1>6. \A r \in SignInRequests : LinkOK(r) /\ WorkOK(r)
    BY DEF SignInInit, LinkOK, HasLink, InProgress, WorkOK
  <1>7. GuessInv
    BY <1>1, SignInConstants DEF SignInInit, GuessInv, NewAccount, AccountIds
  <1>8. AddressInv /\ LinkSignsInOnce
    BY DEF SignInInit, AddressInv, find_by_email, LinkSignsInOnce
  <1> QED
    BY <1>4, <1>5, <1>6, <1>7, <1>8 DEF SignInIInv

LEMMA SignInStutters ==
  ASSUME SignInIInv, UNCHANGED signInVars
  PROVE  SignInIInv'
  <1> USE DEF signInVars
  <1>1. \A r \in SignInRequests : LinkOK(r)' /\ WorkOK(r)'
    BY DEF SignInIInv, LinkOK, WorkOK, HasLink, InProgress, Known, Creates, AddressIsKept, NewAddress, find_by_email
  <1>2. SignInTypes' /\ AccountInv' /\ ChallengeInv'
    BY DEF SignInIInv, SignInTypes, AccountInv, ChallengeInv, Known
  <1>3. GuessInv' /\ AddressInv' /\ LinkSignsInOnce'
    BY DEF SignInIInv, GuessInv, AddressInv, find_by_email, LinkSignsInOnce
  <1> QED
    BY <1>1, <1>2, <1>3 DEF SignInIInv

LEMMA SignInKeeps ==
  ASSUME SignInIInv, [SignInNext]_signInVars
  PROVE  SignInIInv'
  <1>1. CASE UNCHANGED signInVars
    BY <1>1, SignInStutters
  <1>2. ASSUME NEW c \in Tokens, NEW e \in Emails, request_email_link(c, e) \/ request_password_reset(c, e)
        PROVE  SignInIInv'
    BY <1>2, EmailChallengeSteps
  <1>3. ASSUME NEW c \in Tokens, NEW e \in Emails, NEW p \in Passwords, register_password(c, e, p)
        PROVE  SignInIInv'
    BY <1>3, RegisterStep
  <1>4. ASSUME NEW c \in Tokens, NEW k \in Keys, wallet_challenge(c, k)
        PROVE  SignInIInv'
    BY <1>4, WalletChallengeStep
  <1>5. ASSUME NEW c \in Tokens, LinkExpires(c)
        PROVE  SignInIInv'
    BY <1>5, LinkExpiresStep
  <1>6. ASSUME NEW r \in SignInRequests, SignInStep(r)
        PROVE  SignInIInv'
    BY <1>6, LinkSteps, VerifyWalletStep, FindSteps, MarkVerifiedStep, CreateStep, PasswordLoginStep, FailureStep,
       PasswordIsRightStep, SetPasswordStep, RevokeCookiesStep, SignInStepKeeps DEF SignInStep
  <1>7. ASSUME NEW r \in SignInRequests, logout(r)
        PROVE  SignInIInv'
    BY <1>7, LogoutStep
  <1>8. ASSUME NEW a \in AccountIds, PauseEnds(a)
        PROVE  SignInIInv'
    BY <1>8, PauseEndsStep
  <1>9. ASSUME NEW r \in SignInRequests, NEW s \in Subjects, NEW e \in Emails, link_google(r, s, e)
        PROVE  SignInIInv'
    BY <1>9, LinkGoogleStep
  <1> QED
    BY <1>1, <1>2, <1>3, <1>4, <1>5, <1>6, <1>7, <1>8, <1>9 DEF SignInNext

\* However requests, links and passwords interleave, what a request knows of its account, what it holds and
\* what the counters say stay true of each other.
THEOREM SignInInductive == SignInSpec => []SignInIInv
  <1> QED
    BY SignInStarts, SignInKeeps, PTL DEF SignInSpec

\* A link signs in once, an address belongs to one account and every wrong guess counts, for any number of
\* requests, links, accounts and attempts (auth.py, accounts.py).
THEOREM SignInsSingle == SignInSpec => []SignInsAreSingle
  <1>1. ASSUME SignInIInv
        PROVE  SignInsAreSingle
    <2>1. OneAccountPerAddress
      <3> SUFFICES ASSUME NEW e \in Emails
                   PROVE  Cardinality(find_by_email(e)) <= 1
        BY DEF OneAccountPerAddress
      <3>1. CASE find_by_email(e) = {}
        BY <3>1, FS_EmptySet
      <3>2. CASE find_by_email(e) # {}
        <4>1. PICK a \in find_by_email(e) : TRUE
          BY <3>2
        <4>2. find_by_email(e) = {a}
          BY <1>1, <4>1 DEF SignInIInv, AddressInv
        <4> QED
          BY <4>2, FS_Singleton
      <3> QED
        BY <3>1, <3>2
    <2>2. LinkSignsInOnce /\ GuessesAreCounted
      BY <1>1 DEF SignInIInv, GuessInv, GuessesAreCounted
    <2> QED
      BY <2>1, <2>2 DEF SignInsAreSingle
  <1> QED
    BY <1>1, SignInInductive, PTL
----------------------------------------------------------------------------
(* The sessions of the command line.                                       *)

Bearers == [state : {"None", "Live", "Revoked"}, holder : Holders \cup {NoHolder}, issued : Nat, expires : Nat, seen : Nat]
Minters == [pc : {"New", "Open", "Minting", "Done"}, attempts : Nat, holder : Holders \cup {NoHolder}, ends : SUBSET Mints,
            alone : BOOLEAN]
Replacers == [open : BOOLEAN, key : Coldkeys \cup {NoKey}, previous : Coldkeys \cup {NoKey}]

CliTypes ==
    /\ day \in Nat
    /\ keyOwner \in [Coldkeys -> Holders \cup {NoHolder}]
    /\ designated \in [Holders -> Coldkeys \cup {NoKey}]
    /\ bearer \in [Mints -> Bearers]
    /\ mint \in [Mints -> Minters]
    /\ replacing \in [Holders -> Replacers]

\* However often it is refreshed, a token ends with its maximal age.
AgeInv == \A m \in Mints : bearer[m].expires <= bearer[m].issued + MaxLifetime

\* Whoever is about to designate a coldkey, or to open a token with one, has it linked.
Undertaken ==
    /\ \A h \in Holders : replacing[h].open /\ replacing[h].key # NoKey => keyOwner[replacing[h].key] = h
    /\ \A m \in Mints : mint[m].pc = "Minting" => mint[m].holder \in Holders /\ keyOwner[MintKey[m]] = mint[m].holder
    /\ \A m \in Mints : bearer[m].state = "Live" => bearer[m].holder \in Holders

CliIInv == CliTypes /\ AgeInv /\ Undertaken /\ KeysAreTheHoldersOwn

LEMMA CliStart == CliInit => CliIInv
  BY CliConstants DEF CliInit, CliIInv, CliTypes, AgeInv, Undertaken, KeysAreTheHoldersOwn, Bearers, Minters, Replacers,
     NoBearer, NoReplacing

\* What a step may do to the links, the tokens, the sign-ins and the designations.
LEMMA CliKeeps ==
  ASSUME CliIInv, CliTypes',
         \A k \in Coldkeys : keyOwner[k] # NoHolder => keyOwner'[k] = keyOwner[k],
         \A m \in Mints : bearer'[m].expires <= bearer'[m].issued + MaxLifetime,
         \A m \in Mints : bearer'[m].state = "Live" =>
              \/ bearer[m].state = "Live" /\ bearer'[m].holder = bearer[m].holder
              \/ mint[m].pc = "Minting" /\ bearer'[m].holder = mint[m].holder,
         \A m \in Mints : mint'[m].pc = "Minting" =>
              \/ mint[m].pc = "Minting" /\ mint'[m].holder = mint[m].holder
              \/ mint'[m].holder \in Holders /\ keyOwner[MintKey[m]] = mint'[m].holder,
         \A h \in Holders : replacing'[h].open /\ replacing'[h].key # NoKey =>
              \/ replacing[h].open /\ replacing'[h].key = replacing[h].key
              \/ keyOwner[replacing'[h].key] = h,
         \A h \in Holders : \/ designated'[h] = designated[h]
                            \/ replacing[h].open /\ designated'[h] = replacing[h].key
  PROVE  CliIInv'
  <1>1. MintKey \in [Mints -> Coldkeys] /\ NoHolder \notin Holders /\ NoKey \notin Coldkeys
    BY CliConstants
  <1>2. \A k \in Coldkeys, h \in Holders : keyOwner[k] = h => keyOwner'[k] = h
    BY <1>1
  <1>3. AgeInv'
    BY DEF AgeInv
  <1>4. Undertaken'
    <2>1. ASSUME NEW h \in Holders, replacing'[h].open, replacing'[h].key # NoKey
          PROVE  keyOwner'[replacing'[h].key] = h
      <3>1. replacing'[h].key \in Coldkeys
        BY <2>1 DEF CliTypes, Replacers
      <3>2. keyOwner[replacing'[h].key] = h
        BY <2>1 DEF CliIInv, Undertaken
      <3> QED
        BY <1>2, <3>1, <3>2
    <2>2. ASSUME NEW m \in Mints, mint'[m].pc = "Minting"
          PROVE  mint'[m].holder \in Holders /\ keyOwner'[MintKey[m]] = mint'[m].holder
      BY <1>1, <1>2, <2>2 DEF CliIInv, Undertaken
    <2>3. ASSUME NEW m \in Mints, bearer'[m].state = "Live"
          PROVE  bearer'[m].holder \in Holders
      BY <2>3 DEF CliIInv, Undertaken
    <2> QED
      BY <2>1, <2>2, <2>3 DEF Undertaken
  <1>5. KeysAreTheHoldersOwn'
    <2>1. ASSUME NEW h \in Holders, designated'[h] # NoKey
          PROVE  keyOwner'[designated'[h]] = h
      <3>1. designated'[h] \in Coldkeys
        BY <2>1 DEF CliTypes
      <3>2. keyOwner[designated'[h]] = h
        BY <2>1 DEF CliIInv, Undertaken, KeysAreTheHoldersOwn
      <3> QED
        BY <1>2, <3>1, <3>2
    <2>2. ASSUME NEW m \in Mints, bearer'[m].state = "Live"
          PROVE  keyOwner'[MintKey[m]] = bearer'[m].holder
      <3>1. bearer'[m].holder \in Holders /\ keyOwner[MintKey[m]] = bearer'[m].holder
        BY <2>2 DEF CliIInv, Undertaken, KeysAreTheHoldersOwn
      <3> QED
        BY <1>1, <1>2, <3>1
    <2> QED
      BY <2>1, <2>2 DEF KeysAreTheHoldersOwn
  <1> QED
    BY <1>3, <1>4, <1>5 DEF CliIInv

\* Tokens that end keep what they were.
LEMMA RevokedAre ==
  ASSUME CliTypes, NEW S \in SUBSET Mints
  PROVE  /\ Revoked(S) \in [Mints -> Bearers]
         /\ \A m \in Mints : /\ Revoked(S)[m].issued = bearer[m].issued /\ Revoked(S)[m].expires = bearer[m].expires
                             /\ Revoked(S)[m].holder = bearer[m].holder
                             /\ Revoked(S)[m].state = "Live" => bearer[m].state = "Live"
  BY DEF CliTypes, Bearers, Revoked

LEMMA NotAlone ==
  ASSUME NEW r \in Minters
  PROVE  /\ [r EXCEPT !.alone = FALSE] \in Minters
         /\ [r EXCEPT !.alone = FALSE].pc = r.pc /\ [r EXCEPT !.alone = FALSE].holder = r.holder
  BY DEF Minters

LEMMA CliStep ==
  ASSUME CliIInv, [CliNext]_cliVars
  PROVE  CliIInv'
  <1>0. CliTypes /\ AgeInv
    BY DEF CliIInv
  <1>1. /\ MintKey \in [Mints -> Coldkeys] /\ NoHolder \notin Holders /\ NoKey \notin Coldkeys
        /\ LinkKey \in [LinkRequests -> Coldkeys] /\ LinkFor \in [LinkRequests -> Holders]
        /\ Lifetime \in Nat /\ MaxLifetime \in Nat /\ Lifetime <= MaxLifetime
    BY CliConstants
  <1>2. CASE UNCHANGED <<keyOwner, designated, bearer, mint, replacing>> /\ day' \in Nat
    <2>1. CliTypes'
      BY <1>0, <1>2 DEF CliTypes
    <2> QED
      BY <1>0, <1>2, <2>1, CliKeeps DEF AgeInv
  <1>3. ASSUME NEW q \in LinkRequests, link_coldkey(q)
        PROVE  CliIInv'
    <2>1. CliTypes' /\ \A k \in Coldkeys : keyOwner[k] # NoHolder => keyOwner'[k] = keyOwner[k]
      BY <1>0, <1>1, <1>3 DEF CliTypes, link_coldkey, link_wallet
    <2>2. UNCHANGED <<designated, bearer, mint, replacing>>
      BY <1>3 DEF link_coldkey
    <2> QED
      BY <1>0, <2>1, <2>2, CliKeeps DEF AgeInv
  <1>4. ASSUME NEW h \in Holders, NEW k \in Coldkeys \cup {NoKey}, BeginReplacing(h, k)
        PROVE  CliIInv'
    <2>1. UNCHANGED <<day, keyOwner, designated, bearer, mint>>
      BY <1>4 DEF BeginReplacing
    <2>2. /\ replacing' \in [Holders -> Replacers]
          /\ \A g \in Holders : replacing'[g] = replacing[g] \/ (g = h /\ replacing'[g].key = k)
      BY <1>0, <1>4 DEF BeginReplacing, CliTypes, Replacers
    <2>3. k # NoKey => keyOwner[k] = h
      BY <1>4 DEF BeginReplacing
    <2>4. CliTypes'
      BY <1>0, <2>1, <2>2 DEF CliTypes
    <2> QED
      BY <1>0, <2>1, <2>2, <2>3, <2>4, CliKeeps DEF AgeInv
  <1>5. ASSUME NEW h \in Holders, put_submission_coldkey(h)
        PROVE  CliIInv'
    <2> DEFINE S == revoke_sessions_for_coldkey(replacing[h].previous)
    <2>1. UNCHANGED <<day, keyOwner, mint>> /\ replacing[h].open /\ (bearer' = Revoked(S) \/ bearer' = bearer)
      BY <1>5 DEF put_submission_coldkey
    <2>2. S \in SUBSET Mints
      BY DEF revoke_sessions_for_coldkey
    <2> HIDE DEF S
    <2>3. /\ bearer' \in [Mints -> Bearers]
          /\ \A m \in Mints : /\ bearer'[m].issued = bearer[m].issued /\ bearer'[m].expires = bearer[m].expires
                              /\ bearer'[m].holder = bearer[m].holder
                              /\ bearer'[m].state = "Live" => bearer[m].state = "Live"
      <3>1. CASE bearer' = bearer
        BY <1>0, <3>1 DEF CliTypes
      <3>2. CASE bearer' = Revoked(S)
        BY <1>0, <2>2, <3>2, RevokedAre
      <3> QED
        BY <2>1, <3>1, <3>2
    <2>4. /\ designated' \in [Holders -> Coldkeys \cup {NoKey}] /\ replacing' \in [Holders -> Replacers]
          /\ \A g \in Holders : designated'[g] = designated[g] \/ (g = h /\ designated'[g] = replacing[h].key)
          /\ \A g \in Holders : replacing'[g] = replacing[g] \/ ~replacing'[g].open
      BY <1>0, <1>5 DEF put_submission_coldkey, CliTypes, Replacers, NoReplacing
    <2>5. CliTypes'
      BY <1>0, <2>1, <2>3, <2>4 DEF CliTypes
    <2> QED
      BY <1>0, <2>1, <2>3, <2>4, <2>5, CliKeeps DEF AgeInv
  <1>6. ASSUME NEW m \in Mints, cli_challenge(m) \/ cli_badly_signed(m)
        PROVE  CliIInv'
    <2>1. UNCHANGED <<day, keyOwner, designated, bearer, replacing>>
      BY <1>6 DEF cli_challenge, cli_badly_signed
    <2>2. mint' \in [Mints -> Minters] /\ \A n \in Mints : mint'[n].pc = "Minting" => mint'[n] = mint[n]
      <3>1. CASE cli_challenge(m)
        BY <1>0, <3>1 DEF cli_challenge, CliTypes, Minters
      <3>2. CASE cli_badly_signed(m)
        <4>1. mint[m] \in Minters /\ mint[m].attempts \in Nat /\ mint[m].pc = "Open"
          BY <1>0, <3>2 DEF cli_badly_signed, open_challenge_by_nonce, CliTypes, Minters
        <4> DEFINE d == [mint[m] EXCEPT !.attempts = @ + 1]
        <4>2. d \in Minters /\ d.pc = "Open"
          BY <4>1 DEF Minters
        <4>3. mint' = [mint EXCEPT ![m] = d]
          BY <1>0, <3>2 DEF cli_badly_signed, CliTypes
        <4> HIDE DEF d
        <4> QED
          BY <1>0, <4>2, <4>3 DEF CliTypes
      <3> QED
        BY <1>6, <3>1, <3>2
    <2>3. CliTypes'
      BY <1>0, <2>1, <2>2 DEF CliTypes
    <2> QED
      BY <1>0, <2>1, <2>2, <2>3, CliKeeps DEF AgeInv
  <1>7. ASSUME NEW m \in Mints, BeginMinting(m)
        PROVE  CliIInv'
    <2> DEFINE h == keyOwner[MintKey[m]]
    <2>1. UNCHANGED <<day, keyOwner, designated, bearer, replacing>> /\ h \in Holders
      BY <1>0, <1>1, <1>7 DEF BeginMinting, CliTypes
    <2>2. PICK ends \in SUBSET Mints :
            mint' = [n \in Mints |->
                  CASE n = m -> [pc |-> "Minting", attempts |-> mint[m].attempts, holder |-> h, ends |-> ends,
                                 alone |-> OpenMints(h) = {}]
                    [] n \in OpenMints(h) -> [mint[n] EXCEPT !.alone = FALSE]
                    [] OTHER -> mint[n]]
      BY <1>7 DEF BeginMinting, _evict_surplus_cli_sessions
    <2> DEFINE o == OpenMints(h)
               alone == o = {}
               d == [pc |-> "Minting", attempts |-> mint[m].attempts, holder |-> h, ends |-> ends, alone |-> alone]
               f(n) == [mint[n] EXCEPT !.alone = FALSE]
    <2>3. d \in Minters /\ d.holder = h
      <3>1. alone \in BOOLEAN
        OBVIOUS
      <3> HIDE DEF alone, h
      <3>2. mint[m].attempts \in Nat /\ h \in Holders
        BY <1>0, <2>1 DEF CliTypes, Minters, h
      <3> QED
        BY <3>1, <3>2 DEF Minters
    <2>4. /\ mint' \in [Mints -> Minters]
          /\ \A n \in Mints : n # m => mint'[n].pc = mint[n].pc /\ mint'[n].holder = mint[n].holder
          /\ mint'[m].holder = h
      <3>1. \A n \in Mints : mint[n] \in Minters
        BY <1>0 DEF CliTypes
      <3>2. \A n \in Mints : f(n) \in Minters /\ f(n).pc = mint[n].pc /\ f(n).holder = mint[n].holder
        BY <3>1, NotAlone
      <3>3. m \notin o /\ mint' = [n \in Mints |-> CASE n = m -> d [] n \in o -> f(n) [] OTHER -> mint[n]]
        BY <1>7, <2>2 DEF BeginMinting, open_challenge_by_nonce, OpenMints
      <3> HIDE DEF d, o, h, f
      <3>4. /\ DOMAIN mint' = Mints /\ mint' = [n \in Mints |-> mint'[n]]
            /\ \A n \in Mints : mint'[n] = IF n = m THEN d ELSE IF n \in o THEN f(n) ELSE mint[n]
        BY ONLY <3>3
      <3>5. \A n \in Mints : mint'[n] \in Minters
        BY <2>3, <3>1, <3>2, <3>4
      <3>6. mint' \in [Mints -> Minters]
        BY ONLY <3>4, <3>5
      <3> QED
        BY <2>3, <3>2, <3>4, <3>6
    <2>5. CliTypes'
      BY <1>0, <2>1, <2>4 DEF CliTypes
    <2> QED
      BY <1>0, <2>1, <2>4, <2>5, CliKeeps DEF AgeInv
  <1>8. ASSUME NEW m \in Mints, cli_verify(m)
        PROVE  CliIInv'
    <2> DEFINE R == Revoked(mint[m].ends)
               b == [state |-> "Live", holder |-> mint[m].holder, issued |-> day, expires |-> day + Lifetime, seen |-> day]
    <2>1. UNCHANGED <<day, keyOwner, designated, replacing>> /\ bearer' = [R EXCEPT ![m] = b] /\ mint[m].pc = "Minting"
      BY <1>8 DEF cli_verify
    <2>2. mint[m].ends \in SUBSET Mints
      BY <1>0 DEF CliTypes, Minters
    <2>3. /\ R \in [Mints -> Bearers]
          /\ \A n \in Mints : /\ R[n].issued = bearer[n].issued /\ R[n].expires = bearer[n].expires
                              /\ R[n].holder = bearer[n].holder
                              /\ R[n].state = "Live" => bearer[n].state = "Live"
      BY <1>0, <2>2, RevokedAre
    <2>4. b \in Bearers /\ b.holder = mint[m].holder /\ b.expires <= b.issued + MaxLifetime
      BY <1>0, <1>1 DEF CliTypes, Bearers, Minters
    <2> HIDE DEF R, b
    <2>5. bearer' \in [Mints -> Bearers] /\ \A n \in Mints : bearer'[n] = IF n = m THEN b ELSE R[n]
      BY <2>1, <2>3, <2>4
    <2>6. mint' \in [Mints -> Minters] /\ \A n \in Mints : mint'[n].pc = "Minting" => mint'[n] = mint[n]
      BY <1>0, <1>8 DEF cli_verify, CliTypes, Minters
    <2>7. CliTypes'
      BY <1>0, <2>1, <2>5, <2>6 DEF CliTypes
    <2> QED
      BY <1>0, <2>1, <2>3, <2>4, <2>5, <2>6, <2>7, CliKeeps DEF AgeInv
  <1>9. ASSUME NEW m \in Mints, get_optional_principal(m)
        PROVE  CliIInv'
    <2>1. UNCHANGED <<day, keyOwner, designated, mint, replacing>>
      BY <1>9 DEF get_optional_principal
    <2> DEFINE b == [[bearer[m] EXCEPT !.seen = day] EXCEPT !.expires = refreshed(m)]
    <2>2. bearer' = [bearer EXCEPT ![m] = b]
      BY <1>0, <1>9 DEF get_optional_principal, CliTypes, Bearers
    <2>3. refreshed(m) \in Nat /\ refreshed(m) <= bearer[m].issued + MaxLifetime
      BY <1>0, <1>1 DEF refreshed, Least, CliTypes, Bearers
    <2>4. /\ b \in Bearers /\ b.issued = bearer[m].issued /\ b.expires = refreshed(m) /\ b.holder = bearer[m].holder
          /\ b.state = bearer[m].state
      BY <1>0, <2>3 DEF CliTypes, Bearers
    <2> HIDE DEF b
    <2>5. bearer' \in [Mints -> Bearers] /\ \A n \in Mints : bearer'[n] = IF n = m THEN b ELSE bearer[n]
      BY <1>0, <2>2, <2>4 DEF CliTypes
    <2>6. CliTypes'
      BY <1>0, <2>1, <2>5 DEF CliTypes
    <2> QED
      BY <1>0, <2>1, <2>3, <2>4, <2>5, <2>6, CliKeeps DEF AgeInv
  <1>10. ASSUME NEW S \in SUBSET Mints, bearer' = Revoked(S), UNCHANGED <<day, keyOwner, designated, mint, replacing>>
         PROVE  CliIInv'
    <2>1. /\ bearer' \in [Mints -> Bearers]
          /\ \A n \in Mints : /\ bearer'[n].issued = bearer[n].issued /\ bearer'[n].expires = bearer[n].expires
                              /\ bearer'[n].holder = bearer[n].holder
                              /\ bearer'[n].state = "Live" => bearer[n].state = "Live"
      BY <1>0, <1>10, RevokedAre
    <2>2. CliTypes'
      BY <1>0, <1>10, <2>1 DEF CliTypes
    <2> QED
      BY <1>0, <1>10, <2>1, <2>2, CliKeeps DEF AgeInv
  <1>11. ASSUME NEW m \in Mints, revoke_session(m)
         PROVE  CliIInv'
    BY <1>10, <1>11 DEF revoke_session
  <1>12. ASSUME NEW h \in Holders, NEW spared \in SUBSET Mints, RevokeAll(h, spared)
         PROVE  CliIInv'
    BY <1>10, <1>12 DEF RevokeAll
  <1>13. CASE UNCHANGED cliVars
    BY <1>0, <1>2, <1>13 DEF cliVars, CliTypes
  <1>14. CASE Tomorrow
    BY <1>0, <1>2, <1>14 DEF Tomorrow, CliTypes
  <1>15. ASSUME NEW q \in LinkRequests, coldkey_challenge(q) \/ link_badly_signed(q)
         PROVE  CliIInv'
    BY <1>0, <1>2, <1>15 DEF coldkey_challenge, link_badly_signed, CliTypes
  <1> QED
    BY <1>3, <1>4, <1>5, <1>6, <1>7, <1>8, <1>9, <1>11, <1>12, <1>13, <1>14, <1>15 DEF CliNext

LEMMA CliIsSafe ==
  ASSUME CliIInv
  PROVE  TokensDieOfAge /\ KeysAreTheHoldersOwn
  <1>1. \A m \in Mints : bearer[m].expires \in Nat /\ bearer[m].issued \in Nat /\ bearer[m].expires <= bearer[m].issued + MaxLifetime
    BY DEF CliIInv, CliTypes, AgeInv, Bearers
  <1> QED
    BY <1>1, CliConstants DEF CliIInv, CliTypes, TokensDieOfAge, Live

----------------------------------------------------------------------------
(* The signed-in browser.                                                  *)

AnyToken == 0 .. MaxTokens
SessionRecords == [issued : BOOLEAN, revoked : BOOLEAN, until : Nat, seen : Nat]
Requests == [at : {"sent", "resolved", "authenticated"}, kind : {"browse", "account", "login", "logout"},
              page : {"site", "foreign"}, says : {"allowed", "refused", "unproven"}, cookie : AnyToken, since : Nat]
Answered == [at : {"answered"}, ok : BOOLEAN, sets : SUBSET AnyToken, cookie : AnyToken, page : {"site", "foreign"},
             proves : SUBSET CookieTokens, served : Nat]

BrowserTypes ==
    /\ jar \in [token : AnyToken, until : Nat]
    /\ sessionRows \in [CookieTokens -> SessionRecords]
    /\ flight \in [Tabs -> {NoFlight} \cup Requests \cup Answered]
    /\ today \in Nat /\ used \in [CookieTokens -> Nat]

\* A token that somebody holds.
Handed(t) == t = NoToken \/ sessionRows[t].issued

\* A session lasts a lifetime from when it was last extended, and it was extended when it was used, but for the slack.
SessionRowsInv == \A t \in CookieTokens :
    /\ used[t] <= today
    /\ sessionRows[t].issued => /\ sessionRows[t].seen <= today
                                /\ sessionRows[t].until = sessionRows[t].seen + SessionLifetime
                                /\ used[t] <= sessionRows[t].seen + RefreshAfter

\* A cookie outlasts the last use that an answer told the browser of.
JarInv == Handed(jar.token) /\ (jar.token # NoToken => used[jar.token] + SessionLifetime <= jar.until)

\* What was served on a day is served by a session that was extended by then.
Serves(t, on) == on <= today /\ on <= sessionRows[t].seen + RefreshAfter

\* An answer that proves a session sets its cookie, by the route or by the middleware.
FlightInv(f) ==
    /\ f # NoFlight => Handed(f.cookie)
    /\ f.at \in {"resolved", "authenticated"} => f.cookie # NoToken
    /\ f.at = "authenticated" => Serves(f.cookie, f.since)
    /\ f.at = "answered" => /\ \A t \in f.proves : sessionRows[t].issued /\ Serves(t, f.served)
                            /\ \A t \in f.sets : Handed(t)
                            /\ \E t \in AnyToken : f.sets \subseteq {t}
                            /\ f.proves # {} => send_with_refresh(f) = f.proves

BrowserIInv == BrowserTypes /\ SessionRowsInv /\ JarInv /\ \A r \in Tabs : FlightInv(flight[r])

\* The greater of two numbers.
LEMMA GreaterOfTwo ==
  ASSUME NEW x \in Nat, NEW y \in Nat
  PROVE  Max({x, y}) \in {x, y} /\ x <= Max({x, y}) /\ y <= Max({x, y})
  <1>1. \E m \in {x, y} : \A k \in {x, y} : m >= k
    OBVIOUS
  <1> QED
    BY <1>1 DEF Max

LEMMA BrowserStart == BrowserInit => BrowserIInv
  <1> SUFFICES ASSUME BrowserInit PROVE BrowserIInv
    OBVIOUS
  <1>1. BrowserTypes
    BY BrowserBounds DEF BrowserInit, BrowserTypes, AnyToken, SessionRecords, Unissued, NoToken, CookieTokens
  <1>2. SessionRowsInv
    BY DEF BrowserInit, SessionRowsInv, Unissued
  <1>3. JarInv
    BY DEF BrowserInit, JarInv, Handed
  <1>4. \A r \in Tabs : FlightInv(flight[r])
    BY DEF BrowserInit, FlightInv, NoFlight
  <1> QED
    BY <1>1, <1>2, <1>3, <1>4 DEF BrowserIInv

\* Sessions are issued once, and what extends one is its use.
RowsGoOn ==
    \A t \in CookieTokens : sessionRows[t].issued => sessionRows'[t].issued /\ sessionRows[t].seen <= sessionRows'[t].seen

LEMMA FlightKept ==
  ASSUME BrowserTypes, BrowserTypes', RowsGoOn, today <= today', NEW r \in Tabs, FlightInv(flight[r]), flight'[r] = flight[r]
  PROVE  FlightInv(flight[r])'
  <1>0. MaxTokens \in Nat /\ RefreshAfter \in Nat
    BY BrowserBounds
  <1>1. /\ flight[r] \in {NoFlight} \cup Requests \cup Answered
        /\ today \in Nat /\ today' \in Nat
        /\ \A t \in CookieTokens : sessionRows[t].seen \in Nat /\ sessionRows'[t].seen \in Nat
        /\ RefreshAfter \in Nat /\ AnyToken = CookieTokens \cup {NoToken}
    <2>1. AnyToken = CookieTokens \cup {NoToken}
      BY <1>0 DEF AnyToken, NoToken, CookieTokens
    <2> QED
      BY <1>0, <2>1 DEF BrowserTypes, SessionRecords
  <1>2. \A t \in AnyToken : Handed(t) => Handed(t)'
    BY <1>1 DEF Handed, RowsGoOn
  <1>3. \A t \in CookieTokens, on \in Nat : sessionRows[t].issued /\ Serves(t, on) => Serves(t, on)'
    BY <1>1 DEF Serves, RowsGoOn
  <1>4. CASE flight[r] = NoFlight
    BY <1>4 DEF FlightInv, NoFlight
  <1>5. CASE flight[r] \in Requests
    <2>1. flight[r].cookie \in AnyToken /\ flight[r].since \in Nat /\ flight[r] # NoFlight /\ flight[r].at # "answered"
      BY <1>5 DEF Requests, NoFlight
    <2>2. flight[r].cookie # NoToken /\ Handed(flight[r].cookie) => flight[r].cookie \in CookieTokens
                                                                    /\ sessionRows[flight[r].cookie].issued
      BY <1>1, <2>1 DEF Handed
    <2> QED
      BY <1>2, <1>3, <2>1, <2>2 DEF FlightInv
  <1>6. CASE flight[r] \in Answered
    <2>1. /\ flight[r].cookie \in AnyToken /\ flight[r].served \in Nat /\ flight[r] # NoFlight /\ flight[r].at = "answered"
          /\ flight[r].sets \in SUBSET AnyToken /\ flight[r].proves \in SUBSET CookieTokens
      BY <1>6 DEF Answered, NoFlight
    <2> QED
      BY <1>2, <1>3, <2>1 DEF FlightInv, RowsGoOn, send_with_refresh
  <1> QED
    BY <1>1, <1>4, <1>5, <1>6

\* A step of one tab.
LEMMA OneTabMoves ==
  ASSUME BrowserIInv, BrowserTypes', SessionRowsInv', JarInv', RowsGoOn, today <= today', NEW r \in Tabs,
         \A q \in Tabs : q # r => flight'[q] = flight[q], FlightInv(flight[r])'
  PROVE  BrowserIInv'
  <1>1. ASSUME NEW q \in Tabs PROVE FlightInv(flight[q])'
    <2>1. CASE q = r
      BY <2>1
    <2>2. CASE q # r
      BY <2>2, FlightKept DEF BrowserIInv
    <2> QED
      BY <2>1, <2>2
  <1> QED
    BY <1>1 DEF BrowserIInv

\* A step of one tab that leaves the sessions and the cookie alone.
LEMMA OnlyATab ==
  ASSUME BrowserIInv, NEW r \in Tabs, NEW f, flight' = [flight EXCEPT ![r] = f],
         f \in {NoFlight} \cup Requests \cup Answered, UNCHANGED <<jar, sessionRows, today, used>>,
         FlightInv(f)
  PROVE  BrowserIInv'
  <1>1. /\ \A q \in Tabs : q # r => flight'[q] = flight[q]
        /\ flight'[r] = f /\ flight' \in [Tabs -> {NoFlight} \cup Requests \cup Answered]
    BY DEF BrowserIInv, BrowserTypes
  <1>2. BrowserTypes'
    BY <1>1 DEF BrowserIInv, BrowserTypes
  <1>3. SessionRowsInv' /\ JarInv'
    BY DEF BrowserIInv, SessionRowsInv, JarInv, Handed
  <1>4. RowsGoOn /\ today <= today'
    BY DEF BrowserIInv, BrowserTypes, RowsGoOn, SessionRecords
  <1>5. FlightInv(flight[r])'
    BY <1>1 DEF FlightInv, Handed, Serves
  <1> QED
    BY <1>1, <1>2, <1>3, <1>4, <1>5, OneTabMoves

LEMMA BrowserFacts ==
  ASSUME BrowserIInv, NEW r \in Tabs
  PROVE  /\ today \in Nat /\ RefreshAfter \in Nat /\ SessionLifetime \in Nat /\ RefreshAfter < SessionLifetime
         /\ NoToken \in AnyToken /\ AnyToken = CookieTokens \cup {NoToken} /\ NoToken \notin CookieTokens
         /\ jar.token \in AnyToken /\ jar.until \in Nat
         /\ \A t \in CookieTokens : /\ sessionRows[t] \in SessionRecords /\ sessionRows[t].seen \in Nat
                                    /\ sessionRows[t].until \in Nat /\ used[t] \in Nat
         /\ flight[r].at \in {"sent", "resolved", "authenticated"} =>
               flight[r] \in Requests /\ flight[r] # NoFlight /\ flight[r].cookie \in AnyToken /\ flight[r].since \in Nat
         /\ flight[r].at = "answered" => flight[r] \in Answered /\ flight[r] # NoFlight
         /\ FlightInv(flight[r])
  <1>1. MaxTokens \in Nat
    BY BrowserBounds
  <1>2. NoToken \in AnyToken /\ AnyToken = CookieTokens \cup {NoToken} /\ NoToken \notin CookieTokens
    BY <1>1 DEF NoToken, AnyToken, CookieTokens
  <1>3. flight[r] \in {NoFlight} \cup Requests \cup Answered
    BY DEF BrowserIInv, BrowserTypes
  <1>4. /\ flight[r].at \in {"sent", "resolved", "authenticated"} =>
               flight[r] \in Requests /\ flight[r] # NoFlight /\ flight[r].cookie \in AnyToken /\ flight[r].since \in Nat
        /\ flight[r].at = "answered" => flight[r] \in Answered /\ flight[r] # NoFlight
    BY <1>3 DEF Requests, Answered, NoFlight
  <1> QED
    BY <1>2, <1>4, BrowserBounds DEF BrowserIInv, BrowserTypes, SessionRecords

\* An answer that proves no session: whatever it sets is one token that is somebody's or none.
LEMMA PlainAnswer ==
  ASSUME BrowserIInv, NEW r \in Tabs, flight[r].at \in {"sent", "authenticated"}, NEW ok \in BOOLEAN,
         PageAnswers(r, ok, {}, {}, 0), UNCHANGED <<jar, sessionRows, today, used>>
  PROVE  BrowserIInv'
  <1> DEFINE f == [at |-> "answered", ok |-> ok, sets |-> {}, cookie |-> flight[r].cookie,
                   page |-> flight[r].page, proves |-> {}, served |-> 0]
  <1>1. flight[r] \in Requests /\ flight[r] # NoFlight /\ flight[r].cookie \in AnyToken /\ FlightInv(flight[r])
    BY BrowserFacts
  <1>2. flight[r].page \in {"site", "foreign"}
    BY <1>1 DEF Requests
  <1>3. f \in Answered
    BY <1>1, <1>2 DEF Answered
  <1>4. FlightInv(f)
    BY <1>1 DEF FlightInv
  <1>5. flight' = [flight EXCEPT ![r] = f]
    BY DEF PageAnswers
  <1> HIDE DEF f
  <1> QED
    BY <1>3, <1>4, <1>5, OnlyATab

LEMMA SendStep ==
  ASSUME BrowserIInv, NEW r \in Tabs, send(r)
  PROVE  BrowserIInv'
  <1>1. PICK kind \in {"browse", "account", "login", "logout"}, page \in {"site", "foreign"} :
          \E h \in IF kind = "logout" THEN CookieHeaders(page) ELSE {<<"none", "same-origin">>} :
              flight' = [flight EXCEPT ![r] =
                  [at |-> "sent", kind |-> kind, page |-> page, says |-> classify(h), cookie |-> _cookie_value, since |-> 0]]
    BY DEF send
  <1>2. PICK h \in IF kind = "logout" THEN CookieHeaders(page) ELSE {<<"none", "same-origin">>} :
          flight' = [flight EXCEPT ![r] =
                  [at |-> "sent", kind |-> kind, page |-> page, says |-> classify(h), cookie |-> _cookie_value, since |-> 0]]
    BY <1>1
  <1>3. classify(h) \in {"allowed", "refused", "unproven"}
    BY DEF classify, CookieHeaders
  <1> DEFINE says == classify(h)  c == _cookie_value
             f == [at |-> "sent", kind |-> kind, page |-> page, says |-> says, cookie |-> c, since |-> 0]
  <1>4. c \in AnyToken /\ Handed(c)
    BY BrowserFacts DEF _cookie_value, BrowserIInv, JarInv, Handed
  <1>5. flight' = [flight EXCEPT ![r] = f] /\ UNCHANGED <<jar, sessionRows, today, used>>
    BY <1>2 DEF send
  <1> HIDE DEF says, c
  <1>6. f \in Requests /\ f.cookie = c /\ f.at = "sent"
    BY <1>3, <1>4 DEF Requests, says
  <1>7. FlightInv(f)
    BY <1>4, <1>6 DEF FlightInv
  <1> HIDE DEF f
  <1> QED
    BY <1>5, <1>6, <1>7, OnlyATab

LEMMA ResolveStep ==
  ASSUME BrowserIInv, NEW r \in Tabs, resolve_session(r)
  PROVE  BrowserIInv'
  <1>1. CASE Refused(r)
    BY <1>1, PlainAnswer DEF resolve_session, Refused
  <1>2. CASE Lives(flight[r].cookie) /\ flight' = [flight EXCEPT ![r].at = "resolved"]
    <2> DEFINE f == [flight[r] EXCEPT !.at = "resolved"]
    <2>1. flight[r] \in Requests /\ flight[r] # NoFlight /\ flight[r].cookie \in AnyToken /\ FlightInv(flight[r])
      BY BrowserFacts DEF resolve_session
    <2>2. f \in Requests /\ f.at = "resolved" /\ f.cookie = flight[r].cookie
      BY <2>1 DEF Requests
    <2>3. flight[r].cookie # NoToken
      BY <1>2 DEF Lives
    <2>4. flight' = [flight EXCEPT ![r] = f] /\ UNCHANGED <<jar, sessionRows, today, used>>
      BY <1>2 DEF resolve_session, BrowserIInv, BrowserTypes
    <2> HIDE DEF f
    <2>5. FlightInv(f)
      BY <2>1, <2>2, <2>3 DEF FlightInv
    <2> QED
      BY <2>2, <2>4, <2>5, OnlyATab
  <1> QED
    BY <1>1, <1>2 DEF resolve_session

LEMMA AccountPageStep ==
  ASSUME BrowserIInv, NEW r \in Tabs, account_page(r)
  PROVE  BrowserIInv'
  <1> DEFINE c == flight[r].cookie
             f == [at |-> "answered", ok |-> TRUE, sets |-> {}, cookie |-> c,
                   page |-> flight[r].page, proves |-> {c}, served |-> flight[r].since]
  <1>1. /\ flight[r] \in Requests /\ flight[r] # NoFlight /\ c \in CookieTokens /\ c # NoToken /\ c \in AnyToken
        /\ flight[r].since \in Nat /\ FlightInv(flight[r])
    BY BrowserFacts DEF account_page, FlightInv
  <1>2. flight[r].page \in {"site", "foreign"}
    BY <1>1 DEF Requests
  <1>3. f \in Answered
    BY <1>1, <1>2 DEF Answered
  <1>4. sessionRows[c].issued /\ Serves(c, flight[r].since)
    BY <1>1 DEF FlightInv, Handed, account_page
  <1>5. send_with_refresh(f) = {c}
    BY <1>1 DEF send_with_refresh
  <1>6. FlightInv(f)
    BY <1>1, <1>4, <1>5 DEF FlightInv, Handed
  <1>7. flight' = [flight EXCEPT ![r] = f] /\ UNCHANGED <<jar, sessionRows, today, used>>
    BY DEF account_page, PageAnswers
  <1> HIDE DEF f
  <1> QED
    BY <1>3, <1>6, <1>7, OnlyATab

LEMMA LostStep ==
  ASSUME BrowserIInv, NEW r \in Tabs, lost(r)
  PROVE  BrowserIInv'
  <1>1. FlightInv(NoFlight)
    BY DEF FlightInv, NoFlight
  <1> QED
    BY <1>1, OnlyATab DEF lost

LEMMA RefreshStep ==
  ASSUME BrowserIInv, NEW r \in Tabs, refresh_cookie(r)
  PROVE  BrowserIInv'
  <1> DEFINE c == flight[r].cookie
             since == IF Lives(c) THEN today ELSE 0
             row == [[sessionRows[c] EXCEPT !.seen = today] EXCEPT !.until = today + SessionLifetime]
             f == [[flight[r] EXCEPT !.at = "authenticated"] EXCEPT !.since = since]
  <1>1. /\ flight[r] \in Requests /\ c \in CookieTokens /\ c # NoToken /\ c \in AnyToken
        /\ FlightInv(flight[r]) /\ sessionRows[c].issued
        /\ today \in Nat /\ RefreshAfter \in Nat /\ SessionLifetime \in Nat /\ since \in Nat
        /\ \A t \in CookieTokens : /\ sessionRows[t] \in SessionRecords /\ sessionRows[t].seen \in Nat
                                   /\ sessionRows[t].until \in Nat /\ used[t] \in Nat
    BY BrowserFacts DEF refresh_cookie, FlightInv, Handed
  <1>2. flight' = [flight EXCEPT ![r] = f] /\ UNCHANGED <<jar, today, used>> /\ sessionRows' = touched(c)
    BY DEF refresh_cookie, BrowserIInv, BrowserTypes
  <1> HIDE DEF since
  <1>3. f \in Requests /\ f.at = "authenticated" /\ f.cookie = c /\ f.since = since
    <2> DEFINE g == [flight[r] EXCEPT !.at = "authenticated"]
    <2>1. g \in Requests /\ g.at = "authenticated" /\ g.cookie = c
      BY <1>1 DEF Requests
    <2> HIDE DEF g
    <2>2. [g EXCEPT !.since = since] \in Requests /\ [g EXCEPT !.since = since].at = "authenticated"
          /\ [g EXCEPT !.since = since].cookie = c /\ [g EXCEPT !.since = since].since = since
      BY <1>1, <2>1 DEF Requests
    <2> QED
      BY <2>2 DEF g
  <1>4. /\ row \in SessionRecords /\ row.seen = today /\ row.until = today + SessionLifetime
        /\ row.issued = sessionRows[c].issued
    <2> DEFINE g == [sessionRows[c] EXCEPT !.seen = today]
               n == today + SessionLifetime
               h == [g EXCEPT !.until = n]
    <2>1. g \in SessionRecords /\ g.seen = today /\ g.issued = sessionRows[c].issued
      BY <1>1 DEF SessionRecords
    <2>2. n \in Nat
      BY <1>1
    <2> HIDE DEF g, n
    <2>3. h \in SessionRecords
      BY ONLY <2>1, <2>2 DEF SessionRecords
    <2>4. h.seen = g.seen /\ h.until = n /\ h.issued = g.issued
      BY ONLY <2>1 DEF SessionRecords
    <2> QED
      BY <2>1, <2>3, <2>4 DEF g, n
  <1>5. \/ sessionRows' = sessionRows /\ (Lives(c) => today <= sessionRows[c].seen + RefreshAfter)
        \/ sessionRows' = [sessionRows EXCEPT ![c] = row]
    <2>1. CASE Lives(c) /\ sessionRows[c].seen + RefreshAfter < today
      <3>1. sessionRows' = [sessionRows EXCEPT ![c].seen = today, ![c].until = today + SessionLifetime]
        BY <1>2, <2>1 DEF touched
      <3>2. sessionRows \in [CookieTokens -> SessionRecords]
        BY DEF BrowserIInv, BrowserTypes
      <3> QED
        BY <1>1, <3>1, <3>2
    <2>2. CASE ~(Lives(c) /\ sessionRows[c].seen + RefreshAfter < today)
      <3>1. sessionRows' = sessionRows
        BY <1>2, <2>2 DEF touched
      <3>2. sessionRows[c].seen \in Nat
        BY <1>1
      <3> QED
        BY <1>1, <2>2, <3>1, <3>2
    <2> QED
      BY <2>1, <2>2
  <1> HIDE DEF row, f, c
  <1>6. /\ sessionRows' \in [CookieTokens -> SessionRecords]
        /\ \A t \in CookieTokens : \/ sessionRows'[t] = sessionRows[t] /\ (t = c /\ Lives(c) => today <= sessionRows[c].seen + RefreshAfter)
                                   \/ t = c /\ sessionRows'[t] = row
    BY <1>1, <1>4, <1>5 DEF BrowserIInv, BrowserTypes
  <1>7. /\ flight'[r] = f /\ \A q \in Tabs : q # r => flight'[q] = flight[q]
        /\ flight' \in [Tabs -> {NoFlight} \cup Requests \cup Answered]
    BY <1>2, <1>3 DEF BrowserIInv, BrowserTypes
  <1>8. BrowserTypes'
    BY <1>2, <1>6, <1>7 DEF BrowserIInv, BrowserTypes
  <1>9. RowsGoOn
    <2>1. \A t \in CookieTokens : sessionRows[t].issued => sessionRows[t].seen <= today
      BY DEF BrowserIInv, SessionRowsInv
    <2>2. row.seen = today /\ row.issued = sessionRows[c].issued
      BY <1>4
    <2>3. ASSUME NEW t \in CookieTokens, sessionRows[t].issued
          PROVE  sessionRows'[t].issued /\ sessionRows[t].seen <= sessionRows'[t].seen
      <3>1. CASE sessionRows'[t] = sessionRows[t]
        <4>1. sessionRows[t].seen \in Nat
          BY <1>1
        <4> QED
          BY <2>3, <3>1, <4>1
      <3>2. CASE t = c /\ sessionRows'[t] = row
        BY <2>1, <2>2, <2>3, <3>2
      <3> QED
        BY <1>6, <3>1, <3>2
    <2> QED
      BY <2>3 DEF RowsGoOn
  <1>10. SessionRowsInv'
    BY <1>1, <1>2, <1>4, <1>6 DEF BrowserIInv, SessionRowsInv
  <1>11. JarInv'
    BY <1>1, <1>2, <1>9, BrowserFacts DEF BrowserIInv, JarInv, Handed, RowsGoOn
  <1>12. FlightInv(flight[r])'
    <2>1. since <= today
      BY <1>1 DEF since
    <2>2. since <= sessionRows'[c].seen + RefreshAfter
      BY <1>1, <1>4, <1>6 DEF since
    <2>3. sessionRows'[c].issued
      BY <1>1, <1>9 DEF RowsGoOn
    <2> QED
      BY <1>1, <1>2, <1>3, <1>7, <2>1, <2>2, <2>3 DEF FlightInv, Handed, Serves
  <1> QED
    BY <1>1, <1>2, <1>7, <1>8, <1>9, <1>10, <1>11, <1>12, OneTabMoves

LEMMA BrowserLogoutStep ==
  ASSUME BrowserIInv, NEW r \in Tabs, browser_logout(r)
  PROVE  BrowserIInv'
  <1>1. CASE Refused(r) /\ UNCHANGED sessionRows
    BY <1>1, PlainAnswer DEF browser_logout, Refused
  <1>2. CASE sessionRows' = [sessionRows EXCEPT ![flight[r].cookie].revoked = TRUE] /\ PageAnswers(r, TRUE, {NoToken}, {}, 0)
    <2> DEFINE c == flight[r].cookie
               row == [sessionRows[c] EXCEPT !.revoked = TRUE]
               f == [at |-> "answered", ok |-> TRUE, sets |-> {NoToken}, cookie |-> c,
                     page |-> flight[r].page, proves |-> {}, served |-> 0]
    <2>1. /\ flight[r] \in Requests /\ c \in CookieTokens /\ c # NoToken /\ c \in AnyToken
          /\ FlightInv(flight[r]) /\ sessionRows[c].issued /\ NoToken \in AnyToken /\ today \in Nat
          /\ \A t \in CookieTokens : sessionRows[t] \in SessionRecords /\ sessionRows[t].seen \in Nat
      BY BrowserFacts DEF browser_logout, FlightInv, Handed
    <2>2. flight' = [flight EXCEPT ![r] = f] /\ UNCHANGED <<jar, today, used>> /\ sessionRows' = [sessionRows EXCEPT ![c] = row]
      BY <1>2, <2>1 DEF browser_logout, PageAnswers, BrowserIInv, BrowserTypes
    <2>3. flight[r].page \in {"site", "foreign"}
      BY <2>1 DEF Requests
    <2>4. f \in Answered
      BY <2>1, <2>3 DEF Answered
    <2>5. /\ row \in SessionRecords /\ row.seen = sessionRows[c].seen /\ row.until = sessionRows[c].until
          /\ row.issued = sessionRows[c].issued
      BY <2>1 DEF SessionRecords
    <2> HIDE DEF row
    <2>6. /\ sessionRows' \in [CookieTokens -> SessionRecords]
          /\ \A t \in CookieTokens : /\ sessionRows'[t].seen = sessionRows[t].seen /\ sessionRows'[t].until = sessionRows[t].until
                                     /\ sessionRows'[t].issued = sessionRows[t].issued
      BY <2>1, <2>2, <2>5 DEF BrowserIInv, BrowserTypes
    <2>7. /\ flight'[r] = f /\ \A q \in Tabs : q # r => flight'[q] = flight[q]
          /\ flight' \in [Tabs -> {NoFlight} \cup Requests \cup Answered]
      <3> HIDE DEF f
      <3> QED
        BY <2>2, <2>4 DEF BrowserIInv, BrowserTypes
    <2>8. BrowserTypes'
      BY <2>2, <2>6, <2>7 DEF BrowserIInv, BrowserTypes
    <2>9. RowsGoOn /\ today <= today'
      BY <2>1, <2>2, <2>6 DEF RowsGoOn
    <2>10. SessionRowsInv' /\ JarInv'
      BY <2>2, <2>6, BrowserFacts DEF BrowserIInv, SessionRowsInv, JarInv, Handed
    <2>11. FlightInv(flight[r])'
      BY <2>1, <2>6, <2>7 DEF FlightInv, Handed
    <2> QED
      BY <2>7, <2>8, <2>9, <2>10, <2>11, OneTabMoves
  <1> QED
    BY <1>1, <1>2 DEF browser_logout

LEMMA BrowserSignInStep ==
  ASSUME BrowserIInv, NEW r \in Tabs, browser_sign_in(r)
  PROVE  BrowserIInv'
  <1>1. PICK t \in CookieTokens :
         /\ ~sessionRows[t].issued
         /\ sessionRows' = [u \in CookieTokens |-> IF u = t THEN [issued |-> TRUE, revoked |-> FALSE, until |-> today + SessionLifetime, seen |-> today]
                                      ELSE [sessionRows[u] EXCEPT !.revoked = sessionRows[u].issued]]
         /\ PageAnswers(r, TRUE, {t}, {t}, today)
    BY DEF browser_sign_in
  <1> DEFINE c == flight[r].cookie
             row == [issued |-> TRUE, revoked |-> FALSE, until |-> today + SessionLifetime, seen |-> today]
             f == [at |-> "answered", ok |-> TRUE, sets |-> {t}, cookie |-> c,
                   page |-> flight[r].page, proves |-> {t}, served |-> today]
  <1>2. /\ flight[r] \in Requests /\ c \in AnyToken /\ Handed(c) /\ t \in AnyToken /\ t # NoToken
        /\ today \in Nat /\ SessionLifetime \in Nat /\ RefreshAfter \in Nat
        /\ \A u \in CookieTokens : sessionRows[u] \in SessionRecords /\ sessionRows[u].seen \in Nat /\ used[u] \in Nat
    BY BrowserFacts DEF browser_sign_in, FlightInv
  <1>3. flight' = [flight EXCEPT ![r] = f] /\ UNCHANGED <<jar, today, used>>
    BY <1>1 DEF browser_sign_in, PageAnswers
  <1>4. flight[r].page \in {"site", "foreign"}
    BY <1>2 DEF Requests
  <1>5. f \in Answered
    BY <1>2, <1>4 DEF Answered
  <1>6. row \in SessionRecords
    BY <1>2 DEF SessionRecords
  <1>7. \A u \in CookieTokens :
          LET g == [sessionRows[u] EXCEPT !.revoked = sessionRows[u].issued]
          IN  /\ g \in SessionRecords /\ g.seen = sessionRows[u].seen /\ g.until = sessionRows[u].until
              /\ g.issued = sessionRows[u].issued
    BY <1>2 DEF SessionRecords
  <1>8. /\ sessionRows' \in [CookieTokens -> SessionRecords] /\ sessionRows'[t] = row
        /\ \A u \in CookieTokens : u # t => /\ sessionRows'[u].seen = sessionRows[u].seen /\ sessionRows'[u].until = sessionRows[u].until
                                            /\ sessionRows'[u].issued = sessionRows[u].issued
    <2>1. sessionRows' = [u \in CookieTokens |-> sessionRows'[u]]
          /\ \A u \in CookieTokens : sessionRows'[u] = IF u = t THEN row ELSE [sessionRows[u] EXCEPT !.revoked = sessionRows[u].issued]
      BY <1>1
    <2> HIDE DEF row
    <2> QED
      BY <1>6, <1>7, <2>1
  <1>9. /\ flight'[r] = f /\ \A q \in Tabs : q # r => flight'[q] = flight[q]
        /\ flight' \in [Tabs -> {NoFlight} \cup Requests \cup Answered]
    <2> HIDE DEF f
    <2> QED
      BY <1>3, <1>5 DEF BrowserIInv, BrowserTypes
  <1>10. BrowserTypes'
    BY <1>3, <1>8, <1>9 DEF BrowserIInv, BrowserTypes
  <1>11. RowsGoOn /\ today <= today'
    BY <1>1, <1>2, <1>3, <1>8 DEF RowsGoOn
  <1>12. SessionRowsInv'
    BY <1>2, <1>3, <1>8 DEF BrowserIInv, SessionRowsInv
  <1>13. JarInv'
    <2>1. jar.token # NoToken => jar.token \in CookieTokens
      BY BrowserFacts
    <2> QED
      BY <1>3, <1>11, <2>1 DEF BrowserIInv, JarInv, Handed, RowsGoOn
  <1>14. FlightInv(flight[r])'
    <2>1. sessionRows'[t].issued /\ sessionRows'[t].seen = today
      BY <1>8
    <2>2. c = NoToken \/ sessionRows'[c].issued
      BY <1>2, <1>11, BrowserFacts DEF Handed, RowsGoOn
    <2>3. today <= today' /\ today <= sessionRows'[t].seen + RefreshAfter
      BY <1>2, <1>3, <2>1
    <2>4. send_with_refresh(f) = {t}
      BY DEF send_with_refresh
    <2>5. /\ f # NoFlight /\ f.at = "answered" /\ f.cookie = c /\ f.proves = {t} /\ f.sets = {t} /\ f.served = today
          /\ flight'[r] = f
      BY <1>9 DEF NoFlight
    <2>6. send_with_refresh(flight'[r]) = {t}
      BY <2>4, <2>5
    <2> HIDE DEF f, c
    <2> QED
      BY <1>2, <2>1, <2>2, <2>3, <2>5, <2>6 DEF FlightInv, Handed, Serves, send_with_refresh
  <1> QED
    BY <1>9, <1>10, <1>11, <1>12, <1>13, <1>14, OneTabMoves

LEMMA ArrivesStep ==
  ASSUME BrowserIInv, NEW r \in Tabs, arrives(r)
  PROVE  BrowserIInv'
  <1> DEFINE f == flight[r]
             S == send_with_refresh(f)
  <1>1. /\ f \in Answered /\ f # NoFlight /\ FlightInv(f) /\ f.at = "answered"
        /\ today \in Nat /\ SessionLifetime \in Nat /\ RefreshAfter \in Nat
        /\ AnyToken = CookieTokens \cup {NoToken} /\ NoToken \notin CookieTokens /\ NoToken \in AnyToken
        /\ jar.token \in AnyToken /\ jar.until \in Nat
        /\ \A t \in CookieTokens : sessionRows[t].seen \in Nat /\ used[t] \in Nat
    BY BrowserFacts DEF arrives
  <1>2. f.served \in Nat /\ f.proves \in SUBSET CookieTokens /\ f.sets \in SUBSET AnyToken /\ f.cookie \in AnyToken
    BY <1>1 DEF Answered
  <1>3. UNCHANGED <<sessionRows, today>> /\ flight' = [flight EXCEPT ![r] = NoFlight]
    BY DEF arrives
  \* What the answer sets is one token.
  <1>4. /\ \A t \in S : Handed(t) /\ t \in AnyToken
        /\ \A t, u \in S : t = u
        /\ f.proves # {} => S = f.proves
    BY <1>1, <1>2 DEF FlightInv, send_with_refresh
  <1>5. \A t \in CookieTokens : used'[t] = IF t \in f.proves THEN Max({used[t], f.served}) ELSE used[t]
    BY DEF arrives
  <1>6. \A t \in CookieTokens : t \in f.proves => Max({used[t], f.served}) \in {used[t], f.served}
    BY <1>1, <1>2, GreaterOfTwo
  <1>7. used' \in [CookieTokens -> Nat] /\ \A t \in CookieTokens : used'[t] \in {used[t], f.served}
    <2>1. used' = [t \in CookieTokens |-> used'[t]]
      BY DEF arrives
    <2> HIDE DEF f
    <2> QED
      BY <1>1, <1>2, <1>5, <1>6, <2>1
  <1>8. SessionRowsInv'
    <2>1. \A t \in CookieTokens : t \in f.proves => Serves(t, f.served)
      BY <1>1 DEF FlightInv
    <2> HIDE DEF f
    <2>2. ASSUME NEW t \in CookieTokens
          PROVE  used'[t] = used[t] \/ (used'[t] = f.served /\ Serves(t, f.served))
      <3>1. CASE t \in f.proves
        <4>1. used'[t] \in {used[t], f.served}
          BY <1>7
        <4>2. Serves(t, f.served)
          BY <2>1, <3>1
        <4> QED
          BY ONLY <4>1, <4>2
      <3>2. CASE t \notin f.proves
        BY <1>5, <3>2
      <3> QED
        BY <3>1, <3>2
    <2> QED
      BY <1>1, <1>2, <1>3, <2>2 DEF BrowserIInv, SessionRowsInv, Serves
  <1>9. \A t \in CookieTokens : used'[t] <= today
    BY <1>3, <1>8 DEF SessionRowsInv
  <1>10. jar' \in [token : AnyToken, until : Nat] /\ JarInv'
    <2>1. CASE S = {}
      <3>1. jar' = jar /\ f.proves = {}
        BY <1>4, <2>1 DEF arrives
      <3>2. used' = used
        BY <1>5, <1>7, <3>1 DEF BrowserIInv, BrowserTypes
      <3> QED
        BY <1>3, <3>1, <3>2 DEF BrowserIInv, BrowserTypes, JarInv, Handed
    <2>2. CASE NoToken \in S
      <3>1. jar' = cleared_cookies
        BY <2>2 DEF arrives
      <3> QED
        BY <1>1, <3>1 DEF cleared_cookies, JarInv, Handed
    <2>3. CASE S # {} /\ NoToken \notin S
      <3>1. PICK t \in CookieTokens : t \in S
        BY <1>1, <1>4, <2>3
      <3>2. S = {t} /\ (CHOOSE u \in CookieTokens : u \in S) = t
        BY <1>4, <3>1
      <3>3. jar' = [token |-> t, until |-> today + SessionLifetime]
        BY <2>3, <3>2 DEF arrives, session_cookie
      <3>4. Handed(t)'
        BY <1>3, <1>4, <3>1 DEF Handed
      <3> QED
        BY <1>1, <1>3, <1>7, <1>9, <3>3, <3>4 DEF JarInv
    <2> QED
      BY <2>1, <2>2, <2>3
  <1>11. /\ flight'[r] = NoFlight /\ \A q \in Tabs : q # r => flight'[q] = flight[q]
         /\ flight' \in [Tabs -> {NoFlight} \cup Requests \cup Answered]
    BY <1>3 DEF BrowserIInv, BrowserTypes
  <1>12. BrowserTypes'
    BY <1>3, <1>7, <1>10, <1>11 DEF BrowserIInv, BrowserTypes
  <1>13. RowsGoOn /\ today <= today'
    BY <1>1, <1>3 DEF RowsGoOn
  <1>14. FlightInv(flight[r])'
    BY <1>11 DEF FlightInv, NoFlight
  <1> QED
    BY <1>8, <1>10, <1>11, <1>12, <1>13, <1>14, OneTabMoves

LEMMA NextDayStep ==
  ASSUME BrowserIInv, next_day
  PROVE  BrowserIInv'
  <1>1. /\ today \in Nat /\ today' = today + 1 /\ today' \in Nat /\ UNCHANGED <<jar, sessionRows, flight, used>>
        /\ \A t \in CookieTokens : sessionRows[t].seen \in Nat /\ used[t] \in Nat
    BY DEF next_day, BrowserIInv, BrowserTypes, SessionRecords
  <1>2. BrowserTypes' /\ RowsGoOn /\ today <= today'
    BY <1>1 DEF BrowserIInv, BrowserTypes, RowsGoOn
  <1>3. SessionRowsInv' /\ JarInv'
    BY <1>1 DEF BrowserIInv, SessionRowsInv, JarInv, Handed
  <1>4. ASSUME NEW r \in Tabs PROVE FlightInv(flight[r])'
    BY <1>1, <1>2, FlightKept DEF BrowserIInv
  <1> QED
    BY <1>2, <1>3, <1>4 DEF BrowserIInv

LEMMA BrowserStep ==
  ASSUME BrowserIInv, [BrowserNext]_browserVars
  PROVE  BrowserIInv'
  <1>1. CASE UNCHANGED browserVars
    BY <1>1 DEF browserVars, BrowserIInv, BrowserTypes, SessionRowsInv, JarInv, FlightInv, Handed, Serves
  <1>2. ASSUME NEW r \in Tabs, guard(r) \/ browse(r)
        PROVE  BrowserIInv'
    BY <1>2, PlainAnswer DEF guard, browse, Refused
  <1> QED
    BY <1>1, <1>2, SendStep, ResolveStep, RefreshStep, AccountPageStep, BrowserLogoutStep, BrowserSignInStep, ArrivesStep, LostStep,
       NextDayStep DEF BrowserNext

LEMMA BrowserIsSafe ==
  ASSUME BrowserIInv
  PROVE  ActiveStaysSignedIn
  <1> SUFFICES ASSUME NEW t \in CookieTokens, jar.token = t, ~sessionRows[t].revoked,
                      today < used[t] + (SessionLifetime - RefreshAfter)
               PROVE  Lives(t) /\ jar.until > today
    BY DEF ActiveStaysSignedIn
  <1>1. /\ today \in Nat /\ SessionLifetime \in Nat /\ RefreshAfter \in Nat /\ t # NoToken
        /\ jar.until \in Nat /\ sessionRows[t].seen \in Nat /\ sessionRows[t].until \in Nat /\ used[t] \in Nat
    BY BrowserBounds, SMTT(30) DEF BrowserIInv, BrowserTypes, SessionRecords, CookieTokens, NoToken
  <1>2. sessionRows[t].issued /\ used[t] + SessionLifetime <= jar.until
    BY <1>1 DEF BrowserIInv, JarInv, Handed
  <1>3. sessionRows[t].until = sessionRows[t].seen + SessionLifetime /\ used[t] <= sessionRows[t].seen + RefreshAfter
    BY <1>2 DEF BrowserIInv, SessionRowsInv
  <1> QED
    BY <1>1, <1>2, <1>3 DEF Lives

----------------------------------------------------------------------------
(* What has ended, and what another site asks for.                         *)

\* What a foreign page's request says of itself never allows it to write.
PagesInv == \A r \in Tabs : flight[r].at \in {"sent", "resolved", "authenticated"} /\ flight[r].page = "foreign"
                               => flight[r].says # "allowed"

\* A tab's request is a request already or was just sent.
LEMMA PagesKept ==
  ASSUME PagesInv, NEW r \in Tabs, \A q \in Tabs : q # r => flight'[q] = flight[q],
         \/ flight'[r].at \notin {"sent", "resolved", "authenticated"}
         \/ /\ flight[r].at \in {"sent", "resolved", "authenticated"}
            /\ flight'[r].page = flight[r].page /\ flight'[r].says = flight[r].says
         \/ flight'[r].page = "foreign" => flight'[r].says # "allowed"
  PROVE  PagesInv'
  BY DEF PagesInv

LEMMA RefusedIsAnswered ==
  ASSUME BrowserTypes, NEW r \in Tabs, NEW ok, NEW sets, NEW proves, NEW served, PageAnswers(r, ok, sets, proves, served)
  PROVE  flight'[r].at = "answered" /\ \A q \in Tabs : q # r => flight'[q] = flight[q]
  BY DEF BrowserTypes, PageAnswers

LEMMA PagesStep ==
  ASSUME BrowserIInv, PagesInv, [BrowserNext]_browserVars
  PROVE  PagesInv'
  <1>1. BrowserTypes
    BY DEF BrowserIInv
  <1>2. CASE UNCHANGED flight
    BY <1>2 DEF PagesInv
  <1>3. ASSUME NEW r \in Tabs, send(r)
        PROVE  PagesInv'
    <2>1. PICK kind \in {"browse", "account", "login", "logout"}, page \in {"site", "foreign"} :
            /\ kind \in {"browse", "account", "login"} => page = "site"
            /\ \E h \in IF kind = "logout" THEN CookieHeaders(page) ELSE {<<"none", "same-origin">>} :
                 flight' = [flight EXCEPT ![r] =
                   [at |-> "sent", kind |-> kind, page |-> page, says |-> classify(h), cookie |-> _cookie_value, since |-> 0]]
      BY <1>3 DEF send
    <2>2. PICK h \in IF kind = "logout" THEN CookieHeaders(page) ELSE {<<"none", "same-origin">>} :
            flight' = [flight EXCEPT ![r] =
                   [at |-> "sent", kind |-> kind, page |-> page, says |-> classify(h), cookie |-> _cookie_value, since |-> 0]]
      BY <2>1
    <2>3. page = "foreign" => classify(h) # "allowed"
      BY <2>1 DEF CookieHeaders, classify
    <2> DEFINE says == classify(h)  c == _cookie_value
    <2>4. flight' = [flight EXCEPT ![r] = [at |-> "sent", kind |-> kind, page |-> page, says |-> says, cookie |-> c, since |-> 0]]
      BY <2>2
    <2> HIDE DEF says, c
    <2>5. flight'[r].page = page /\ flight'[r].says = says /\ \A q \in Tabs : q # r => flight'[q] = flight[q]
      BY <1>1, <2>4 DEF BrowserTypes
    <2> QED
      BY <2>3, <2>5, PagesKept DEF says
  <1>4. ASSUME NEW r \in Tabs, NEW ok, NEW sets, NEW proves, NEW served, PageAnswers(r, ok, sets, proves, served)
        PROVE  PagesInv'
    BY <1>1, <1>4, RefusedIsAnswered, PagesKept
  <1>5. ASSUME NEW r \in Tabs, guard(r) \/ browse(r) \/ account_page(r) \/ browser_logout(r) \/ browser_sign_in(r)
        PROVE  PagesInv'
    BY <1>4, <1>5 DEF guard, browse, account_page, browser_logout, browser_sign_in, Refused
  <1>6. ASSUME NEW r \in Tabs, resolve_session(r)
        PROVE  PagesInv'
    <2>1. CASE flight' = [flight EXCEPT ![r].at = "resolved"]
      <3>1. flight[r] \in Requests /\ flight[r].at = "sent"
        BY <1>6, BrowserFacts DEF resolve_session
      <3>2. /\ flight'[r].page = flight[r].page /\ flight'[r].says = flight[r].says
            /\ \A q \in Tabs : q # r => flight'[q] = flight[q]
        BY <1>1, <2>1, <3>1 DEF BrowserTypes, Requests
      <3> QED
        BY <3>1, <3>2, PagesKept
    <2>2. CASE Refused(r)
      BY <1>4, <2>2 DEF Refused
    <2> QED
      BY <1>6, <2>1, <2>2 DEF resolve_session
  <1>7. ASSUME NEW r \in Tabs, refresh_cookie(r)
        PROVE  PagesInv'
    <2> DEFINE since == IF Lives(flight[r].cookie) THEN today ELSE 0
               g == [flight[r] EXCEPT !.at = "authenticated"]
               f == [g EXCEPT !.since = since]
    <2>1. flight[r] \in Requests /\ flight[r].at = "resolved"
      BY <1>7, BrowserFacts DEF refresh_cookie
    <2>2. flight' = [flight EXCEPT ![r] = f]
      BY <1>1, <1>7 DEF refresh_cookie, BrowserTypes
    <2> HIDE DEF since
    <2>3. g.page = flight[r].page /\ g.says = flight[r].says
      BY <2>1 DEF Requests
    <2> HIDE DEF g
    <2>4. f.page = g.page /\ f.says = g.says
      OBVIOUS
    <2> HIDE DEF f
    <2>5. flight'[r] = f /\ \A q \in Tabs : q # r => flight'[q] = flight[q]
      BY <1>1, <2>2 DEF BrowserTypes
    <2> QED
      BY <2>1, <2>3, <2>4, <2>5, PagesKept
  <1>8. ASSUME NEW r \in Tabs, arrives(r) \/ lost(r)
        PROVE  PagesInv'
    <2>1. flight'[r] = NoFlight /\ \A q \in Tabs : q # r => flight'[q] = flight[q]
      BY <1>1, <1>8 DEF arrives, lost, BrowserTypes
    <2> QED
      BY <2>1, PagesKept DEF NoFlight
  <1>9. CASE next_day
    BY <1>2, <1>9 DEF next_day
  <1> QED
    BY <1>2, <1>3, <1>5, <1>6, <1>7, <1>8, <1>9 DEF BrowserNext, browserVars

\* Only the answer to a request that may write ends a session by it.
LEMMA ForeignStep ==
  ASSUME BrowserIInv, PagesInv, [BrowserNext]_browserVars
  PROVE  ForeignPagesEndNothing
  <1> SUFFICES ASSUME NEW r \in Tabs, flight[r].at = "authenticated", flight'[r].at = "answered",
                      flight[r].page = "foreign"
               PROVE  sessionRows' = sessionRows
    BY DEF ForeignPagesEndNothing
  <1>1. flight \in [Tabs -> {NoFlight} \cup Requests \cup Answered]
    BY DEF BrowserIInv, BrowserTypes
  <1>2. ASSUME NEW q \in Tabs, browser_logout(q)
        PROVE  sessionRows' = sessionRows
    <2>1. CASE Refused(q) /\ UNCHANGED sessionRows
      BY <2>1
    <2>2. CASE require_writer(q) /\ PageAnswers(q, TRUE, {NoToken}, {}, 0)
      <3>1. flight[q].at = "authenticated" /\ flight[q].says = "allowed"
        BY <1>2, <2>2 DEF browser_logout, require_writer
      <3>2. q # r
        BY <3>1 DEF PagesInv
      <3>3. flight'[r] = flight[r]
        BY <2>2, <3>2, RefusedIsAnswered DEF BrowserIInv
      <3> QED
        BY <3>3
    <2> QED
      BY <1>2, <2>1, <2>2 DEF browser_logout
  <1>3. ASSUME NEW q \in Tabs, refresh_cookie(q)
        PROVE  FALSE
    <2>1. flight[q].at = "resolved" /\ \A s \in Tabs : s # q => flight'[s] = flight[s]
      BY <1>1, <1>3 DEF refresh_cookie
    <2> QED
      BY <2>1
  <1>4. ASSUME NEW q \in Tabs, browser_sign_in(q)
        PROVE  FALSE
    <2>1. flight[q].at = "sent" /\ \A s \in Tabs : s # q => flight'[s] = flight[s]
      BY <1>4, RefusedIsAnswered DEF browser_sign_in, BrowserIInv
    <2> QED
      BY <2>1
  <1> QED
    BY <1>2, <1>3, <1>4 DEF BrowserNext, browserVars, send, guard, browse, resolve_session, account_page, arrives, lost, next_day

\* What is written to a session that has ended leaves it ended.
LEMMA EndedStep ==
  ASSUME BrowserIInv, [BrowserNext]_browserVars
  PROVE  EndedStaysEnded
  <1>1. sessionRows \in [CookieTokens -> SessionRecords]
    BY DEF BrowserIInv, BrowserTypes
  <1>2. CASE sessionRows' = sessionRows
    BY <1>2 DEF EndedStaysEnded
  <1>3. ASSUME NEW q \in Tabs, refresh_cookie(q)
        PROVE  EndedStaysEnded
    <2>1. CASE ~Lives(flight[q].cookie)
      BY <1>2, <1>3, <2>1 DEF refresh_cookie, touched
    <2>2. CASE Lives(flight[q].cookie)
      <3>1. \A t \in CookieTokens : Ended(t) => t # flight[q].cookie
        BY <2>2 DEF Ended
      <3>2. \A t \in CookieTokens : t # flight[q].cookie => sessionRows'[t] = sessionRows[t]
        <4>1. \/ sessionRows' = sessionRows
              \/ sessionRows' = [sessionRows EXCEPT ![flight[q].cookie].seen = today,
                                                    ![flight[q].cookie].until = today + SessionLifetime]
          BY <1>3 DEF refresh_cookie, touched
        <4> QED
          BY <1>1, <4>1
      <3> QED
        BY <3>1, <3>2 DEF EndedStaysEnded
    <2> QED
      BY <2>1, <2>2
  <1>4. ASSUME NEW q \in Tabs, browser_logout(q)
        PROVE  EndedStaysEnded
    <2>1. CASE sessionRows' = [sessionRows EXCEPT ![flight[q].cookie].revoked = TRUE]
      <3>1. \A t \in CookieTokens : \/ sessionRows'[t] = sessionRows[t]
                                    \/ sessionRows'[t] = [sessionRows[t] EXCEPT !.revoked = TRUE]
        BY <1>1, <2>1
      <3>2. \A t \in CookieTokens : sessionRows[t] \in SessionRecords
        BY <1>1
      <3> QED
        BY <3>1, <3>2 DEF EndedStaysEnded, SessionRecords
    <2> QED
      BY <1>2, <1>4, <2>1 DEF browser_logout
  <1>5. ASSUME NEW q \in Tabs, browser_sign_in(q)
        PROVE  EndedStaysEnded
    <2>1. PICK t \in CookieTokens :
           /\ ~sessionRows[t].issued
           /\ sessionRows' = [u \in CookieTokens |-> IF u = t THEN [issued |-> TRUE, revoked |-> FALSE, until |-> today + SessionLifetime, seen |-> today]
                                        ELSE [sessionRows[u] EXCEPT !.revoked = sessionRows[u].issued]]
      BY <1>5 DEF browser_sign_in
    <2>2. ASSUME NEW u \in CookieTokens, Ended(u)
          PROVE  sessionRows'[u].until = sessionRows[u].until /\ (sessionRows[u].revoked => sessionRows'[u].revoked)
      <3>1. u # t /\ sessionRows[u].issued
        BY <2>1, <2>2 DEF Ended
      <3>2. sessionRows'[u] = [sessionRows[u] EXCEPT !.revoked = TRUE]
        BY <1>1, <2>1, <3>1 DEF SessionRecords
      <3> QED
        BY <1>1, <3>2 DEF SessionRecords
    <2> QED
      BY <2>2 DEF EndedStaysEnded
  <1> QED
    BY <1>2, <1>3, <1>4, <1>5 DEF BrowserNext, browserVars, send, guard, browse, resolve_session, account_page, arrives, lost, next_day

----------------------------------------------------------------------------
(* Invitations.                                                            *)

Invited == [issued : BOOLEAN, revoked : BOOLEAN, expired : BOOLEAN, count : Nat]
Redeeming == [pc : {"New", "Asked", "Locked", "Granted", "Refused"}, fresh : BOOLEAN]

InviteTypes ==
    /\ link \in [Links -> Invited]
    /\ redeemed \in SUBSET (Links \X Guests)
    /\ granted \in [Guests -> Nat]
    /\ redeeming \in [Redeems -> Redeeming]
    /\ revoking \in SUBSET Links
    /\ linkLock \in [Links -> Redeems \cup {NoRedeem}]

UsersOf(l) == {g \in Guests : <<l, g>> \in redeemed}
GivenTo(g) == {l \in Links : <<l, g>> \in redeemed}
FinitelyUsed == (\A l \in Links : IsFiniteSet(UsersOf(l))) /\ (\A g \in Guests : IsFiniteSet(GivenTo(g)))

\* Whoever passed the checks holds the row, and nobody withdrew the invitation since.
LockedIsGood == \A r \in Redeems :
    redeeming[r].pc = "Locked" => linkLock[RedeemLink[r]] = r /\ ~link[RedeemLink[r]].revoked

InviteIInv == InviteTypes /\ FinitelyUsed /\ LockedIsGood /\ GrantsWithinLimit

LEMMA InviteStart == InviteInit => InviteIInv
  <1> SUFFICES ASSUME InviteInit PROVE InviteIInv
    OBVIOUS
  <1>1. InviteTypes
    BY DEF InviteInit, InviteTypes, Invited, Redeeming
  <1>2. (\A l \in Links : UsersOf(l) = {}) /\ (\A g \in Guests : GivenTo(g) = {})
    BY DEF InviteInit, UsersOf, GivenTo
  <1>3. FinitelyUsed
    BY <1>2, FS_EmptySet DEF FinitelyUsed
  <1>4. LockedIsGood
    BY DEF InviteInit, LockedIsGood
  <1>5. GrantsWithinLimit
    <2>1. Cardinality({}) = 0
      BY FS_EmptySet
    <2>2. \A l \in Links : link[l].count = 0 /\ MaxRedemptions[l] \in Nat
      BY InvitationConstants DEF InviteInit
    <2>3. \A g \in Guests : granted[g] = 0
      BY DEF InviteInit
    <2>4. \A l \in Links : link[l].count = Cardinality(UsersOf(l)) /\ link[l].count <= MaxRedemptions[l]
      BY <1>2, <2>1, <2>2
    <2>5. \A g \in Guests : granted[g] = Cardinality(GivenTo(g))
      BY <1>2, <2>1, <2>3
    <2> QED
      BY <2>4, <2>5 DEF GrantsWithinLimit, UsersOf, GivenTo
  <1> QED
    BY <1>1, <1>3, <1>4, <1>5 DEF InviteIInv

\* A step that redeems nothing.
LEMMA NothingRedeemed ==
  ASSUME InviteIInv, InviteTypes', LockedIsGood', UNCHANGED <<redeemed, granted>>,
         \A l \in Links : link'[l].count = link[l].count
  PROVE  InviteIInv'
  <1>1. FinitelyUsed'
    BY DEF InviteIInv, FinitelyUsed, UsersOf, GivenTo
  <1>2. GrantsWithinLimit'
    BY DEF InviteIInv, GrantsWithinLimit
  <1> QED
    BY <1>1, <1>2 DEF InviteIInv

\* One more of a finite set.
LEMMA OneMore ==
  ASSUME NEW S, NEW x, x \notin S, IsFiniteSet(S)
  PROVE  /\ IsFiniteSet(S \cup {x})
         /\ Cardinality(S) \in Nat /\ Cardinality(S \cup {x}) = Cardinality(S) + 1
  BY FS_AddElement, FS_CardinalityType

LEMMA RedeemStep ==
  ASSUME InviteIInv, NEW r \in Redeems, redeem(r)
  PROVE  InviteIInv' /\ WithdrawnGrantsNothing
  <1> DEFINE l == RedeemLink[r]
             g == RedeemFor[r]
  <1>1. l \in Links /\ g \in Guests /\ MaxRedemptions \in [Links -> Nat] /\ NoRedeem \notin Redeems /\ RedeemLink \in [Redeems -> Links]
    BY InvitationConstants
  <1>2. InviteTypes /\ link[l] \in Invited /\ ~link[l].revoked /\ linkLock[l] = r /\ redeeming[r].pc = "Locked"
    BY <1>1 DEF redeem, InviteIInv, InviteTypes, LockedIsGood
  <1>3. /\ revoking' = revoking /\ linkLock' = [linkLock EXCEPT ![l] = NoRedeem]
        /\ \E pc \in {"Granted", "Refused"} : redeeming' = [redeeming EXCEPT ![r].pc = pc]
    BY DEF redeem, Redeem
  <1>4. /\ linkLock' \in [Links -> Redeems \cup {NoRedeem}] /\ redeeming' \in [Redeems -> Redeeming]
        /\ \A q \in Redeems : q # r => redeeming'[q] = redeeming[q]
        /\ redeeming'[r].pc # "Locked"
    BY <1>2, <1>3, ZenonT(60) DEF InviteTypes, Redeeming
  <1>5. \A q \in Redeems : redeeming'[q].pc = "Locked" =>
            /\ RedeemLink[q] \in Links /\ RedeemLink[q] # l /\ linkLock'[RedeemLink[q]] = q /\ ~link[RedeemLink[q]].revoked
    BY <1>1, <1>2, <1>3, <1>4 DEF InviteTypes, InviteIInv, LockedIsGood
  <1>6. CASE UNCHANGED <<link, redeemed, granted>>
    <2>1. InviteTypes' /\ LockedIsGood'
      BY <1>2, <1>3, <1>4, <1>5, <1>6 DEF InviteTypes, LockedIsGood
    <2> QED
      BY <1>6, <2>1, NothingRedeemed DEF WithdrawnGrantsNothing, InviteIInv, InviteTypes, Invited, GrantsWithinLimit,
         read_invitation, _in_state
  <1>7. CASE /\ FirstUse(l, g) /\ CountUp(l) # link
             /\ redeemed' = redeemed \cup {<<l, g>>}
             /\ granted' = [granted EXCEPT ![g] = @ + 1]
             /\ link' = CountUp(l)
    <2>1. link[l].count < MaxRedemptions[l] /\ link' = [link EXCEPT ![l].count = @ + 1]
      BY <1>7 DEF CountUp
    <2> DEFINE row == [link[l] EXCEPT !.count = @ + 1]
    <2>2. row \in Invited /\ row.count = link[l].count + 1 /\ row.revoked = link[l].revoked
      BY <1>2 DEF Invited
    <2>3. link' = [link EXCEPT ![l] = row]
      BY <1>2, <2>1 DEF InviteTypes
    <2> HIDE DEF row
    <2>4. /\ link' \in [Links -> Invited] /\ link'[l] = row /\ \A k \in Links : k # l => link'[k] = link[k]
      BY <1>1, <1>2, <2>2, <2>3 DEF InviteTypes
    <2>5. InviteTypes'
      BY <1>1, <1>2, <1>3, <1>4, <1>7, <2>4 DEF InviteTypes
    <2>6. LockedIsGood'
      BY <1>5, <2>4 DEF LockedIsGood
    <2>7. /\ g \notin UsersOf(l) /\ UsersOf(l)' = UsersOf(l) \cup {g}
          /\ \A k \in Links : k # l => UsersOf(k)' = UsersOf(k)
      BY <1>1, <1>7 DEF FirstUse, UsersOf
    <2>8. /\ l \notin GivenTo(g) /\ GivenTo(g)' = GivenTo(g) \cup {l}
          /\ \A h \in Guests : h # g => GivenTo(h)' = GivenTo(h)
      BY <1>1, <1>7 DEF FirstUse, GivenTo
    <2>9. /\ IsFiniteSet(UsersOf(l)) /\ IsFiniteSet(GivenTo(g))
          /\ link[l].count = Cardinality(UsersOf(l)) /\ granted[g] = Cardinality(GivenTo(g))
      <3>1. IsFiniteSet(UsersOf(l)) /\ IsFiniteSet(GivenTo(g))
        BY <1>1 DEF InviteIInv, FinitelyUsed
      <3>2. \A k \in Links : link[k].count = Cardinality(UsersOf(k))
        BY DEF InviteIInv, GrantsWithinLimit, UsersOf
      <3>3. \A h \in Guests : granted[h] = Cardinality(GivenTo(h))
        BY DEF InviteIInv, GrantsWithinLimit, GivenTo
      <3> QED
        BY <1>1, <3>1, <3>2, <3>3
    <2>10. IsFiniteSet(UsersOf(l)') /\ Cardinality(UsersOf(l)') = link'[l].count
      <3>1. /\ IsFiniteSet(UsersOf(l) \cup {g})
            /\ Cardinality(UsersOf(l) \cup {g}) = Cardinality(UsersOf(l)) + 1
        BY <2>7, <2>9, OneMore
      <3>2. link'[l].count = link[l].count + 1
        BY <2>2, <2>4
      <3> QED
        BY <2>7, <2>9, <3>1, <3>2
    <2>11. IsFiniteSet(GivenTo(g)') /\ Cardinality(GivenTo(g)') = granted'[g]
      BY <1>1, <1>2, <1>7, <2>8, <2>9, OneMore DEF InviteTypes
    <2>12. FinitelyUsed'
      <3>1. ASSUME NEW k \in Links PROVE IsFiniteSet(UsersOf(k)')
        BY <2>7, <2>10 DEF InviteIInv, FinitelyUsed
      <3>2. ASSUME NEW h \in Guests PROVE IsFiniteSet(GivenTo(h)')
        BY <2>8, <2>11 DEF InviteIInv, FinitelyUsed
      <3> QED
        BY <3>1, <3>2 DEF FinitelyUsed
    <2>13. GrantsWithinLimit'
      <3>1. ASSUME NEW k \in Links
            PROVE  link'[k].count = Cardinality(UsersOf(k)') /\ link'[k].count <= MaxRedemptions[k]
        <4>1. CASE k = l
          BY <1>1, <1>2, <2>1, <2>2, <2>4, <2>10, <4>1 DEF Invited
        <4>2. CASE k # l
          BY <2>4, <2>7, <4>2 DEF InviteIInv, GrantsWithinLimit, UsersOf
        <4> QED
          BY <4>1, <4>2
      <3>2. ASSUME NEW h \in Guests PROVE granted'[h] = Cardinality(GivenTo(h)')
        <4>1. CASE h = g
          BY <2>11, <4>1
        <4>2. CASE h # g
          BY <1>2, <1>7, <2>8, <4>2 DEF InviteTypes, InviteIInv, GrantsWithinLimit, GivenTo
        <4> QED
          BY <4>1, <4>2
      <3> QED
        BY <3>1, <3>2 DEF GrantsWithinLimit, UsersOf, GivenTo
    <2>14. \A k \in Links : link[k].revoked => link'[k].count = link[k].count
      BY <1>2, <2>4
    <2>15. WithdrawnGrantsNothing
      BY <1>1, <1>2, <2>14 DEF WithdrawnGrantsNothing, InviteIInv, InviteTypes, Invited, GrantsWithinLimit, read_invitation, _in_state
    <2> QED
      BY <2>5, <2>6, <2>12, <2>13, <2>15 DEF InviteIInv
  <1> QED
    BY <1>6, <1>7 DEF redeem

\* What the operator's list calls active is what is on offer, as no count passes its limit.
LEMMA ListIsRight ==
  ASSUME InviteIInv, \A l \in Links : link'[l].count = link[l].count
  PROVE  WithdrawnGrantsNothing
  <1>1. MaxRedemptions \in [Links -> Nat]
    BY InvitationConstants
  <1> QED
    BY <1>1 DEF WithdrawnGrantsNothing, InviteIInv, InviteTypes, Invited, GrantsWithinLimit, read_invitation, _in_state

\* An invitation that is issued, expires or is withdrawn keeps its count.
LEMMA OnlyMarked ==
  ASSUME NEW i \in Invited
  PROVE  /\ [i EXCEPT !.issued = TRUE] \in Invited /\ [i EXCEPT !.expired = TRUE] \in Invited
         /\ [i EXCEPT !.issued = TRUE].count = i.count /\ [i EXCEPT !.issued = TRUE].revoked = i.revoked
         /\ [i EXCEPT !.expired = TRUE].count = i.count /\ [i EXCEPT !.expired = TRUE].revoked = i.revoked
         /\ [i EXCEPT !.revoked = TRUE] \in Invited /\ [i EXCEPT !.revoked = TRUE].count = i.count
  BY DEF Invited

LEMMA InviteStep ==
  ASSUME InviteIInv, [InviteNext]_inviteVars
  PROVE  InviteIInv' /\ WithdrawnGrantsNothing
  <1>0. InviteTypes /\ LockedIsGood /\ RedeemLink \in [Redeems -> Links] /\ NoRedeem \notin Redeems
    BY InvitationConstants DEF InviteIInv
  <1>1. CASE UNCHANGED <<link, redeemed, granted, linkLock>> /\ redeeming' = redeeming /\ revoking' \in SUBSET Links
    <2>1. InviteTypes' /\ LockedIsGood'
      BY <1>0, <1>1 DEF InviteTypes, LockedIsGood
    <2> QED
      BY <1>1, <2>1, NothingRedeemed, ListIsRight
  <1>2. ASSUME NEW l \in Links, create_invitation(l) \/ Expire(l)
        PROVE  InviteIInv' /\ WithdrawnGrantsNothing
    <2>1. UNCHANGED <<redeemed, granted, redeeming, revoking, linkLock>>
      BY <1>2 DEF create_invitation, Expire
    <2>2. /\ link' \in [Links -> Invited]
          /\ \A k \in Links : link'[k].count = link[k].count /\ link'[k].revoked = link[k].revoked
      <3>1. CASE create_invitation(l)
        <4> DEFINE row == [link[l] EXCEPT !.issued = TRUE]
        <4>0. link[l] \in Invited
          BY <1>0 DEF InviteTypes
        <4>1. row \in Invited /\ row.count = link[l].count /\ row.revoked = link[l].revoked
          BY <4>0, OnlyMarked
        <4>2. link' = [link EXCEPT ![l] = row]
          BY <1>0, <3>1 DEF create_invitation, InviteTypes
        <4> HIDE DEF row
        <4>3. link \in [Links -> Invited]
          BY <1>0 DEF InviteTypes
        <4>4. link' \in [Links -> Invited] /\ \A k \in Links : link'[k] = IF k = l THEN row ELSE link[k]
          BY ONLY <4>1, <4>2, <4>3, l \in Links
        <4> QED
          BY ONLY <4>1, <4>4
      <3>2. CASE Expire(l)
        <4> DEFINE row == [link[l] EXCEPT !.expired = TRUE]
        <4>0. link[l] \in Invited
          BY <1>0 DEF InviteTypes
        <4>1. row \in Invited /\ row.count = link[l].count /\ row.revoked = link[l].revoked
          BY <4>0, OnlyMarked
        <4>2. link' = [link EXCEPT ![l] = row]
          BY <1>0, <3>2 DEF Expire, InviteTypes
        <4> HIDE DEF row
        <4>3. link \in [Links -> Invited]
          BY <1>0 DEF InviteTypes
        <4>4. link' \in [Links -> Invited] /\ \A k \in Links : link'[k] = IF k = l THEN row ELSE link[k]
          BY ONLY <4>1, <4>2, <4>3, l \in Links
        <4> QED
          BY ONLY <4>1, <4>4
      <3> QED
        BY <1>2, <3>1, <3>2
    <2>3. InviteTypes' /\ LockedIsGood'
      BY <1>0, <2>1, <2>2 DEF InviteTypes, LockedIsGood
    <2> QED
      BY <2>1, <2>2, <2>3, NothingRedeemed, ListIsRight
  <1>3. ASSUME NEW l \in Links, revoke(l)
        PROVE  InviteIInv' /\ WithdrawnGrantsNothing
    <2>1. UNCHANGED <<redeemed, granted, redeeming, linkLock>> /\ linkLock[l] = NoRedeem /\ revoking' \in SUBSET Links
      BY <1>0, <1>3 DEF revoke, InviteTypes
    <2>2. /\ link' \in [Links -> Invited]
          /\ \A k \in Links : link'[k].count = link[k].count /\ (k # l => link'[k].revoked = link[k].revoked)
      <3> DEFINE row == [link[l] EXCEPT !.revoked = TRUE]
      <3>1. link[l] \in Invited /\ link \in [Links -> Invited]
        BY <1>0 DEF InviteTypes
      <3>2. row \in Invited /\ row.count = link[l].count
        BY <3>1, OnlyMarked
      <3>3. link' = [link EXCEPT ![l] = row]
        BY <1>3, <3>1 DEF revoke
      <3> HIDE DEF row
      <3>4. link' \in [Links -> Invited] /\ \A k \in Links : link'[k] = IF k = l THEN row ELSE link[k]
        BY ONLY <3>1, <3>2, <3>3, l \in Links
      <3> QED
        BY ONLY <3>2, <3>4
    <2>3. InviteTypes'
      BY <1>0, <2>1, <2>2 DEF InviteTypes
    <2>4. LockedIsGood'
      BY <1>0, <2>1, <2>2 DEF LockedIsGood
    <2> QED
      BY <2>1, <2>2, <2>3, <2>4, NothingRedeemed, ListIsRight
  <1>4. ASSUME NEW l \in Links, BeginRevoke(l)
        PROVE  InviteIInv' /\ WithdrawnGrantsNothing
    BY <1>0, <1>1, <1>4 DEF BeginRevoke, InviteTypes
  <1>5. ASSUME NEW r \in Redeems, redeem_invitation(r)
        PROVE  InviteIInv' /\ WithdrawnGrantsNothing
    <2>1. UNCHANGED <<link, redeemed, granted, revoking, linkLock>>
      BY <1>5 DEF redeem_invitation
    <2>2. /\ redeeming' \in [Redeems -> Redeeming]
          /\ \A q \in Redeems : redeeming'[q].pc = "Locked" => redeeming[q].pc = "Locked"
      BY <1>0, <1>5 DEF redeem_invitation, InviteTypes, Redeeming
    <2>3. InviteTypes' /\ LockedIsGood'
      BY <1>0, <2>1, <2>2 DEF InviteTypes, LockedIsGood
    <2> QED
      BY <2>1, <2>3, NothingRedeemed, ListIsRight
  <1>6. ASSUME NEW r \in Redeems, LockInvitation(r)
        PROVE  InviteIInv' /\ WithdrawnGrantsNothing
    <2> DEFINE l == RedeemLink[r]
    <2>1. UNCHANGED <<link, redeemed, granted, revoking>> /\ linkLock[l] = NoRedeem /\ l \in Links
      BY <1>0, <1>6 DEF LockInvitation
    <2>2. CASE Redeem(r, "Refused") /\ UNCHANGED linkLock
      <3>1. /\ redeeming' \in [Redeems -> Redeeming]
            /\ \A q \in Redeems : redeeming'[q].pc = "Locked" => redeeming[q].pc = "Locked"
        BY <1>0, <2>2 DEF Redeem, InviteTypes, Redeeming
      <3>2. InviteTypes' /\ LockedIsGood'
        BY <1>0, <2>1, <2>2, <3>1 DEF InviteTypes, LockedIsGood
      <3> QED
        BY <2>1, <3>2, NothingRedeemed, ListIsRight
    <2>3. CASE ~link[l].revoked /\ Redeem(r, "Locked") /\ linkLock' = [linkLock EXCEPT ![l] = r]
      <3>1. /\ redeeming' \in [Redeems -> Redeeming]
            /\ \A q \in Redeems : q # r /\ redeeming'[q].pc = "Locked" => redeeming[q].pc = "Locked"
        BY <1>0, <2>3 DEF Redeem, InviteTypes, Redeeming
      <3>2. /\ linkLock' \in [Links -> Redeems \cup {NoRedeem}] /\ linkLock'[l] = r
            /\ \A k \in Links : k # l => linkLock'[k] = linkLock[k]
        BY <1>0, <2>1, <2>3 DEF InviteTypes
      <3>3. InviteTypes'
        BY <1>0, <2>1, <3>1, <3>2 DEF InviteTypes
      <3>4. LockedIsGood'
        BY <1>0, <2>1, <2>3, <3>1, <3>2 DEF LockedIsGood
      <3> QED
        BY <2>1, <3>3, <3>4, NothingRedeemed, ListIsRight
    <2> QED
      BY <1>6, <2>2, <2>3 DEF LockInvitation, _refuse_if_unusable
  <1>7. CASE UNCHANGED inviteVars
    BY <1>0, <1>1, <1>7 DEF inviteVars, InviteTypes
  <1> QED
    BY <1>2, <1>3, <1>4, <1>5, <1>6, <1>7, RedeemStep DEF InviteNext

----------------------------------------------------------------------------
(* Request rates.  What a table of the limiter says of a key, whatever     *)
(* place its row has.                                                      *)

\* A table has a row for a key at most once.
Table(table, Rows) ==
    /\ table \in Seq([key : Rows, times : Seq(Nat)])
    /\ \A i, j \in DOMAIN table : table[i].key = table[j].key => i = j

LEMMA PieceOfSeq ==
  ASSUME NEW S, NEW s \in Seq(S), NEW m \in 1 .. Len(s) + 1, NEW n \in m - 1 .. Len(s)
  PROVE  /\ SubSeq(s, m, n) \in Seq(S) /\ Len(SubSeq(s, m, n)) = n - m + 1
         /\ \A i \in 1 .. n - m + 1 : SubSeq(s, m, n)[i] = s[m - 1 + i]
  <1>1. m \in Int /\ n \in Int /\ Len(s) \in Nat /\ \A i \in m .. n : s[i] \in S
    BY ElementOfSeq
  <1>2. PICK t : t = SubSeq(s, m, n)
    OBVIOUS
  <1>3. /\ t \in Seq(S) /\ Len(t) = (IF m <= n THEN n - m + 1 ELSE 0)
        /\ \A i \in 1 .. n - m + 1 : t[i] = s[m + i - 1]
    BY <1>1, <1>2, SubSeqProperties
  <1>4. Len(t) = n - m + 1
    BY <1>1, <1>3
  <1>5. ASSUME NEW i \in 1 .. n - m + 1 PROVE t[i] = s[m - 1 + i]
    <2>1. m + i - 1 = m - 1 + i
      BY <1>1
    <2> QED
      BY <1>3, <2>1
  <1> QED
    BY <1>2, <1>3, <1>4, <1>5

LEMMA TimesOfRow ==
  ASSUME NEW Rows, NEW table, Table(table, Rows), NEW i \in DOMAIN table
  PROVE  Times(table, table[i].key) = table[i].times /\ Tracked(table, table[i].key)
  <1>1. Tracked(table, table[i].key)
    BY DEF Tracked
  <1>2. Place(table, table[i].key) \in DOMAIN table /\ table[Place(table, table[i].key)].key = table[i].key
    BY <1>1 DEF Tracked, Place
  <1>3. Place(table, table[i].key) = i
    BY <1>2 DEF Table
  <1> QED
    BY <1>1, <1>3 DEF Times

LEMMA TimesAreTimes ==
  ASSUME NEW Rows, NEW table, Table(table, Rows), NEW key
  PROVE  Times(table, key) \in Seq(Nat)
  <1>1. CASE Tracked(table, key)
    <2>1. PICK i \in DOMAIN table : table[i].key = key
      BY <1>1 DEF Tracked
    <2>2. table[i] \in [key : Rows, times : Seq(Nat)]
      <3>1. i \in 1 .. Len(table)
        BY LenProperties DEF Table
      <3> QED
        BY <3>1, ElementOfSeq DEF Table
    <2> QED
      BY <2>1, <2>2, TimesOfRow
  <1>2. CASE ~Tracked(table, key)
    BY <1>2 DEF Times
  <1> QED
    BY <1>1, <1>2

\* Two tables with the same row for a key say the same of it.
LEMMA SameRow ==
  ASSUME NEW Rows, NEW table, NEW other, Table(table, Rows), Table(other, Rows), NEW key,
         \A i \in DOMAIN table : table[i].key = key => \E j \in DOMAIN other : other[j] = table[i],
         \A j \in DOMAIN other : other[j].key = key => \E i \in DOMAIN table : other[j] = table[i]
  PROVE  Times(other, key) = Times(table, key)
  <1>1. CASE Tracked(table, key)
    <2>1. PICK i \in DOMAIN table : table[i].key = key
      BY <1>1 DEF Tracked
    <2>2. PICK j \in DOMAIN other : other[j] = table[i]
      BY <2>1
    <2> QED
      BY <2>1, <2>2, TimesOfRow
  <1>2. CASE ~Tracked(table, key)
    <2>1. ~Tracked(other, key)
      BY <1>2 DEF Tracked
    <2> QED
      BY <1>2, <2>1 DEF Times
  <1> QED
    BY <1>1, <1>2

LEMMA Removed ==
  ASSUME NEW Rows, NEW table, Table(table, Rows), NEW p \in DOMAIN table
  PROVE  /\ RemoveAt(table, p) \in Seq([key : Rows, times : Seq(Nat)])
         /\ Len(RemoveAt(table, p)) = Len(table) - 1
         /\ \A i \in 1 .. Len(table) - 1 : RemoveAt(table, p)[i] = IF i < p THEN table[i] ELSE table[i + 1]
  <1>0. PICK S : S = [key : Rows, times : Seq(Nat)]
    OBVIOUS
  <1>1. table \in Seq(S) /\ Len(table) \in Nat /\ p \in 1 .. Len(table)
    BY <1>0, LenProperties DEF Table
  <1>2. PICK a : a = SubSeq(table, 1, p - 1)
    OBVIOUS
  <1>3. PICK b : b = SubSeq(table, p + 1, Len(table))
    OBVIOUS
  <1>4. a \in Seq(S) /\ Len(a) = p - 1 /\ \A i \in 1 .. p - 1 : a[i] = table[i]
    <2>1. 1 \in 1 .. Len(table) + 1 /\ p - 1 \in 1 - 1 .. Len(table) /\ p - 1 - 1 + 1 = p - 1
      BY <1>1
    <2>2. a \in Seq(S) /\ Len(a) = p - 1 - 1 + 1 /\ \A i \in 1 .. p - 1 - 1 + 1 : a[i] = table[1 - 1 + i]
      BY <1>1, <1>2, <2>1, PieceOfSeq
    <2> QED
      BY <2>1, <2>2
  <1>5. b \in Seq(S) /\ Len(b) = Len(table) - p /\ \A i \in 1 .. Len(table) - p : b[i] = table[p + i]
    <2>1. p + 1 \in 1 .. Len(table) + 1 /\ Len(table) \in p + 1 - 1 .. Len(table)
          /\ Len(table) - (p + 1) + 1 = Len(table) - p /\ p + 1 - 1 = p
      BY <1>1
    <2>2. b \in Seq(S) /\ Len(b) = Len(table) - (p + 1) + 1
          /\ \A i \in 1 .. Len(table) - (p + 1) + 1 : b[i] = table[p + 1 - 1 + i]
      BY <1>1, <1>3, <2>1, PieceOfSeq, SMTT(30)
    <2> QED
      BY <2>1, <2>2
  <1>6. /\ a \o b \in Seq(S) /\ Len(a \o b) = Len(a) + Len(b)
        /\ \A i \in 1 .. Len(a) + Len(b) : (a \o b)[i] = IF i <= Len(a) THEN a[i] ELSE b[i - Len(a)]
    BY <1>4, <1>5, ConcatProperties
  <1>7. RemoveAt(table, p) = a \o b
    BY <1>2, <1>3 DEF RemoveAt
  <1>8. Len(a) + Len(b) = Len(table) - 1
    BY <1>1, <1>4, <1>5
  <1>9. ASSUME NEW i \in 1 .. Len(table) - 1
        PROVE  RemoveAt(table, p)[i] = IF i < p THEN table[i] ELSE table[i + 1]
    <2>1. RemoveAt(table, p)[i] = IF i <= Len(a) THEN a[i] ELSE b[i - Len(a)]
      BY <1>6, <1>7, <1>8
    <2>2. CASE i < p
      <3>1. i <= Len(a) /\ i \in 1 .. p - 1
        BY <1>1, <1>4, <2>2
      <3> QED
        BY <2>1, <2>2, <3>1, <1>4
    <2>3. CASE ~(i < p)
      <3>1. ~(i <= Len(a)) /\ i - Len(a) \in 1 .. Len(table) - p /\ p + (i - Len(a)) = i + 1
        BY <1>1, <1>4, <2>3
      <3> QED
        BY <2>1, <2>3, <3>1, <1>5
    <2> QED
      BY <2>2, <2>3
  <1> QED
    BY <1>0, <1>6, <1>7, <1>8, <1>9

\* The row goes to the end with its new times; the others stay.
LEMMA MovedLemma ==
  ASSUME NEW Rows, NEW table, Table(table, Rows), NEW key \in Rows, NEW times \in Seq(Nat),
         NEW new, new = MovedToEnd(table, key, times)
  PROVE  /\ Table(new, Rows)
         /\ Times(new, key) = times
         /\ \A k : k # key => Times(new, k) = Times(table, k)
  <1> DEFINE rest == IF Tracked(table, key) THEN RemoveAt(table, Place(table, key)) ELSE table
             row == [key |-> key, times |-> times]
  <1>0. table \in Seq([key : Rows, times : Seq(Nat)])
    BY DEF Table
  <1>1. /\ Table(rest, Rows) /\ \A i \in DOMAIN rest : rest[i].key # key
        /\ \A i \in DOMAIN rest : \E j \in DOMAIN table : rest[i] = table[j]
        /\ \A j \in DOMAIN table : table[j].key # key => \E i \in DOMAIN rest : rest[i] = table[j]
    <2>1. CASE Tracked(table, key)
      <3> DEFINE p == Place(table, key)
      <3>1. p \in DOMAIN table /\ table[p].key = key
        BY <2>1 DEF Tracked, Place
      <3>2. rest = RemoveAt(table, p)
        BY <2>1
      <3> HIDE DEF p, rest
      <3>3. /\ rest \in Seq([key : Rows, times : Seq(Nat)]) /\ Len(rest) = Len(table) - 1
            /\ \A i \in 1 .. Len(table) - 1 : rest[i] = IF i < p THEN table[i] ELSE table[i + 1]
        BY <3>1, <3>2, Removed
      <3>4. DOMAIN rest = 1 .. Len(table) - 1 /\ DOMAIN table = 1 .. Len(table) /\ Len(table) \in Nat /\ p \in Nat
        BY <3>1, <3>3, <1>0
      <3>5. \A i \in DOMAIN rest : (IF i < p THEN i ELSE i + 1) \in DOMAIN table \ {p}
        BY <3>1, <3>4
      <3>6. \A i \in DOMAIN rest : rest[i] = table[IF i < p THEN i ELSE i + 1]
        BY <3>3, <3>4
      <3>7. \A i \in DOMAIN rest : rest[i].key # key
        BY <3>1, <3>5, <3>6 DEF Table
      <3>8. \A i, j \in DOMAIN rest : rest[i].key = rest[j].key => i = j
        <4> TAKE i, j \in DOMAIN rest
        <4> HAVE rest[i].key = rest[j].key
        <4> DEFINE x == IF i < p THEN i ELSE i + 1
                   y == IF j < p THEN j ELSE j + 1
        <4>1. x \in DOMAIN table /\ y \in DOMAIN table /\ rest[i] = table[x] /\ rest[j] = table[y]
          BY <3>5, <3>6
        <4>2. x = y
          BY <4>1 DEF Table
        <4> QED
          BY <4>2, <3>4
      <3>9. \A j \in DOMAIN table : table[j].key # key => \E i \in DOMAIN rest : rest[i] = table[j]
        <4> TAKE j \in DOMAIN table
        <4> HAVE table[j].key # key
        <4> DEFINE i == IF j < p THEN j ELSE j - 1
        <4>1. j # p
          BY <3>1
        <4>2. i \in DOMAIN rest /\ (IF i < p THEN i ELSE i + 1) = j
          BY <4>1, <3>4, <3>1
        <4>3. rest[i] = table[j]
          BY <4>2, <3>6
        <4> QED
          BY <4>2, <4>3
      <3> QED
        BY <3>3, <3>5, <3>6, <3>7, <3>8, <3>9 DEF Table
    <2>2. CASE ~Tracked(table, key)
      BY <2>2 DEF Tracked
    <2> QED
      BY <2>1, <2>2
  <1>2. new = Append(rest, row)
    BY DEF MovedToEnd
  <1> HIDE DEF rest
  <1>3. rest \in Seq([key : Rows, times : Seq(Nat)]) /\ row \in [key : Rows, times : Seq(Nat)]
    BY <1>1 DEF Table
  <1>4. /\ new \in Seq([key : Rows, times : Seq(Nat)]) /\ Len(new) = Len(rest) + 1 /\ new[Len(rest) + 1] = row
        /\ \A i \in DOMAIN rest : new[i] = rest[i]
        /\ DOMAIN new = 1 .. Len(rest) + 1 /\ DOMAIN rest = 1 .. Len(rest) /\ Len(rest) \in Nat
    BY <1>2, <1>3
  <1>5. Table(new, Rows)
    <2>1. \A i, j \in DOMAIN new : new[i].key = new[j].key => i = j
      <3> TAKE i, j \in DOMAIN new
      <3> HAVE new[i].key = new[j].key
      <3>1. (i = Len(rest) + 1 \/ i \in DOMAIN rest) /\ (j = Len(rest) + 1 \/ j \in DOMAIN rest)
        BY <1>4
      <3>2. row.key = key
        OBVIOUS
      <3>3. CASE i \in DOMAIN rest /\ j \in DOMAIN rest
        BY <3>3, <1>4, <1>1 DEF Table
      <3> QED
        BY <3>1, <3>2, <3>3, <1>4, <1>1
    <2> QED
      BY <2>1, <1>4 DEF Table
  <1>6. Times(new, key) = times
    <2>1. PICK i \in DOMAIN new : new[i] = row
      BY <1>4, SMTT(30)
    <2>2. row.key = key /\ row.times = times
      OBVIOUS
    <2>3. new[i].key = key /\ new[i].times = times
      BY <2>1, <2>2
    <2> HIDE DEF row
    <2>4. Times(new, key) = new[i].times
      BY ONLY <1>5, <2>1, <2>3, TimesOfRow
    <2> QED
      BY <2>3, <2>4
  <1>7. \A k : k # key => Times(new, k) = Times(table, k)
    <2> TAKE k
    <2> HAVE k # key
    <2>1. \A i \in DOMAIN table : table[i].key = k => \E j \in DOMAIN new : new[j] = table[i]
      BY <1>1, <1>4
    <2>2. \A j \in DOMAIN new : new[j].key = k => \E i \in DOMAIN table : new[j] = table[i]
      <3> TAKE j \in DOMAIN new
      <3> HAVE new[j].key = k
      <3>1. j \in DOMAIN rest
        BY <1>4
      <3> QED
        BY <3>1, <1>1, <1>4
    <2> QED
      BY <2>1, <2>2, <1>5, SameRow
  <1> QED
    BY <1>5, <1>6, <1>7

LEMMA LeastOne ==
  ASSUME NEW S \in SUBSET Nat, S # {}
  PROVE  Min(S) \in S /\ \A j \in S : Min(S) <= j
  <1>1. IsWellFoundedOn(OpToRel(<, Nat), Nat)
    BY NatLessThanWellFounded
  <1>2. PICK i \in S : \A j \in S : ~ (<<j, i>> \in OpToRel(<, Nat))
    BY <1>1, WFMin
  <1>3. \A j \in S : ~(j < i)
    BY <1>2 DEF OpToRel
  <1>4. \A j \in S : i <= j
    BY <1>3
  <1> QED
    BY <1>4 DEF Min

\* Pruning drops from the front what has left the window.
LEMMA PruneLemma ==
  ASSUME NEW times \in Seq(Nat), NEW at \in Nat
  PROVE  \E n \in 0 .. Len(times) :
           /\ _prune(times, at) \in Seq(Nat) /\ Len(_prune(times, at)) = Len(times) - n
           /\ \A i \in 1 .. Len(times) - n : _prune(times, at)[i] = times[n + i]
           /\ \A i \in 1 .. n : times[i] <= at - WindowTicks
           /\ n < Len(times) => times[n + 1] > at - WindowTicks
  <1> DEFINE young == {i \in DOMAIN times : times[i] > at - WindowTicks}
  <1>0. DOMAIN times = 1 .. Len(times) /\ Len(times) \in Nat /\ (\A i \in 1 .. Len(times) : times[i] \in Nat)
        /\ WindowTicks \in Nat
    BY RateBounds
  <1>1. CASE young = {}
    <2>1. _prune(times, at) = <<>>
      BY <1>1 DEF _prune
    <2>2. \A i \in 1 .. Len(times) : times[i] <= at - WindowTicks
      BY <1>0, <1>1
    <2>3. <<>> \in Seq(Nat) /\ Len(<<>>) = 0 /\ Len(times) - Len(times) = 0 /\ Len(times) \in 0 .. Len(times)
      BY <1>0
    <2>4. _prune(times, at) \in Seq(Nat) /\ Len(_prune(times, at)) = Len(times) - Len(times)
      BY <2>1, <2>3
    <2> QED
      BY <2>2, <2>3, <2>4
  <1>2. CASE young # {}
    <2>1. young \in SUBSET Nat
      BY <1>0
    <2>2. Min(young) \in young /\ \A j \in young : Min(young) <= j
      BY <1>2, <2>1, LeastOne
    <2>3. PICK m : m = Min(young)
      OBVIOUS
    <2>4. m \in 1 .. Len(times) /\ times[m] > at - WindowTicks
      BY <2>2, <2>3, <1>0
    <2>5. _prune(times, at) = SubSeq(times, m, Len(times))
      BY <1>2, <2>3 DEF _prune
    <2>6. m \in 1 .. Len(times) + 1 /\ Len(times) \in m - 1 .. Len(times) /\ Len(times) - m + 1 = Len(times) - (m - 1)
          /\ m - 1 \in 0 .. Len(times) /\ m - 1 + 1 = m
      BY <2>4, <1>0
    <2>7. /\ _prune(times, at) \in Seq(Nat) /\ Len(_prune(times, at)) = Len(times) - m + 1
          /\ \A i \in 1 .. Len(times) - m + 1 : _prune(times, at)[i] = times[m - 1 + i]
      BY <2>5, <2>6, PieceOfSeq
    <2>8. \A i \in 1 .. m - 1 : times[i] <= at - WindowTicks
      <3> TAKE i \in 1 .. m - 1
      <3>1. i \in DOMAIN times /\ ~(m <= i)
        BY <2>4, <1>0
      <3>2. i \notin young
        BY <3>1, <2>2, <2>3
      <3>3. ~(times[i] > at - WindowTicks)
        BY <3>1, <3>2
      <3> QED
        BY <3>1, <3>3, <1>0
    <2> QED
      BY <2>4, <2>6, <2>7, <2>8
  <1> QED
    BY <1>1, <1>2

\* A look prunes the row it looks at, if there is one.
LEMMA LookLemma ==
  ASSUME NEW Rows, NEW table, Table(table, Rows), NEW key, NEW at \in Nat
  PROVE  /\ Table(Pruned(table, key, at), Rows)
         /\ Len(Pruned(table, key, at)) = Len(table)
         /\ Times(Pruned(table, key, at), key) = _prune(Times(table, key), at)
         /\ \A k : k # key => Times(Pruned(table, key, at), k) = Times(table, k)
  <1> DEFINE new == Pruned(table, key, at)
  <1>0. PICK S : S = [key : Rows, times : Seq(Nat)]
    OBVIOUS
  <1>1. table \in Seq(S) /\ Len(table) \in Nat /\ DOMAIN table = 1 .. Len(table) /\ \A i \in 1 .. Len(table) : table[i] \in S
    BY <1>0, LenProperties, ElementOfSeq DEF Table
  <1>2. \A i \in 1 .. Len(table) : table[i].key \in Rows /\ table[i].times \in Seq(Nat)
    BY <1>0, <1>1
  <1>3. \A i \in 1 .. Len(table) :
          /\ table[i].key # key => new[i] = table[i]
          /\ table[i].key = key => (new[i].key = key /\ new[i] \in S /\ new[i].times = _prune(table[i].times, at))
    <2> TAKE i \in 1 .. Len(table)
    <2>1. new[i] = IF table[i].key = key THEN [table[i] EXCEPT !.times = _prune(@, at)] ELSE table[i]
      BY <1>1 DEF Pruned
    <2>2. _prune(table[i].times, at) \in Seq(Nat)
      BY <1>2, PruneLemma
    <2> QED
      BY <2>1, <2>2, <1>0, <1>1
  <1>4. new \in [1 .. Len(table) -> S]
    <2>1. new = [i \in 1 .. Len(table) |-> IF table[i].key = key THEN [table[i] EXCEPT !.times = _prune(@, at)] ELSE table[i]]
      BY <1>1 DEF Pruned
    <2> HIDE DEF new
    <2>2. DOMAIN new = 1 .. Len(table)
      BY <2>1
    <2>3. \A i \in 1 .. Len(table) : new[i] \in S
      BY <1>1, <1>3
    <2> QED
      BY <2>1, <2>2, <2>3
  <1> HIDE DEF new
  <1>5. new \in Seq(S) /\ Len(new) = Len(table) /\ DOMAIN new = 1 .. Len(table)
    BY <1>1, <1>4
  <1>6. \A i \in 1 .. Len(table) : new[i].key = table[i].key
    BY <1>3
  <1>7. Table(new, Rows)
    BY <1>0, <1>1, <1>5, <1>6 DEF Table
  <1>8. Times(new, key) = _prune(Times(table, key), at)
    <2>1. CASE Tracked(table, key)
      <3>1. PICK i \in 1 .. Len(table) : table[i].key = key
        BY <2>1, <1>1 DEF Tracked
      <3>2. Times(table, key) = table[i].times
        BY <3>1, <1>1, TimesOfRow
      <3>3. Times(new, key) = new[i].times
        BY <3>1, <1>5, <1>6, <1>7, TimesOfRow
      <3> QED
        BY <3>1, <3>2, <3>3, <1>3
    <2>2. CASE ~Tracked(table, key)
      <3>1. ~Tracked(new, key)
        BY <2>2, <1>1, <1>5, <1>6 DEF Tracked
      <3>2. Times(new, key) = <<>> /\ Times(table, key) = <<>>
        BY <2>2, <3>1 DEF Times
      <3>3. {i \in DOMAIN <<>> : <<>>[i] > at - WindowTicks} = {}
        OBVIOUS
      <3>4. _prune(<<>>, at) = <<>>
        BY <3>3 DEF _prune
      <3> QED
        BY <3>2, <3>4
    <2> QED
      BY <2>1, <2>2
  <1>9. \A k : k # key => Times(new, k) = Times(table, k)
    <2> TAKE k
    <2> HAVE k # key
    <2>1. \A i \in DOMAIN table : table[i].key = k => \E j \in DOMAIN new : new[j] = table[i]
      BY <1>1, <1>3, <1>5
    <2>2. \A j \in DOMAIN new : new[j].key = k => \E i \in DOMAIN table : new[j] = table[i]
      BY <1>1, <1>3, <1>5, <1>6
    <2> QED
      BY <2>1, <2>2, <1>7, SameRow
  <1> QED
    BY <1>5, <1>7, <1>8, <1>9 DEF new

\* Eviction drops rows from the front that are idle, and none while the table has room.
LEMMA EvictLemma ==
  ASSUME NEW Rows, NEW table, Table(table, Rows), NEW at \in Nat
  PROVE  /\ Table(_evict(table, at), Rows)
         /\ Len(table) <= MaxKeys => _evict(table, at) = table
         /\ \A k : \/ Times(_evict(table, at), k) = Times(table, k)
                   \/ /\ Times(_evict(table, at), k) = <<>>
                      /\ Times(table, k) = <<>> \/ Last(Times(table, k)) <= at - WindowTicks
  <1> DEFINE busy == {i \in DOMAIN table : ~IdleEntry(table[i], at)}
             idle == IF busy = {} THEN Len(table) ELSE Min(busy) - 1
             over == IF Len(table) > MaxKeys THEN Len(table) - MaxKeys ELSE 0
             n == Min({idle, over})
             new == _evict(table, at)
  <1>0. PICK S : S = [key : Rows, times : Seq(Nat)]
    OBVIOUS
  <1>1. table \in Seq(S) /\ Len(table) \in Nat /\ DOMAIN table = 1 .. Len(table) /\ MaxKeys \in Nat
    BY <1>0, LenProperties, RateBounds DEF Table
  <1>2. idle \in 0 .. Len(table) /\ \A i \in 1 .. idle : IdleEntry(table[i], at)
    <2>1. CASE busy = {}
      <3>1. \A i \in 1 .. Len(table) : IdleEntry(table[i], at)
        BY <2>1, <1>1
      <3> QED
        BY <2>1, <3>1, <1>1
    <2>2. CASE busy # {}
      <3>1. busy \in SUBSET Nat
        BY <1>1
      <3>2. Min(busy) \in busy /\ \A j \in busy : Min(busy) <= j
        BY <2>2, <3>1, LeastOne
      <3>3. PICK m : m = Min(busy)
        OBVIOUS
      <3>4. m \in 1 .. Len(table) /\ idle = m - 1
        BY <2>2, <3>2, <3>3, <1>1
      <3>5. \A i \in 1 .. m - 1 : IdleEntry(table[i], at)
        <4> TAKE i \in 1 .. m - 1
        <4>1. i \in DOMAIN table /\ ~(m <= i)
          BY <3>4, <1>1
        <4>2. i \notin busy
          BY <4>1, <3>2, <3>3
        <4> QED
          BY <4>1, <4>2
      <3> HIDE DEF idle
      <3>6. idle \in 0 .. Len(table) /\ 1 .. idle = 1 .. m - 1
        BY <3>4, <1>1
      <3> QED
        BY <3>5, <3>6
    <2> QED
      BY <2>1, <2>2
  <1>3. over \in Nat /\ (Len(table) <= MaxKeys => over = 0)
    <2>1. CASE Len(table) > MaxKeys
      <3>1. over = Len(table) - MaxKeys
        BY <2>1
      <3> HIDE DEF over
      <3> QED
        BY <2>1, <3>1, <1>1
    <2>2. CASE ~(Len(table) > MaxKeys)
      <3>1. over = 0
        BY <2>2
      <3> QED
        BY <3>1
    <2> QED
      BY <2>1, <2>2
  <1> HIDE DEF idle, over, busy
  <1>4. n \in {idle, over} /\ n <= idle /\ n <= over
    <2>1. {idle, over} \in SUBSET Nat /\ {idle, over} # {}
      BY <1>2, <1>3, <1>1
    <2> QED
      BY <2>1, LeastOne
  <1>5. new = SubSeq(table, n + 1, Len(table))
    BY DEF _evict, idle, over, busy
  <1> HIDE DEF n, new
  <1>6. n \in 0 .. Len(table) /\ (Len(table) <= MaxKeys => n = 0) /\ \A i \in 1 .. n : IdleEntry(table[i], at)
    BY <1>1, <1>2, <1>3, <1>4
  <1>7. new \in Seq(S) /\ Len(new) = Len(table) - n /\ DOMAIN new = 1 .. Len(table) - n
        /\ \A i \in 1 .. Len(table) - n : new[i] = table[n + i]
    <2>1. n + 1 \in 1 .. Len(table) + 1 /\ Len(table) \in n + 1 - 1 .. Len(table)
          /\ Len(table) - (n + 1) + 1 = Len(table) - n /\ n + 1 - 1 = n
      BY <1>1, <1>6
    <2>2. PICK m : m = n + 1
      OBVIOUS
    <2>3. new \in Seq(S) /\ Len(new) = Len(table) - m + 1
          /\ \A i \in 1 .. Len(table) - m + 1 : new[i] = table[m - 1 + i]
      BY <1>1, <1>5, <2>1, <2>2, PieceOfSeq
    <2>4. Len(table) - m + 1 = Len(table) - n /\ m - 1 = n
      BY <2>2, <1>1, <1>6
    <2>5. DOMAIN new = 1 .. Len(new)
      BY <2>3, LenProperties
    <2>6. Len(new) = Len(table) - n
      BY <2>3, <2>4
    <2>7. \A i \in 1 .. Len(table) - n : new[i] = table[n + i]
      BY <2>3, <2>4
    <2> QED
      BY <2>3, <2>5, <2>6, <2>7
  <1>8. Table(new, Rows)
    <2>1. \A i, j \in DOMAIN new : new[i].key = new[j].key => i = j
      <3> TAKE i, j \in DOMAIN new
      <3> HAVE new[i].key = new[j].key
      <3>1. n + i \in DOMAIN table /\ n + j \in DOMAIN table /\ new[i] = table[n + i] /\ new[j] = table[n + j]
        BY <1>1, <1>6, <1>7
      <3>2. n + i = n + j
        BY <3>1 DEF Table
      <3> QED
        BY <3>2, <1>6, <1>7
    <2> QED
      BY <2>1, <1>0, <1>7 DEF Table
  <1>9. Len(table) <= MaxKeys => new = table
    <2> HAVE Len(table) <= MaxKeys
    <2>1. n + 1 = 1
      BY <1>6
    <2>2. new = SubSeq(table, 1, Len(table))
      BY <2>1, <1>5
    <2> QED
      BY <2>2, <1>1, SubSeqFull
  <1>10. ASSUME NEW k
         PROVE  \/ Times(new, k) = Times(table, k)
                \/ Times(new, k) = <<>> /\ (Times(table, k) = <<>> \/ Last(Times(table, k)) <= at - WindowTicks)
    <2>1. CASE \E i \in 1 .. n : table[i].key = k
      <3>1. PICK i \in 1 .. n : table[i].key = k
        BY <2>1
      <3>2. i \in DOMAIN table
        BY <1>1, <1>6
      <3>3. Times(table, k) = table[i].times /\ IdleEntry(table[i], at)
        BY <3>1, <3>2, <1>6, TimesOfRow
      <3>4. ~Tracked(new, k)
        <4> SUFFICES ASSUME NEW j \in DOMAIN new, new[j].key = k PROVE FALSE
          BY DEF Tracked
        <4>1. n + j \in DOMAIN table /\ new[j] = table[n + j]
          BY <1>1, <1>6, <1>7
        <4>2. n + j = i
          BY <4>1, <3>1, <3>2 DEF Table
        <4> QED
          BY <4>2, <3>1, <1>6, <1>7
      <3> QED
        BY <3>3, <3>4 DEF Times, IdleEntry
    <2>2. CASE ~\E i \in 1 .. n : table[i].key = k
      <3>1. \A i \in DOMAIN table : table[i].key = k => \E j \in DOMAIN new : new[j] = table[i]
        <4> TAKE i \in DOMAIN table
        <4> HAVE table[i].key = k
        <4>1. i \notin 1 .. n
          BY <2>2
        <4>2. i - n \in DOMAIN new /\ i - n \in 1 .. Len(table) - n /\ n + (i - n) = i
          BY <4>1, <1>1, <1>6, <1>7
        <4> QED
          BY <4>2, <1>7
      <3>2. \A j \in DOMAIN new : new[j].key = k => \E i \in DOMAIN table : new[j] = table[i]
        <4> TAKE j \in DOMAIN new
        <4>1. n + j \in DOMAIN table /\ new[j] = table[n + j]
          BY <1>1, <1>6, <1>7, SMTT(30)
        <4> QED
          BY <4>1
      <3> QED
        BY <3>1, <3>2, <1>8, SameRow
    <2> QED
      BY <2>1, <2>2
  <1> QED
    BY <1>8, <1>9, <1>10 DEF new

LEMMA IntervalCount ==
  ASSUME NEW a \in Int, NEW b \in Int, a <= b
  PROVE  IsFiniteSet(a .. b) /\ Cardinality(a .. b) = b - a + 1
  <1>1. IsFiniteSet(a .. b) /\ Cardinality(a .. b) = IF a > b THEN 0 ELSE b - a + 1
    BY FS_Interval
  <1>2. ~(a > b)
    OBVIOUS
  <1> QED
    BY <1>1, <1>2, Zenon

LEMMA CountUpTo ==
  ASSUME NEW n \in Nat
  PROVE  IsFiniteSet(1 .. n) /\ Cardinality(1 .. n) = n
  <1>1. IsFiniteSet(1 .. n) /\ Cardinality(1 .. n) = IF 1 > n THEN 0 ELSE n - 1 + 1
    BY FS_Interval
  <1>2. (IF 1 > n THEN 0 ELSE n - 1 + 1) = n
    OBVIOUS
  <1> QED
    BY <1>1, <1>2

\* As many rows as keys at most.
LEMMA RowsFit ==
  ASSUME NEW Rows, NEW table, Table(table, Rows), IsFiniteSet(Rows)
  PROVE  Len(table) <= Cardinality(Rows)
  <1>0. PICK S : S = [key : Rows, times : Seq(Nat)]
    OBVIOUS
  <1>1. table \in Seq(S) /\ Len(table) \in Nat /\ DOMAIN table = 1 .. Len(table) /\ \A i \in 1 .. Len(table) : table[i] \in S
    BY <1>0, LenProperties, ElementOfSeq DEF Table
  <1> DEFINE f == [i \in 1 .. Len(table) |-> table[i].key]
  <1>2. f \in Injection(1 .. Len(table), Rows)
    <2>1. f \in [1 .. Len(table) -> Rows]
      BY <1>0, <1>1
    <2>2. \A i, j \in 1 .. Len(table) : f[i] = f[j] => i = j
      BY <1>1 DEF Table
    <2> QED
      BY <2>1, <2>2 DEF Injection, IsInjective
  <1>3. IsFiniteSet(1 .. Len(table)) /\ Cardinality(1 .. Len(table)) = Len(table)
    BY <1>1, CountUpTo
  <1>4. Cardinality(1 .. Len(table)) <= Cardinality(Rows)
    BY <1>2, <1>3, FS_Injection
  <1> QED
    BY <1>3, <1>4

\* A charge: the key's times are pruned, and the charge is recorded at their end unless they fill the window;
\* nobody else loses anything but a row that is idle, and nobody at all while the table has room.
Charged(Rows, table, key, at, old, decision) ==
    /\ Table(decision.table, Rows)
    /\ Len(old) >= HitLimit => decision.allowed = FALSE /\ Times(decision.table, key) = old
    /\ ~(Len(old) >= HitLimit) => decision.allowed = TRUE /\ Times(decision.table, key) = Append(old, at)
    /\ \A k : k # key => \/ Times(decision.table, k) = Times(table, k)
                        \/ /\ Times(decision.table, k) = <<>>
                           /\ Times(table, k) = <<>> \/ Last(Times(table, k)) <= at - WindowTicks
    /\ IsFiniteSet(Rows) /\ Cardinality(Rows) <= MaxKeys => \A k : k # key => Times(decision.table, k) = Times(table, k)

LEMMA CheckLemma ==
  ASSUME NEW Rows, NEW table, Table(table, Rows), NEW key \in Rows, NEW at \in Nat,
         NEW decision, decision = check(table, key, at),
         NEW old, old = _prune(Times(table, key), at)
  PROVE  Charged(Rows, table, key, at, old, decision)
  <1>1. old \in Seq(Nat)
    BY TimesAreTimes, PruneLemma
  <1>2. CASE Len(old) >= HitLimit
    <2>1. decision = [allowed |-> FALSE, table |-> MovedToEnd(table, key, old)]
      BY <1>2 DEF check, Refusal
    <2>2. decision.allowed = FALSE /\ decision.table = MovedToEnd(table, key, old)
      BY <2>1
    <2>3. PICK moved : moved = MovedToEnd(table, key, old)
      OBVIOUS
    <2>4. Table(moved, Rows) /\ Times(moved, key) = old
      BY <1>1, <2>3, MovedLemma
    <2>5. ASSUME NEW k, k # key PROVE Times(moved, k) = Times(table, k)
      BY <1>1, <2>3, <2>5, MovedLemma
    <2>6. decision.allowed = FALSE /\ decision.table = moved
      BY <2>2, <2>3
    <2> QED
      BY <1>2, <2>4, <2>5, <2>6 DEF Charged
  <1>3. CASE ~(Len(old) >= HitLimit)
    <2>1. PICK new : new = Append(old, at)
      OBVIOUS
    <2>2. new \in Seq(Nat) /\ new # <<>> /\ Last(new) = at
      <3>1. Len(new) = Len(old) + 1 /\ new[Len(old) + 1] = at /\ new \in Seq(Nat) /\ Len(old) \in Nat
        BY <1>1, <2>1
      <3> QED
        BY <3>1 DEF Last
    <2>3. PICK moved : moved = MovedToEnd(table, key, new)
      OBVIOUS
    <2>4. Table(moved, Rows) /\ Times(moved, key) = new /\ \A k : k # key => Times(moved, k) = Times(table, k)
      <3>1. Table(moved, Rows) /\ Times(moved, key) = new
        BY <2>2, <2>3, MovedLemma
      <3>2. ASSUME NEW k, k # key PROVE Times(moved, k) = Times(table, k)
        BY <2>2, <2>3, <3>2, MovedLemma
      <3> QED
        BY <3>1, <3>2
    <2>5. decision = [allowed |-> TRUE, table |-> _evict(moved, at)]
      BY <1>3, <2>1, <2>3 DEF check
    <2>6. decision.allowed = TRUE /\ decision.table = _evict(moved, at)
      BY <2>5
    <2>7. /\ Table(decision.table, Rows)
          /\ Len(moved) <= MaxKeys => decision.table = moved
          /\ \A k : \/ Times(decision.table, k) = Times(moved, k)
                    \/ /\ Times(decision.table, k) = <<>>
                       /\ Times(moved, k) = <<>> \/ Last(Times(moved, k)) <= at - WindowTicks
      BY <2>4, <2>6, EvictLemma
    <2>8. Times(decision.table, key) = new
      <3>1. ~(Last(new) <= at - WindowTicks)
        BY <2>2, RateBounds
      <3> QED
        BY <2>2, <2>4, <2>7, <3>1
    <2>9. IsFiniteSet(Rows) /\ Cardinality(Rows) <= MaxKeys => \A k : k # key => Times(decision.table, k) = Times(table, k)
      <3> HAVE IsFiniteSet(Rows) /\ Cardinality(Rows) <= MaxKeys
      <3>1. Len(moved) <= Cardinality(Rows)
        BY <2>4, RowsFit
      <3>2. Cardinality(Rows) \in Nat /\ Len(moved) \in Nat
        BY <2>4, FS_CardinalityType, LenProperties DEF Table
      <3>3. Len(moved) <= MaxKeys
        BY <3>1, <3>2, RateBounds
      <3>4. decision.table = moved
        BY <3>3, <2>7
      <3> QED
        BY <3>4, <2>4
    <2>10. \A k : k # key => \/ Times(decision.table, k) = Times(table, k)
                            \/ /\ Times(decision.table, k) = <<>>
                               /\ Times(table, k) = <<>> \/ Last(Times(table, k)) <= at - WindowTicks
      BY <2>4, <2>7
    <2>11. decision.allowed = TRUE /\ Times(decision.table, key) = Append(old, at) /\ Table(decision.table, Rows)
      BY <2>1, <2>6, <2>7, <2>8
    <2> QED
      BY <1>3, <2>9, <2>10, <2>11 DEF Charged
  <1> QED
    BY <1>2, <1>3
----------------------------------------------------------------------------
(* The window of a client.                                                 *)

GuessStates == {NoAttempt} \cup [on : Mailboxes, clock : Nat]

RateTypes ==
    /\ Table(requests_, Clients) /\ Table(failures_, Mailboxes)
    /\ second \in Nat \ {0}
    /\ attempt \in [Guesses -> GuessStates]
    /\ admitted \in [Clients -> Seq(Nat)] /\ missed \in [Mailboxes -> Seq(Nat)]
    /\ retry \in [Clients -> Nat]

\* Admissions in order, each a window after the one a whole limit before it.
Spaced(hits, at) ==
    /\ \A i, j \in 1 .. Len(hits) : i <= j => hits[i] <= hits[j]
    /\ \A i \in 1 .. Len(hits) : hits[i] <= at
    /\ \A j \in 1 .. Len(hits) : j > HitLimit => hits[j - HitLimit] <= hits[j] - WindowTicks

\* The table knows the latest admissions, at most a limit of them; what it forgot has left the window.
Remembered(times, hits, at) ==
    /\ Len(times) <= HitLimit /\ Len(times) <= Len(hits)
    /\ \A i \in 1 .. Len(times) : times[i] = hits[Len(hits) - Len(times) + i]
    /\ Len(times) < Len(hits) => hits[Len(hits) - Len(times)] <= at - WindowTicks

Told(c) == retry[c] # 0 /\ Times(requests_, c) # <<>> => retry[c] = Times(requests_, c)[1] + WindowTicks

ClientInv ==
    \A c \in Clients : Spaced(admitted[c], second) /\ Remembered(Times(requests_, c), admitted[c], second) /\ Told(c)

\* In a window there are no more hits than the limit.
LEMMA SpacedWithin ==
  ASSUME NEW hits \in Seq(Nat), NEW till, Spaced(hits, till), NEW at \in Nat
  PROVE  Within(hits, at) <= HitLimit
  <1> DEFINE W == {i \in DOMAIN hits : hits[i] > at - WindowTicks /\ hits[i] <= at}
  <1>0. DOMAIN hits = 1 .. Len(hits) /\ Len(hits) \in Nat /\ (\A i \in 1 .. Len(hits) : hits[i] \in Nat)
        /\ WindowTicks \in Nat /\ HitLimit \in Nat \ {0}
    BY RateBounds
  <1>1. CASE W = {}
    <2>1. Within(hits, at) = 0
      BY <1>1, FS_EmptySet DEF Within
    <2> QED
      BY <2>1, <1>0
  <1>2. CASE W # {}
    <2>1. W \in SUBSET Nat
      BY <1>0
    <2>2. Min(W) \in W /\ \A j \in W : Min(W) <= j
      BY <1>2, <2>1, LeastOne
    <2>3. PICK m : m = Min(W)
      OBVIOUS
    <2>4. m \in 1 .. Len(hits) /\ hits[m] > at - WindowTicks
      BY <2>2, <2>3, <1>0
    <2>5. W \subseteq m .. m + HitLimit - 1
      <3> SUFFICES ASSUME NEW j \in W PROVE j \in m .. m + HitLimit - 1
        OBVIOUS
      <3>1. j \in 1 .. Len(hits) /\ hits[j] <= at /\ m <= j
        BY <2>2, <2>3, <1>0
      <3>2. CASE j >= m + HitLimit
        <4>1. j - HitLimit \in 1 .. Len(hits) /\ j > HitLimit /\ m <= j - HitLimit
          BY <3>1, <3>2, <2>4, <1>0, SMTT(30)
        <4>2. hits[j - HitLimit] <= hits[j] - WindowTicks /\ hits[m] <= hits[j - HitLimit]
          BY <4>1, <3>1, <2>4 DEF Spaced
        <4>3. hits[j - HitLimit] \in Nat /\ hits[j] \in Nat /\ hits[m] \in Nat
          BY <4>1, <3>1, <2>4, <1>0
        <4>4. PICK x, y, z : x = hits[j - HitLimit] /\ y = hits[j] /\ z = hits[m]
          OBVIOUS
        <4>5. /\ x \in Nat /\ y \in Nat /\ z \in Nat /\ WindowTicks \in Nat
              /\ x <= y - WindowTicks /\ z <= x /\ y <= at /\ z > at - WindowTicks
          BY <4>2, <4>3, <4>4, <3>1, <2>4, <1>0
        <4>6. FALSE
          BY ONLY <4>5, at \in Nat
        <4> QED
          BY <4>6
      <3> QED
        BY <3>1, <3>2, <2>4, <1>0
    <2>6. IsFiniteSet(m .. m + HitLimit - 1) /\ Cardinality(m .. m + HitLimit - 1) = HitLimit
      <3>1. PICK b : b = m + HitLimit - 1
        OBVIOUS
      <3>2. m \in Int /\ b \in Int /\ m <= b /\ b - m + 1 = HitLimit
        BY <2>4, <3>1, <1>0
      <3> QED
        BY <3>1, <3>2, IntervalCount
    <2>7. Cardinality(W) <= HitLimit
      <3>1. PICK X : X = m .. m + HitLimit - 1
        OBVIOUS
      <3>2. PICK Y : Y = W
        OBVIOUS
      <3>3. Y \in SUBSET X /\ IsFiniteSet(X) /\ Cardinality(X) = HitLimit
        BY <2>5, <2>6, <3>1, <3>2
      <3>4. Cardinality(Y) <= Cardinality(X)
        BY <3>3, FS_Subset
      <3> QED
        BY <3>2, <3>3, <3>4
    <2> QED
      BY <2>7 DEF Within
  <1> QED
    BY <1>1, <1>2

\* Time makes nothing of this false.
LEMMA LaterOn ==
  ASSUME NEW hits \in Seq(Nat), NEW times \in Seq(Nat), NEW at \in Nat, Spaced(hits, at), Remembered(times, hits, at)
  PROVE  Spaced(hits, at + 1) /\ Remembered(times, hits, at + 1)
  <1>1. Len(hits) \in Nat /\ Len(times) \in Nat /\ \A i \in 1 .. Len(hits) : hits[i] \in Nat
    OBVIOUS
  <1>2. Spaced(hits, at + 1)
    <2>1. ASSUME NEW i \in 1 .. Len(hits) PROVE hits[i] <= at + 1
      <3>1. hits[i] \in Nat /\ hits[i] <= at
        BY <1>1 DEF Spaced
      <3> QED
        BY <3>1
    <2> QED
      BY <2>1 DEF Spaced
  <1>3. PICK later : later = at + 1
    OBVIOUS
  <1>4. Len(times) < Len(hits) => hits[Len(hits) - Len(times)] <= later - WindowTicks
    <2> HAVE Len(times) < Len(hits)
    <2>1. Len(hits) - Len(times) \in 1 .. Len(hits)
      BY <1>1
    <2>2. hits[Len(hits) - Len(times)] \in Nat /\ hits[Len(hits) - Len(times)] <= at - WindowTicks
      BY <1>1, <2>1 DEF Remembered
    <2> QED
      BY <2>2, <1>3, RateBounds
  <1>5. Remembered(times, hits, later)
    BY <1>4 DEF Remembered
  <1> QED
    BY <1>2, <1>3, <1>5

\* A row whose latest hit has left the window may be dropped.
LEMMA Forgotten ==
  ASSUME NEW hits \in Seq(Nat), NEW times \in Seq(Nat), NEW at \in Nat, Remembered(times, hits, at),
         times = <<>> \/ Last(times) <= at - WindowTicks
  PROVE  Remembered(<<>>, hits, at)
  <1>1. Len(hits) \in Nat /\ Len(times) \in Nat /\ HitLimit \in Nat
    BY RateBounds
  <1>2. Len(hits) > 0 => hits[Len(hits)] <= at - WindowTicks
    <2> HAVE Len(hits) > 0
    <2>1. CASE times = <<>>
      <3>1. Len(times) = 0 /\ Len(hits) - Len(times) = Len(hits) /\ Len(times) < Len(hits)
        BY <2>1, <1>1
      <3>2. hits[Len(hits) - Len(times)] <= at - WindowTicks
        BY <3>1 DEF Remembered
      <3> QED
        BY <3>1, <3>2
    <2>2. CASE times # <<>>
      <3>1. Len(times) \in 1 .. Len(times) /\ Len(hits) - Len(times) + Len(times) = Len(hits)
        BY <2>2, <1>1
      <3>2. times[Len(times)] = hits[Len(hits) - Len(times) + Len(times)]
        BY <3>1 DEF Remembered
      <3>3. Last(times) = hits[Len(hits)]
        BY <3>1, <3>2 DEF Last
      <3> QED
        BY <2>2, <3>3
    <2> QED
      BY <2>1, <2>2
  <1>3. Len(<<>>) = 0 /\ Len(hits) - 0 = Len(hits)
    BY <1>1
  <1> QED
    BY <1>1, <1>2, <1>3 DEF Remembered

\* Pruning forgets only what has left the window, and nothing of a window that stays full.
LEMMA PrunedIsRemembered ==
  ASSUME NEW hits \in Seq(Nat), NEW times \in Seq(Nat), NEW at \in Nat, Remembered(times, hits, at),
         NEW old, old = _prune(times, at)
  PROVE  /\ Remembered(old, hits, at)
         /\ Len(old) >= HitLimit => old # <<>> /\ times # <<>> /\ old[1] = times[1]
  <1>1. PICK n \in 0 .. Len(times) :
           /\ old \in Seq(Nat) /\ Len(old) = Len(times) - n
           /\ \A i \in 1 .. Len(times) - n : old[i] = times[n + i]
           /\ \A i \in 1 .. n : times[i] <= at - WindowTicks
    BY PruneLemma
  <1>2. /\ Len(hits) \in Nat /\ Len(times) \in Nat /\ n \in Nat /\ n <= Len(times) /\ HitLimit \in Nat \ {0}
        /\ Len(times) <= HitLimit /\ Len(times) <= Len(hits)
    BY RateBounds DEF Remembered
  <1>3. Len(old) <= HitLimit /\ Len(old) <= Len(hits) /\ Len(old) \in Nat
    BY <1>1, <1>2
  <1>4. ASSUME NEW i \in 1 .. Len(old) PROVE old[i] = hits[Len(hits) - Len(old) + i]
    <2>1. i \in 1 .. Len(times) - n /\ n + i \in 1 .. Len(times)
          /\ Len(hits) - Len(times) + (n + i) = Len(hits) - Len(old) + i
      BY <1>1, <1>2
    <2>2. times[n + i] = hits[Len(hits) - Len(times) + (n + i)]
      BY <2>1 DEF Remembered
    <2> QED
      BY <1>1, <2>1, <2>2
  <1>5. ASSUME Len(old) < Len(hits) PROVE hits[Len(hits) - Len(old)] <= at - WindowTicks
    <2>1. CASE n = 0
      <3>1. Len(old) = Len(times)
        BY <1>1, <1>2, <2>1
      <3> QED
        BY <1>5, <3>1 DEF Remembered
    <2>2. CASE n # 0
      <3>1. n \in 1 .. n /\ n \in 1 .. Len(times) /\ Len(hits) - Len(times) + n = Len(hits) - Len(old)
        BY <1>1, <1>2, <2>2
      <3>2. times[n] = hits[Len(hits) - Len(times) + n] /\ times[n] <= at - WindowTicks
        BY <3>1, <1>1 DEF Remembered
      <3> QED
        BY <3>1, <3>2
    <2> QED
      BY <2>1, <2>2
  <1>6. ASSUME Len(old) >= HitLimit PROVE old # <<>> /\ times # <<>> /\ old[1] = times[1]
    <2>1. n = 0 /\ Len(old) # 0 /\ Len(times) # 0 /\ 1 \in 1 .. Len(times) - n /\ n + 1 = 1
      BY <1>1, <1>2, <1>6
    <2>2. old[1] = times[1]
      BY <1>1, <2>1
    <2>3. old # <<>> /\ times # <<>>
      BY <2>1
    <2> QED
      BY <2>2, <2>3
  <1> QED
    BY <1>3, <1>4, <1>5, <1>6 DEF Remembered

\* An admission where the window has room comes a window after the one a whole limit before it.
LEMMA AppendedIsSpaced ==
  ASSUME NEW hits \in Seq(Nat), NEW old \in Seq(Nat), NEW at \in Nat, Spaced(hits, at), Remembered(old, hits, at),
         ~(Len(old) >= HitLimit)
  PROVE  Spaced(Append(hits, at), at) /\ Remembered(Append(old, at), Append(hits, at), at)
  <1>1. PICK more : more = Append(hits, at)
    OBVIOUS
  <1>2. PICK new : new = Append(old, at)
    OBVIOUS
  <1>3. /\ Len(hits) \in Nat /\ Len(old) \in Nat /\ HitLimit \in Nat \ {0} /\ WindowTicks \in Nat
        /\ Len(old) < HitLimit /\ Len(old) <= Len(hits)
    BY RateBounds DEF Remembered
  <1>4. /\ more \in Seq(Nat) /\ Len(more) = Len(hits) + 1 /\ more[Len(hits) + 1] = at
        /\ \A i \in 1 .. Len(hits) : more[i] = hits[i] /\ hits[i] \in Nat
    BY <1>1
  <1>5. /\ new \in Seq(Nat) /\ Len(new) = Len(old) + 1 /\ new[Len(old) + 1] = at
        /\ \A i \in 1 .. Len(old) : new[i] = old[i]
    BY <1>2
  <1>6. ASSUME NEW i \in 1 .. Len(more) PROVE more[i] <= at
    <2>1. i = Len(hits) + 1 \/ i \in 1 .. Len(hits)
      BY <1>3, <1>4
    <2>2. CASE i = Len(hits) + 1
      BY <2>2, <1>4
    <2>3. CASE i \in 1 .. Len(hits)
      <3>1. more[i] = hits[i] /\ hits[i] <= at
        BY <2>3, <1>4 DEF Spaced
      <3> QED
        BY <3>1
    <2> QED
      BY <2>1, <2>2, <2>3
  <1>7. ASSUME NEW i \in 1 .. Len(more), NEW j \in 1 .. Len(more), i <= j PROVE more[i] <= more[j]
    <2>1. j = Len(hits) + 1 \/ (i \in 1 .. Len(hits) /\ j \in 1 .. Len(hits))
      BY <1>3, <1>4, <1>7, SMTT(30)
    <2>2. CASE j = Len(hits) + 1
      BY <2>2, <1>4, <1>6
    <2>3. CASE i \in 1 .. Len(hits) /\ j \in 1 .. Len(hits)
      <3>1. more[i] = hits[i] /\ more[j] = hits[j] /\ hits[i] <= hits[j]
        BY <2>3, <1>4, <1>7 DEF Spaced
      <3> QED
        BY <3>1
    <2> QED
      BY <2>1, <2>2, <2>3
  <1>8. ASSUME NEW j \in 1 .. Len(more), j > HitLimit PROVE more[j - HitLimit] <= more[j] - WindowTicks
    <2>1. j - HitLimit \in 1 .. Len(hits)
      BY <1>3, <1>4, <1>8
    <2>2. CASE j \in 1 .. Len(hits)
      <3>1. more[j - HitLimit] = hits[j - HitLimit] /\ more[j] = hits[j]
        BY <2>1, <2>2, <1>4
      <3> QED
        BY <3>1, <2>2, <1>8 DEF Spaced
    <2>3. CASE j = Len(hits) + 1
      <3>1. PICK last : last = Len(hits) - Len(old)
        OBVIOUS
      <3>2. last \in 1 .. Len(hits) /\ j - HitLimit <= last /\ Len(old) < Len(hits)
        BY <3>1, <2>1, <2>3, <1>3
      <3>3. hits[last] <= at - WindowTicks
        BY <3>1, <3>2 DEF Remembered
      <3>4. hits[j - HitLimit] <= hits[last]
        BY <2>1, <3>2 DEF Spaced
      <3>5. more[j] = at /\ more[j - HitLimit] = hits[j - HitLimit] /\ hits[j - HitLimit] \in Nat /\ hits[last] \in Nat
        BY <1>4, <2>1, <2>3, <3>2
      <3>6. PICK x, y : x = hits[j - HitLimit] /\ y = hits[last]
        OBVIOUS
      <3>7. x \in Nat /\ y \in Nat /\ x <= y /\ y <= at - WindowTicks
        BY <3>3, <3>4, <3>5, <3>6
      <3>8. x <= at - WindowTicks
        BY ONLY <3>7, <1>3, at \in Nat
      <3> QED
        BY <3>5, <3>6, <3>8
    <2> QED
      BY <2>2, <2>3, <1>3, <1>4
  <1>9. Spaced(more, at)
    BY <1>6, <1>7, <1>8 DEF Spaced
  <1>10. ASSUME NEW i \in 1 .. Len(new) PROVE new[i] = more[Len(more) - Len(new) + i]
    <2>1. i = Len(old) + 1 \/ i \in 1 .. Len(old)
      BY <1>3, <1>5
    <2>2. Len(more) - Len(new) + i = Len(hits) - Len(old) + i /\ Len(hits) - Len(old) + (Len(old) + 1) = Len(hits) + 1
      BY <1>3, <1>4, <1>5
    <2>3. CASE i = Len(old) + 1
      BY <2>2, <2>3, <1>4, <1>5
    <2>4. CASE i \in 1 .. Len(old)
      <3>1. Len(hits) - Len(old) + i \in 1 .. Len(hits)
        BY <2>4, <1>3
      <3>2. old[i] = hits[Len(hits) - Len(old) + i]
        BY <2>4 DEF Remembered
      <3> QED
        BY <2>2, <2>4, <3>1, <3>2, <1>4, <1>5
    <2> QED
      BY <2>1, <2>3, <2>4
  <1>11. ASSUME Len(new) < Len(more) PROVE more[Len(more) - Len(new)] <= at - WindowTicks
    <2>1. Len(more) - Len(new) = Len(hits) - Len(old) /\ Len(hits) - Len(old) \in 1 .. Len(hits) /\ Len(old) < Len(hits)
      BY <1>3, <1>4, <1>5, <1>11, SMTT(30)
    <2>2. hits[Len(hits) - Len(old)] <= at - WindowTicks
      BY <2>1 DEF Remembered
    <2> QED
      BY <2>1, <2>2, <1>4
  <1>12. Len(new) <= HitLimit /\ Len(new) <= Len(more)
    BY <1>3, <1>4, <1>5
  <1>13. Remembered(new, more, at)
    BY <1>10, <1>11, <1>12 DEF Remembered
  <1> QED
    BY <1>1, <1>2, <1>9, <1>13

LEMMA RatesStart == RateInit => RateTypes /\ ClientInv
  <1> SUFFICES ASSUME RateInit PROVE RateTypes /\ ClientInv
    OBVIOUS
  <1>0. requests_ = <<>> /\ failures_ = <<>> /\ second = 1
    BY DEF RateInit
  <1>1. Table(<<>>, Clients) /\ Table(<<>>, Mailboxes)
    BY DEF Table
  <1>2. RateTypes
    BY <1>0, <1>1 DEF RateInit, RateTypes, GuessStates
  <1>3. ASSUME NEW c \in Clients
        PROVE  Spaced(admitted[c], second) /\ Remembered(Times(requests_, c), admitted[c], second) /\ Told(c)
    <2>1. admitted[c] = <<>> /\ Len(<<>>) = 0 /\ retry[c] = 0
      BY DEF RateInit
    <2>2. ~Tracked(requests_, c)
      BY <1>0 DEF Tracked
    <2>3. Times(requests_, c) = <<>>
      BY <2>2 DEF Times
    <2>4. Spaced(<<>>, second)
      BY DEF Spaced
    <2>5. Remembered(<<>>, <<>>, second)
      BY <2>1, RateBounds DEF Remembered
    <2> QED
      BY <2>1, <2>3, <2>4, <2>5 DEF Told
  <1> QED
    BY <1>2, <1>3 DEF ClientInv

\* What a request leaves: its own row pruned, and charged if it was admitted.
LEMMA RequestKeepsOthers ==
  ASSUME RateTypes, ClientInv, NEW c \in Clients, request(c), NEW d \in Clients, d # c
  PROVE  /\ Spaced(admitted'[d], second') /\ Remembered(Times(requests_', d), admitted'[d], second')
         /\ retry'[d] = retry[d] /\ (Times(requests_', d) = <<>> \/ Times(requests_', d) = Times(requests_, d))
         /\ Told(d)'
  <1>1. PICK decision : decision = check(requests_, c, second)
    OBVIOUS
  <1>2. Table(requests_, Clients) /\ second \in Nat /\ admitted[d] \in Seq(Nat) /\ Times(requests_, d) \in Seq(Nat)
    BY TimesAreTimes DEF RateTypes
  <1>3. requests_' = decision.table /\ second' = second /\ admitted'[d] = admitted[d] /\ retry'[d] = retry[d]
    BY <1>1 DEF request, RateTypes
  <1>4. PICK old : old = _prune(Times(requests_, c), second)
    OBVIOUS
  <1>5. \/ Times(requests_', d) = Times(requests_, d)
        \/ /\ Times(requests_', d) = <<>>
           /\ Times(requests_, d) = <<>> \/ Last(Times(requests_, d)) <= second - WindowTicks
    <2>1. Charged(Clients, requests_, c, second, old, decision)
      BY <1>1, <1>2, <1>4, CheckLemma
    <2> QED
      BY <2>1, <1>3 DEF Charged
  <1>6. Spaced(admitted[d], second) /\ Remembered(Times(requests_, d), admitted[d], second) /\ Told(d)
    BY DEF ClientInv
  <1>7. Remembered(Times(requests_', d), admitted[d], second)
    BY <1>2, <1>5, <1>6, Forgotten
  <1>8. Told(d)'
    BY <1>3, <1>5, <1>6 DEF Told
  <1> QED
    BY <1>3, <1>5, <1>6, <1>7, <1>8

LEMMA RequestOfOne ==
  ASSUME RateTypes, ClientInv, NEW c \in Clients, request(c)
  PROVE  /\ Table(requests_', Clients) /\ admitted' \in [Clients -> Seq(Nat)] /\ retry' \in [Clients -> Nat]
         /\ Spaced(admitted'[c], second') /\ Remembered(Times(requests_', c), admitted'[c], second') /\ Told(c)'
         /\ retry[c] # 0 /\ retry'[c] # 0 => retry'[c] = retry[c]
  <1>1. PICK decision : decision = check(requests_, c, second)
    OBVIOUS
  <1>2. PICK times : times = Times(requests_, c)
    OBVIOUS
  <1>3. PICK old : old = _prune(times, second)
    OBVIOUS
  <1>4. /\ Table(requests_, Clients) /\ second \in Nat /\ admitted[c] \in Seq(Nat) /\ times \in Seq(Nat)
        /\ admitted \in [Clients -> Seq(Nat)] /\ retry \in [Clients -> Nat] /\ HitLimit \in Nat \ {0} /\ WindowTicks \in Nat
    BY <1>2, TimesAreTimes, RateBounds DEF RateTypes
  <1>5. requests_' = decision.table /\ second' = second
    BY <1>1 DEF request
  <1>6. /\ Table(requests_', Clients)
        /\ Len(old) >= HitLimit => decision.allowed = FALSE /\ Times(requests_', c) = old
        /\ ~(Len(old) >= HitLimit) => decision.allowed = TRUE /\ Times(requests_', c) = Append(old, second)
    <2>1. Charged(Clients, requests_, c, second, old, decision)
      BY <1>1, <1>2, <1>3, <1>4, CheckLemma
    <2> QED
      BY <2>1, <1>5 DEF Charged
  <1>7. Spaced(admitted[c], second) /\ Remembered(times, admitted[c], second) /\ Told(c)
    BY <1>2 DEF ClientInv
  <1>8. old \in Seq(Nat)
    BY <1>3, <1>4, PruneLemma
  <1>9. /\ Remembered(old, admitted[c], second)
        /\ Len(old) >= HitLimit => old # <<>> /\ times # <<>> /\ old[1] = times[1]
    BY <1>3, <1>4, <1>7, PrunedIsRemembered
  <1>10. CASE ~(Len(old) >= HitLimit)
    <2>1. decision.allowed = TRUE /\ Times(requests_', c) = Append(old, second)
      BY <1>6, <1>10
    <2>2. admitted' = [admitted EXCEPT ![c] = Append(@, second)] /\ retry' = [retry EXCEPT ![c] = 0]
      BY <1>1, <2>1 DEF request
    <2>3. admitted'[c] = Append(admitted[c], second) /\ retry'[c] = 0
      BY <2>2, <1>4
    <2>4. admitted' \in [Clients -> Seq(Nat)] /\ retry' \in [Clients -> Nat]
      BY <2>2, <1>4
    <2>5. Spaced(admitted'[c], second) /\ Remembered(Times(requests_', c), admitted'[c], second)
      BY <2>1, <2>3, <1>4, <1>7, <1>8, <1>9, <1>10, AppendedIsSpaced
    <2> QED
      BY <2>3, <2>4, <2>5, <1>5, <1>6 DEF Told
  <1>11. CASE Len(old) >= HitLimit
    <2>1. decision.allowed = FALSE /\ Times(requests_', c) = old
      BY <1>6, <1>11
    <2>2. admitted' = admitted /\ retry' = [retry EXCEPT ![c] = reset_seconds(decision.table, c)]
      BY <1>1, <2>1 DEF request
    <2>3. old # <<>> /\ times # <<>> /\ old[1] = times[1]
      BY <1>9, <1>11
    <2>4. reset_seconds(decision.table, c) = old[1] + WindowTicks
      BY <2>1, <2>3, <1>5, <1>8 DEF reset_seconds
    <2>5. old[1] \in Nat
      <3>1. 1 \in 1 .. Len(old)
        BY <2>3, <1>8
      <3> QED
        BY <3>1, <1>8, ElementOfSeq
    <2>6. retry'[c] = old[1] + WindowTicks /\ retry' \in [Clients -> Nat]
      BY <2>2, <2>4, <2>5, <1>4
    <2>7. Told(c)'
      BY <2>1, <2>6 DEF Told
    <2>8. retry[c] # 0 => retry'[c] = retry[c]
      BY <2>3, <2>6, <1>2, <1>7 DEF Told
    <2>9. Spaced(admitted'[c], second') /\ Remembered(Times(requests_', c), admitted'[c], second')
      BY <2>1, <2>2, <1>5, <1>7, <1>9
    <2> QED
      BY <2>2, <2>6, <2>7, <2>8, <2>9, <1>4, <1>6
  <1> QED
    BY <1>10, <1>11

LEMMA RequestStep ==
  ASSUME RateTypes, ClientInv, NEW c \in Clients, request(c)
  PROVE  RateTypes' /\ ClientInv' /\ RetryAfterIsKept
  <1>1. /\ Table(requests_', Clients) /\ admitted' \in [Clients -> Seq(Nat)] /\ retry' \in [Clients -> Nat]
        /\ Spaced(admitted'[c], second') /\ Remembered(Times(requests_', c), admitted'[c], second') /\ Told(c)'
        /\ retry[c] # 0 /\ retry'[c] # 0 => retry'[c] = retry[c]
    BY RequestOfOne
  <1>2. RateTypes'
    BY <1>1 DEF RateTypes, request
  <1>3. ASSUME NEW d \in Clients
        PROVE  /\ Spaced(admitted'[d], second') /\ Remembered(Times(requests_', d), admitted'[d], second') /\ Told(d)'
               /\ retry[d] # 0 /\ retry'[d] # 0 => retry'[d] = retry[d]
    BY <1>1, RequestKeepsOthers
  <1> QED
    BY <1>2, <1>3 DEF ClientInv, RetryAfterIsKept

\* A step that is not a request changes nothing of the clients' but the time.
LEMMA ClientsWait ==
  ASSUME RateTypes, ClientInv, UNCHANGED <<requests_, admitted, retry>>, second' \in {second, second + 1}
  PROVE  ClientInv' /\ RetryAfterIsKept
  <1>1. ASSUME NEW c \in Clients
        PROVE  Spaced(admitted'[c], second') /\ Remembered(Times(requests_', c), admitted'[c], second') /\ Told(c)'
    <2>1. /\ admitted[c] \in Seq(Nat) /\ Times(requests_, c) \in Seq(Nat) /\ second \in Nat
          /\ admitted'[c] = admitted[c] /\ Times(requests_', c) = Times(requests_, c) /\ retry'[c] = retry[c]
      BY TimesAreTimes DEF RateTypes
    <2>2. Spaced(admitted[c], second) /\ Remembered(Times(requests_, c), admitted[c], second) /\ Told(c)
      BY DEF ClientInv
    <2>3. Spaced(admitted[c], second') /\ Remembered(Times(requests_, c), admitted[c], second')
      BY <2>1, <2>2, LaterOn
    <2> QED
      BY <2>1, <2>2, <2>3 DEF Told
  <1> QED
    BY <1>1 DEF ClientInv, RetryAfterIsKept

LEMMA WindowsHold ==
  ASSUME RateTypes, ClientInv
  PROVE  WindowHolds
  <1> SUFFICES ASSUME NEW c \in Clients, NEW at \in 1 .. MaxSeconds PROVE Within(admitted[c], at) <= HitLimit
    BY DEF WindowHolds
  <1>1. admitted[c] \in Seq(Nat) /\ Spaced(admitted[c], second) /\ at \in Nat
    BY RateBounds DEF RateTypes, ClientInv
  <1> QED
    BY <1>1, SpacedWithin

----------------------------------------------------------------------------
(* The failures of a mailbox.                                              *)

LEMMA WithinIsCount ==
  ASSUME NEW hits \in Seq(Nat), NEW at
  PROVE  Within(hits, at) \in Nat /\ Within(hits, at) <= Len(hits)
  <1> DEFINE W == {i \in DOMAIN hits : hits[i] > at - WindowTicks /\ hits[i] <= at}
  <1>1. DOMAIN hits = 1 .. Len(hits) /\ Len(hits) \in Nat
    OBVIOUS
  <1>2. IsFiniteSet(1 .. Len(hits)) /\ Cardinality(1 .. Len(hits)) = Len(hits)
    BY <1>1, CountUpTo
  <1>3. W \in SUBSET (1 .. Len(hits))
    BY <1>1
  <1>4. IsFiniteSet(W) /\ Cardinality(W) <= Len(hits)
    BY <1>2, <1>3, FS_Subset
  <1> QED
    BY <1>4, FS_CardinalityType DEF Within

\* One hit more counts if it is in the window.
LEMMA WithinAppended ==
  ASSUME NEW hits \in Seq(Nat), NEW x \in Nat, NEW at \in Nat
  PROVE  Within(Append(hits, x), at) = IF x > at - WindowTicks /\ x <= at THEN Within(hits, at) + 1 ELSE Within(hits, at)
  <1> DEFINE more == Append(hits, x)
             in == {i \in DOMAIN hits : hits[i] > at - WindowTicks /\ hits[i] <= at}
             in2 == {i \in DOMAIN more : more[i] > at - WindowTicks /\ more[i] <= at}
             n == Len(hits) + 1
  <1>1. /\ DOMAIN hits = 1 .. Len(hits) /\ Len(hits) \in Nat /\ DOMAIN more = 1 .. n /\ more[n] = x
        /\ \A i \in 1 .. Len(hits) : more[i] = hits[i]
    OBVIOUS
  <1> HIDE DEF more
  <1>2. \A i \in 1 .. n : i = n \/ i \in 1 .. Len(hits)
    BY <1>1
  <1>3. n \notin 1 .. Len(hits) /\ n \in 1 .. n /\ \A i \in 1 .. Len(hits) : i \in 1 .. n
    BY <1>1
  <1>4. IsFiniteSet(in)
    <2>1. in \in SUBSET (1 .. Len(hits)) /\ IsFiniteSet(1 .. Len(hits))
      BY <1>1, CountUpTo
    <2> QED
      BY <2>1, FS_Subset
  <1>5. CASE x > at - WindowTicks /\ x <= at
    <2>1. in2 = in \cup {n} /\ n \notin in
      BY <1>1, <1>2, <1>3, <1>5
    <2>2. Cardinality(in2) = Cardinality(in) + 1
      BY <2>1, <1>4, FS_AddElement
    <2> QED
      BY <2>2, <1>5 DEF Within, more
  <1>6. CASE ~(x > at - WindowTicks /\ x <= at)
    <2>1. in2 = in
      BY <1>1, <1>2, <1>3, <1>6
    <2> QED
      BY <2>1, <1>6 DEF Within, more
  <1> QED
    BY <1>5, <1>6

\* Pruning drops nothing that is still in a window that ends later.
LEMMA WithinPruned ==
  ASSUME NEW hits \in Seq(Nat), NEW early \in Nat, NEW at \in Nat, early <= at
  PROVE  Within(_prune(hits, early), at) = Within(hits, at)
  <1>1. PICK n \in 0 .. Len(hits) :
           /\ _prune(hits, early) \in Seq(Nat) /\ Len(_prune(hits, early)) = Len(hits) - n
           /\ \A i \in 1 .. Len(hits) - n : _prune(hits, early)[i] = hits[n + i]
           /\ \A i \in 1 .. n : hits[i] <= early - WindowTicks
    BY PruneLemma
  <1>2. PICK old : old = _prune(hits, early)
    OBVIOUS
  <1> DEFINE B == {i \in DOMAIN old : old[i] > at - WindowTicks /\ old[i] <= at}
             A == {i \in DOMAIN hits : hits[i] > at - WindowTicks /\ hits[i] <= at}
             f == [i \in B |-> n + i]
  <1>3. /\ DOMAIN hits = 1 .. Len(hits) /\ Len(hits) \in Nat /\ DOMAIN old = 1 .. Len(hits) - n /\ n \in Nat /\ n <= Len(hits)
        /\ WindowTicks \in Nat
    BY <1>1, <1>2, LenProperties, RateBounds
  <1>4. \A i \in 1 .. Len(hits) : hits[i] \in Nat
    OBVIOUS
  <1>5. \A i \in B : n + i \in A
    <2> SUFFICES ASSUME NEW i \in B PROVE n + i \in A
      OBVIOUS
    <2>1. i \in 1 .. Len(hits) - n /\ n + i \in DOMAIN hits
      BY <1>3
    <2>2. old[i] = hits[n + i]
      BY <2>1, <1>1, <1>2
    <2> QED
      BY <2>1, <2>2
  <1>6. \A j \in A : \E i \in B : n + i = j
    <2> SUFFICES ASSUME NEW j \in A PROVE \E i \in B : n + i = j
      OBVIOUS
    <2>1. j \in 1 .. Len(hits) /\ hits[j] > at - WindowTicks /\ hits[j] <= at
      BY <1>3
    <2>2. ~(j \in 1 .. n)
      <3> SUFFICES ASSUME j \in 1 .. n PROVE FALSE
        OBVIOUS
      <3>1. PICK y : y = hits[j]
        OBVIOUS
      <3>2. y \in Nat /\ y > at - WindowTicks /\ y <= early - WindowTicks
        BY <2>1, <3>1, <1>1, <1>4
      <3> QED
        BY ONLY <3>2, <1>3, early <= at, early \in Nat, at \in Nat
    <2>3. PICK i : i = j - n
      OBVIOUS
    <2>4. i \in 1 .. Len(hits) - n /\ n + i = j
      BY <2>1, <2>2, <2>3, <1>3
    <2>5. old[i] = hits[j]
      BY <2>4, <1>1, <1>2
    <2>6. i \in B
      BY <2>1, <2>4, <2>5, <1>3
    <2> QED
      BY <2>4, <2>6
  <1>7. \A i, j \in B : n + i = n + j => i = j
    BY <1>3
  <1> HIDE DEF A, B
  <1>8. f \in Bijection(B, A)
    <2>1. f \in [B -> A]
      BY <1>5
    <2>2. IsInjective(f)
      BY <1>7 DEF IsInjective
    <2>3. \A j \in A : \E i \in B : f[i] = j
      BY <1>6
    <2> QED
      BY <2>1, <2>2, <2>3 DEF Bijection, Injection, Surjection
  <1>9. IsFiniteSet(A)
    <2>1. A \in SUBSET (1 .. Len(hits)) /\ IsFiniteSet(1 .. Len(hits))
      BY <1>3, CountUpTo DEF A
    <2> QED
      BY <2>1, FS_Subset
  <1>10. Cardinality(B) = Cardinality(A)
    <2>1. IsFiniteSet(B)
      <3>1. B \in SUBSET (1 .. Len(hits) - n) /\ IsFiniteSet(1 .. Len(hits) - n)
        <4>1. B \in SUBSET (1 .. Len(hits) - n)
          BY <1>3 DEF B
        <4>2. Len(hits) - n \in Nat
          BY <1>3
        <4> QED
          BY <4>1, <4>2, CountUpTo
      <3> QED
        BY <3>1, FS_Subset
    <2>2. ExistsBijection(B, A)
      BY <1>8 DEF ExistsBijection
    <2> QED
      BY <2>1, <2>2, FS_Bijection
  <1> QED
    BY <1>2, <1>10 DEF Within, A, B

\* The attempts on a mailbox that are under way and began in the window that ends at "at", and those that began
\* before it.
Under(k, at) == {g \in Guesses : /\ attempt[g] # NoAttempt /\ attempt[g].on = k
                                 /\ attempt[g].clock > at - WindowTicks /\ attempt[g].clock <= at}
Stale(k, at) == {g \in Guesses : /\ attempt[g] # NoAttempt /\ attempt[g].on = k
                                 /\ attempt[g].clock <= at - WindowTicks}

\* GuessStates that would not be counted if they failed now.
Owed(k, at) == IF Len(Times(failures_, k)) >= HitLimit THEN Cardinality(Under(k, at)) ELSE 0

\* While the window is open a failure beyond those recorded was let through by one that was, or by an attempt that
\* is older than the window; when it is over only those under way may still come.
Slip(clock, at, failed, owed, under, stale, noted) ==
    /\ clock <= at => \/ failed = 0 /\ under = 0
                      \/ failed + owed + Together * stale <= noted + Together * noted + Together * Together
    /\ clock > at => failed + under <= HitLimit + HitLimit * Together + Together * Together

Slips(k, at) == Slip(second, at, Within(missed[k], at), Owed(k, at), Cardinality(Under(k, at)),
                     Cardinality(Stale(k, at)), Within(Times(failures_, k), at))

MailboxInv ==
    /\ \A g \in Guesses : attempt[g] # NoAttempt => attempt[g].clock <= second
    /\ \A k \in Mailboxes : \A i \in 1 .. Len(missed[k]) : missed[k][i] <= second
    /\ \A k \in Mailboxes : Len(Times(failures_, k)) <= HitLimit
    /\ Cardinality(Mailboxes) <= MaxKeys => \A k \in Mailboxes, at \in Nat : Slips(k, at)

LEMMA TogetherIsNat == Together \in Nat /\ Cardinality(Guesses) = Together + 1
  <1>1. Cardinality(Guesses) \in Nat /\ Cardinality(Guesses) # 0
    BY RateBounds, FS_CardinalityType, FS_EmptySet
  <1> QED
    BY <1>1 DEF Together

LEMMA Multiples ==
  ASSUME NEW t \in Nat, NEW x \in Nat
  PROVE  /\ t * x \in Nat /\ t * (x + 1) = t * x + t /\ t * 0 = 0
         /\ \A y \in Nat : x <= y => t * x <= t * y
  <1>1. t * x \in Nat /\ t * (x + 1) = t * x + t /\ t * 0 = 0
    OBVIOUS
  <1>2. ASSUME NEW y \in Nat, x <= y PROVE t * x <= t * y
    <2>1. PICK d \in Nat : y = x + d
      <3>1. y - x \in Nat /\ y = x + (y - x)
        BY <1>2
      <3> QED
        BY <3>1
    <2>2. t * (x + d) = t * x + t * d /\ t * d \in Nat
      OBVIOUS
    <2> QED
      BY <1>1, <2>1, <2>2
  <1> QED
    BY <1>1, <1>2

\* Each attempt is one slot of those that may be under way.
LEMMA SlotsCount ==
  ASSUME NEW k, NEW at \in Nat, RateTypes
  PROVE  /\ IsFiniteSet(Under(k, at)) /\ IsFiniteSet(Stale(k, at))
         /\ Cardinality(Under(k, at)) \in Nat /\ Cardinality(Stale(k, at)) \in Nat
         /\ Cardinality(Under(k, at)) + Cardinality(Stale(k, at)) <= Together + 1
         /\ \A g \in Guesses : g \notin Under(k, at) \cup Stale(k, at) =>
                Cardinality(Under(k, at)) + Cardinality(Stale(k, at)) <= Together
  <1>1. PICK U : U = Under(k, at)
    OBVIOUS
  <1>2. PICK S : S = Stale(k, at)
    OBVIOUS
  <1>3. U \in SUBSET Guesses /\ S \in SUBSET Guesses
    BY <1>1, <1>2 DEF Under, Stale
  <1>4. U \cap S = {}
    <2> SUFFICES ASSUME NEW g \in U, g \in S PROVE FALSE
      OBVIOUS
    <2>1. g \in Guesses /\ attempt[g] # NoAttempt /\ attempt[g].clock > at - WindowTicks /\ attempt[g].clock <= at - WindowTicks
      BY <1>1, <1>2 DEF Under, Stale
    <2>2. attempt[g].clock \in Nat
      BY <2>1 DEF RateTypes, GuessStates
    <2>3. PICK y : y = attempt[g].clock
      OBVIOUS
    <2>4. y \in Nat /\ y > at - WindowTicks /\ y <= at - WindowTicks /\ WindowTicks \in Nat
      BY <2>1, <2>2, <2>3, RateBounds
    <2> QED
      BY ONLY <2>4, at \in Nat
  <1>5. IsFiniteSet(Guesses)
    BY RateBounds
  <1>6. IsFiniteSet(U) /\ IsFiniteSet(S)
    BY <1>3, <1>5, FS_Subset
  <1>7. Cardinality(U \cup S) = Cardinality(U) + Cardinality(S)
    <2>1. Cardinality(U \cup S) = Cardinality(U) + Cardinality(S) - Cardinality(U \cap S)
      BY <1>6, FS_Union
    <2>2. Cardinality(U \cap S) = 0
      BY <1>4, FS_EmptySet
    <2> QED
      BY <2>1, <2>2, <1>6, FS_CardinalityType
  <1>8. Cardinality(U \cup S) <= Cardinality(Guesses)
    <2>1. U \cup S \in SUBSET Guesses
      BY <1>3
    <2> QED
      BY <2>1, <1>5, FS_Subset
  <1>9. ASSUME NEW g \in Guesses, g \notin U \cup S
        PROVE  Cardinality(U \cup S) <= Together
    <2>1. Guesses \ {g} \in SUBSET Guesses /\ U \cup S \in SUBSET (Guesses \ {g})
      BY <1>3, <1>9
    <2>2. IsFiniteSet(Guesses \ {g}) /\ Cardinality(Guesses \ {g}) = Cardinality(Guesses) - 1
      BY <1>5, FS_RemoveElement
    <2>3. Cardinality(U \cup S) <= Cardinality(Guesses \ {g})
      BY <2>1, <2>2, FS_Subset
    <2> QED
      BY <2>2, <2>3 DEF Together
  <1>10. Cardinality(U) \in Nat /\ Cardinality(S) \in Nat
    BY <1>6, FS_CardinalityType
  <1> QED
    BY <1>1, <1>2, <1>6, <1>7, <1>8, <1>9, <1>10, TogetherIsNat

\* What ends an attempt takes it out of its mailbox's sets.
LEMMA Freed ==
  ASSUME RateTypes, NEW g \in Guesses, attempt' = [attempt EXCEPT ![g] = NoAttempt], NEW k, NEW at
  PROVE  Under(k, at)' = Under(k, at) \ {g} /\ Stale(k, at)' = Stale(k, at) \ {g}
  <1>1. attempt'[g] = NoAttempt /\ \A h \in Guesses : h # g => attempt'[h] = attempt[h]
    BY DEF RateTypes
  <1>2. Under(k, at)' = {h \in Guesses : /\ attempt'[h] # NoAttempt /\ attempt'[h].on = k
                                         /\ attempt'[h].clock > at - WindowTicks /\ attempt'[h].clock <= at}
    BY DEF Under
  <1>3. Stale(k, at)' = {h \in Guesses : /\ attempt'[h] # NoAttempt /\ attempt'[h].on = k
                                         /\ attempt'[h].clock <= at - WindowTicks}
    BY DEF Stale
  <1>4. Under(k, at)' = Under(k, at) \ {g}
    BY <1>1, <1>2 DEF Under
  <1>5. Stale(k, at)' = Stale(k, at) \ {g}
    BY <1>1, <1>3 DEF Stale
  <1> QED
    BY <1>4, <1>5

\* What begins one puts it into the set of its time.
LEMMA Begun ==
  ASSUME RateTypes, NEW g \in Guesses, attempt[g] = NoAttempt, NEW m \in Mailboxes,
         attempt' = [attempt EXCEPT ![g] = [on |-> m, clock |-> second]], NEW k, NEW at \in Nat
  PROVE  /\ Under(k, at)' = IF k = m /\ second > at - WindowTicks /\ second <= at THEN Under(k, at) \cup {g} ELSE Under(k, at)
         /\ Stale(k, at)' = IF k = m /\ second <= at - WindowTicks THEN Stale(k, at) \cup {g} ELSE Stale(k, at)
         /\ g \notin Under(k, at) \cup Stale(k, at)
  <1>1. attempt'[g] = [on |-> m, clock |-> second] /\ \A h \in Guesses : h # g => attempt'[h] = attempt[h]
    BY DEF RateTypes
  <1>2. attempt'[g] # NoAttempt /\ attempt'[g].on = m /\ attempt'[g].clock = second
    <2>1. NoAttempt.clock = 0 /\ second # 0
      BY DEF NoAttempt, RateTypes
    <2> QED
      BY <1>1, <2>1
  <1>3. Under(k, at)' = {h \in Guesses : /\ attempt'[h] # NoAttempt /\ attempt'[h].on = k
                                         /\ attempt'[h].clock > at - WindowTicks /\ attempt'[h].clock <= at}
    BY DEF Under
  <1>4. Stale(k, at)' = {h \in Guesses : /\ attempt'[h] # NoAttempt /\ attempt'[h].on = k
                                         /\ attempt'[h].clock <= at - WindowTicks}
    BY DEF Stale
  <1>5. Under(k, at)' = IF k = m /\ second > at - WindowTicks /\ second <= at THEN Under(k, at) \cup {g} ELSE Under(k, at)
    BY <1>1, <1>2, <1>3 DEF Under
  <1>6. Stale(k, at)' = IF k = m /\ second <= at - WindowTicks THEN Stale(k, at) \cup {g} ELSE Stale(k, at)
    BY <1>1, <1>2, <1>4 DEF Stale
  <1>7. g \notin Under(k, at) \cup Stale(k, at)
    BY DEF Under, Stale
  <1> QED
    BY <1>5, <1>6, <1>7

----------------------------------------------------------------------------
(* The sum behind the bound, step by step.                                 *)

\* An attempt begins: the table had room, so it owes nothing.
LEMMA SlipBegins ==
  ASSUME NEW clock \in Nat, NEW at \in Nat, NEW failed \in Nat, NEW owed \in Nat, NEW under \in Nat, NEW stale \in Nat,
         NEW noted \in Nat, Slip(clock, at, failed, owed, under, stale, noted), clock <= at, stale <= Together
  PROVE  Slip(clock, at, failed, 0, under + 1, stale, noted)
  <1>1. PICK t : t = Together
    OBVIOUS
  <1>2. t \in Nat
    BY <1>1, TogetherIsNat
  <1>3. t * stale <= t * t /\ t * stale \in Nat /\ t * noted \in Nat /\ t * t \in Nat
    BY <1>1, <1>2, Multiples
  <1>4. failed + 0 + t * stale <= noted + t * noted + t * t
    <2>1. CASE failed = 0
      BY <2>1, <1>3
    <2>2. CASE failed + owed + t * stale <= noted + t * noted + t * t
      BY <2>2, <1>3
    <2> QED
      BY <2>1, <2>2, <1>1 DEF Slip
  <1> QED
    BY <1>1, <1>4 DEF Slip

\* A failure is recorded: those under way may now be refused.
LEMMA SlipRecorded ==
  ASSUME NEW clock \in Nat, NEW at \in Nat, NEW failed \in Nat, NEW owed \in Nat, NEW under \in Nat, NEW stale \in Nat,
         NEW noted \in Nat, Slip(clock, at, failed, owed, under, stale, noted), clock <= at,
         under # 0, under <= Together + 1, NEW later \in Nat, later <= under - 1
  PROVE  Slip(clock, at, failed + 1, later, under - 1, stale, noted + 1)
  <1>1. PICK t : t = Together
    OBVIOUS
  <1>2. t \in Nat
    BY <1>1, TogetherIsNat
  <1>3. PICK a, b, c : a = t * stale /\ b = t * noted /\ c = t * t
    OBVIOUS
  <1>4. t * (noted + 1) = b + t /\ a \in Nat /\ b \in Nat /\ c \in Nat
    BY <1>2, <1>3, Multiples
  <1>5. failed + owed + a <= noted + b + c
    BY <1>1, <1>3 DEF Slip
  <1>6. later <= t
    BY <1>1, <1>2
  <1>7. failed + 1 + later + a <= noted + 1 + (b + t) + c
    BY ONLY <1>2, <1>4, <1>5, <1>6, failed \in Nat, owed \in Nat, noted \in Nat, later \in Nat
  <1>8. failed + 1 + later + t * stale <= noted + 1 + t * (noted + 1) + t * t
    BY <1>3, <1>4, <1>7
  <1> QED
    BY <1>1, <1>8 DEF Slip

\* A failure is refused: it was owed.
LEMMA SlipRefused ==
  ASSUME NEW clock \in Nat, NEW at \in Nat, NEW failed \in Nat, NEW under \in Nat, NEW stale \in Nat,
         NEW noted \in Nat, Slip(clock, at, failed, under, under, stale, noted), clock <= at, under # 0
  PROVE  Slip(clock, at, failed + 1, under - 1, under - 1, stale, noted)
  <1>1. failed + 1 + (under - 1) = failed + under
    OBVIOUS
  <1> QED
    BY <1>1 DEF Slip

\* An older failure is recorded, or refused.
LEMMA SlipOlder ==
  ASSUME NEW clock \in Nat, NEW at \in Nat, NEW failed \in Nat, NEW owed \in Nat, NEW under \in Nat, NEW stale \in Nat,
         NEW noted \in Nat, Slip(clock, at, failed, owed, under, stale, noted), clock <= at,
         stale # 0, under <= Together, NEW later \in Nat, later <= under
  PROVE  Slip(clock, at, failed, later, under, stale - 1, noted)
  <1>1. PICK t : t = Together
    OBVIOUS
  <1>2. t \in Nat /\ stale - 1 \in Nat /\ stale - 1 + 1 = stale
    BY <1>1, TogetherIsNat
  <1>3. PICK a, b, c : a = t * (stale - 1) /\ b = t * noted /\ c = t * t
    OBVIOUS
  <1>4. t * stale = a + t /\ a \in Nat /\ b \in Nat /\ c \in Nat
    <2>1. t * (stale - 1 + 1) = a + t /\ a \in Nat /\ b \in Nat /\ c \in Nat
      BY <1>2, <1>3, Multiples
    <2> QED
      BY <2>1, <1>2
  <1>5. CASE failed = 0 /\ under = 0
    BY <1>5 DEF Slip
  <1>6. CASE failed + owed + t * stale <= noted + b + c
    <2>0. later <= t
      BY <1>1, <1>2
    <2>1. failed + owed + (a + t) <= noted + b + c
      BY <1>4, <1>6
    <2>2. failed + later + a <= noted + b + c
      BY ONLY <2>0, <2>1, <1>2, <1>4, failed \in Nat, owed \in Nat, noted \in Nat, later \in Nat
    <2> QED
      BY <1>1, <1>3, <2>2 DEF Slip
  <1> QED
    BY <1>1, <1>3, <1>5, <1>6 DEF Slip

\* When the window is over a failure was under way before.
LEMMA SlipAfter ==
  ASSUME NEW clock \in Nat, NEW at \in Nat, NEW failed \in Nat, NEW owed, NEW under \in Nat, NEW stale,
         NEW noted, Slip(clock, at, failed, owed, under, stale, noted), clock > at,
         NEW more \in {0, 1}, NEW rest \in Nat, rest + more <= under, NEW owed2, NEW stale2, NEW noted2
  PROVE  Slip(clock, at, failed + more, owed2, rest, stale2, noted2)
  <1>1. PICK b : b = HitLimit + HitLimit * Together + Together * Together
    OBVIOUS
  <1>2. failed + under <= b
    BY <1>1 DEF Slip
  <1>3. b \in Nat
    <2>1. HitLimit \in Nat /\ Together \in Nat
      BY RateBounds, TogetherIsNat
    <2>2. HitLimit * Together \in Nat /\ Together * Together \in Nat
      BY <2>1
    <2> QED
      BY <1>1, <2>1, <2>2
  <1>4. failed + more + rest <= b /\ ~(clock <= at)
    BY <1>2, <1>3
  <1> QED
    BY <1>1, <1>4 DEF Slip

\* An attempt ends without a failure.
LEMMA SlipEnds ==
  ASSUME NEW clock \in Nat, NEW at \in Nat, NEW failed \in Nat, NEW owed \in Nat, NEW under \in Nat, NEW stale \in Nat,
         NEW noted \in Nat, Slip(clock, at, failed, owed, under, stale, noted), clock <= at,
         NEW owed2 \in Nat, owed2 <= owed, NEW under2 \in Nat, under2 <= under, NEW stale2 \in Nat, stale2 <= stale
  PROVE  Slip(clock, at, failed, owed2, under2, stale2, noted)
  <1>1. PICK t : t = Together
    OBVIOUS
  <1>2. t \in Nat
    BY <1>1, TogetherIsNat
  <1>3. PICK a, b : a = t * stale /\ b = t * stale2
    OBVIOUS
  <1>4. a \in Nat /\ b \in Nat /\ b <= a
    BY <1>2, <1>3, Multiples
  <1>5. PICK z : z = noted + t * noted + t * t
    OBVIOUS
  <1>6. z \in Nat
    <2>1. t * noted \in Nat /\ t * t \in Nat
      BY <1>2
    <2> QED
      BY <1>5, <2>1
  <1>7. CASE failed = 0 /\ under = 0
    <2>1. under2 = 0
      BY <1>7
    <2> QED
      BY <1>7, <2>1 DEF Slip
  <1>8. CASE failed + owed + a <= z
    <2>1. failed + owed2 + b <= z
      BY ONLY <1>4, <1>6, <1>8, failed \in Nat, owed \in Nat, owed2 \in Nat, owed2 <= owed
    <2> QED
      BY <1>1, <1>3, <1>5, <2>1 DEF Slip
  <1> QED
    BY <1>1, <1>3, <1>5, <1>7, <1>8 DEF Slip

\* The window closes.
LEMMA SlipCloses ==
  ASSUME NEW at \in Nat, NEW failed \in Nat, NEW owed \in Nat, NEW under \in Nat, NEW stale \in Nat,
         NEW noted \in Nat, Slip(at, at, failed, owed, under, stale, noted), under + stale <= Together + 1,
         noted <= HitLimit, owed = under \/ noted < HitLimit
  PROVE  Slip(at + 1, at, failed, owed, under, stale, noted)
  <1>1. PICK t : t = Together
    OBVIOUS
  <1>2. PICK h : h = HitLimit
    OBVIOUS
  <1>3. t \in Nat /\ h \in Nat \ {0}
    BY <1>1, <1>2, TogetherIsNat, RateBounds
  <1>4. PICK a, b, c, d : a = t * stale /\ b = t * noted /\ c = t * t /\ d = t * h
    OBVIOUS
  <1>5. a \in Nat /\ b \in Nat /\ c \in Nat /\ d \in Nat /\ b <= d /\ h * t = d
    <2>1. a \in Nat /\ b \in Nat /\ c \in Nat /\ d \in Nat /\ h * t = d
      BY <1>3, <1>4
    <2>2. b <= d
      BY <1>2, <1>3, <1>4, Multiples
    <2> QED
      BY <2>1, <2>2
  <1>6. failed + under <= h + d + c
    <2>1. CASE failed = 0 /\ under = 0
      BY <2>1, <1>3, <1>5
    <2>2. CASE failed + owed + a <= noted + b + c
      <3>1. CASE owed = under
        BY <3>1, <2>2, <1>2, <1>3, <1>5
      <3>2. CASE noted < h
        <4>1. noted + 1 <= h /\ t * (noted + 1) <= t * h /\ t * (noted + 1) = b + t
          <5>1. noted + 1 \in Nat /\ noted + 1 <= h
            BY <3>2, <1>3
          <5> QED
            BY <5>1, <1>3, <1>4, Multiples
        <4>2. b + t <= d
          BY <4>1, <1>4
        <4>3. CASE stale = 0
          <5>1. under <= t + 1
            BY <4>3, <1>1, <1>3
          <5> QED
            BY ONLY <5>1, <4>1, <4>2, <2>2, <1>3, <1>5, failed \in Nat, owed \in Nat, under \in Nat, noted \in Nat
        <4>4. CASE stale # 0
          <5>1. under <= t
            BY <4>4, <1>1, <1>3
          <5> QED
            BY ONLY <5>1, <4>1, <4>2, <2>2, <1>3, <1>5, failed \in Nat, owed \in Nat, under \in Nat, noted \in Nat
        <4> QED
          BY <4>3, <4>4
      <3> QED
        BY <3>1, <3>2, <1>2
    <2> QED
      BY <2>1, <2>2, <1>1, <1>4 DEF Slip
  <1>7. ~(at + 1 <= at)
    OBVIOUS
  <1>8. failed + under <= HitLimit + HitLimit * Together + Together * Together
    BY <1>1, <1>2, <1>4, <1>5, <1>6
  <1> QED
    BY <1>7, <1>8 DEF Slip

----------------------------------------------------------------------------
(* The steps of the sign-in attempts.                                      *)

\* What is counted of a mailbox is a number, and the table never holds more than the limit.
Tallied(k, at) ==
    /\ missed[k] \in Seq(Nat) /\ Times(failures_, k) \in Seq(Nat) /\ Len(Times(failures_, k)) <= HitLimit
    /\ Within(missed[k], at) \in Nat /\ Cardinality(Under(k, at)) \in Nat /\ Cardinality(Stale(k, at)) \in Nat
    /\ Owed(k, at) \in Nat /\ Within(Times(failures_, k), at) \in Nat
    /\ Within(Times(failures_, k), at) <= Len(Times(failures_, k))

LEMMA CountsAreCounts ==
  ASSUME RateTypes, MailboxInv, NEW k \in Mailboxes, NEW at \in Nat
  PROVE  Tallied(k, at)
  <1>1. missed[k] \in Seq(Nat) /\ Times(failures_, k) \in Seq(Nat) /\ Len(Times(failures_, k)) <= HitLimit
    BY TimesAreTimes DEF RateTypes, MailboxInv
  <1>2. /\ Within(missed[k], at) \in Nat /\ Within(Times(failures_, k), at) \in Nat
        /\ Within(Times(failures_, k), at) <= Len(Times(failures_, k))
    BY <1>1, WithinIsCount
  <1>3. Cardinality(Under(k, at)) \in Nat /\ Cardinality(Stale(k, at)) \in Nat
    BY SlotsCount
  <1>4. Owed(k, at) \in Nat
    BY <1>3 DEF Owed
  <1> QED
    BY <1>1, <1>2, <1>3, <1>4 DEF Tallied

LEMMA PrunedIsShorter ==
  ASSUME NEW times \in Seq(Nat), NEW at \in Nat
  PROVE  _prune(times, at) \in Seq(Nat) /\ Len(_prune(times, at)) <= Len(times)
  <1>1. PICK n \in 0 .. Len(times) : _prune(times, at) \in Seq(Nat) /\ Len(_prune(times, at)) = Len(times) - n
    BY PruneLemma
  <1> QED
    BY <1>1

\* A set without one of its members.
LEMMA OneFewer ==
  ASSUME NEW S, IsFiniteSet(S), NEW g
  PROVE  /\ Cardinality(S \ {g}) \in Nat /\ Cardinality(S \ {g}) <= Cardinality(S) /\ Cardinality(S) \in Nat
         /\ g \in S => Cardinality(S \ {g}) = Cardinality(S) - 1 /\ Cardinality(S) # 0
         /\ g \notin S => S \ {g} = S
  <1>1. Cardinality(S) \in Nat
    BY FS_CardinalityType
  <1>2. CASE g \in S
    <2>1. Cardinality(S \ {g}) = Cardinality(S) - 1 /\ IsFiniteSet(S \ {g})
      BY <1>2, FS_RemoveElement
    <2>2. Cardinality(S \ {g}) \in Nat
      BY <2>1, FS_CardinalityType
    <2> QED
      BY <1>1, <1>2, <2>1, <2>2
  <1>3. CASE g \notin S
    <2>1. S \ {g} = S
      BY <1>3
    <2> QED
      BY <1>1, <1>3, <2>1
  <1> QED
    BY <1>2, <1>3

\* Nothing of a mailbox is counted in a window that has not begun.
LEMMA NothingYet ==
  ASSUME RateTypes, MailboxInv, NEW k \in Mailboxes, NEW at \in Nat, second <= at - WindowTicks
  PROVE  Within(missed[k], at) = 0 /\ Under(k, at) = {}
  <1>0. second \in Nat /\ WindowTicks \in Nat /\ missed[k] \in Seq(Nat)
    BY RateBounds DEF RateTypes
  <1>1. ASSUME NEW i \in DOMAIN missed[k] PROVE ~(missed[k][i] > at - WindowTicks)
    <2>1. i \in 1 .. Len(missed[k])
      BY <1>0
    <2>2. missed[k][i] \in Nat
      BY <1>0, <2>1, ElementOfSeq
    <2>3. missed[k][i] <= second
      BY <2>1 DEF MailboxInv
    <2> QED
      BY <2>2, <2>3, <1>0
  <1>2. {i \in DOMAIN missed[k] : missed[k][i] > at - WindowTicks /\ missed[k][i] <= at} = {}
    BY <1>1
  <1>3. ASSUME NEW g \in Guesses, attempt[g] # NoAttempt PROVE ~(attempt[g].clock > at - WindowTicks)
    <2>1. attempt[g].clock \in Nat
      BY <1>3 DEF RateTypes, GuessStates
    <2>2. attempt[g].clock <= second
      BY <1>3 DEF MailboxInv
    <2> QED
      BY <2>1, <2>2, <1>0
  <1> QED
    BY <1>2, <1>3, FS_EmptySet DEF Within, Under

LEMMA GuessesStart == RateInit => MailboxInv
  <1> SUFFICES ASSUME RateInit PROVE MailboxInv
    OBVIOUS
  <1>1. \A g \in Guesses : attempt[g] = NoAttempt
    BY DEF RateInit
  <1>2. \A k \in Mailboxes : missed[k] = <<>> /\ Times(failures_, k) = <<>>
    BY DEF RateInit, Times, Tracked
  <1>3. Len(<<>>) = 0 /\ HitLimit \in Nat
    BY RateBounds
  <1>4. ASSUME NEW k \in Mailboxes, NEW at \in Nat PROVE Slips(k, at)
    <2>1. Under(k, at) = {}
      BY <1>1 DEF Under
    <2>2. Within(missed[k], at) = 0
      <3>1. {i \in DOMAIN missed[k] : missed[k][i] > at - WindowTicks /\ missed[k][i] <= at} = {}
        BY <1>2
      <3> QED
        BY <3>1, FS_EmptySet DEF Within
    <2>3. Cardinality(Under(k, at)) = 0
      BY <2>1, FS_EmptySet
    <2>4. 0 + 0 <= HitLimit + HitLimit * Together + Together * Together
      <3>1. HitLimit \in Nat /\ Together \in Nat
        BY RateBounds, TogetherIsNat
      <3>2. HitLimit * Together \in Nat /\ Together * Together \in Nat
        BY <3>1
      <3> QED
        BY <3>1, <3>2
    <2> QED
      BY <2>2, <2>3, <2>4 DEF Slips, Slip
  <1> QED
    BY <1>1, <1>2, <1>3, <1>4 DEF MailboxInv

\* The time may pass.
LEMMA TimeOfGuesses ==
  ASSUME RateTypes, MailboxInv, UNCHANGED <<failures_, attempt, missed>>, second' = second + 1
  PROVE  MailboxInv'
  <1>0. second \in Nat
    BY DEF RateTypes
  <1>1. ASSUME NEW g \in Guesses, attempt[g] # NoAttempt PROVE attempt[g].clock <= second + 1
    <2>1. attempt[g].clock \in Nat /\ attempt[g].clock <= second
      BY <1>1 DEF RateTypes, GuessStates, MailboxInv
    <2> QED
      BY <2>1, <1>0
  <1>2. ASSUME NEW k \in Mailboxes, NEW i \in 1 .. Len(missed[k]) PROVE missed[k][i] <= second + 1
    <2>1. missed[k] \in Seq(Nat) /\ missed[k][i] <= second
      BY DEF RateTypes, MailboxInv
    <2>2. missed[k][i] \in Nat
      BY <2>1, ElementOfSeq
    <2> QED
      BY <2>1, <2>2, <1>0
  <1>3. ASSUME Cardinality(Mailboxes) <= MaxKeys, NEW k \in Mailboxes, NEW at \in Nat PROVE Slips(k, at)'
    <2>1. PICK failed, owed, under, stale, noted :
             /\ failed = Within(missed[k], at) /\ owed = Owed(k, at) /\ under = Cardinality(Under(k, at))
             /\ stale = Cardinality(Stale(k, at)) /\ noted = Within(Times(failures_, k), at)
      OBVIOUS
    <2>2. /\ failed \in Nat /\ owed \in Nat /\ under \in Nat /\ stale \in Nat /\ noted \in Nat
          /\ noted <= Len(Times(failures_, k)) /\ Len(Times(failures_, k)) <= HitLimit /\ Len(Times(failures_, k)) \in Nat
      BY <2>1, CountsAreCounts, LenProperties DEF Tallied
    <2>3. Slip(second, at, failed, owed, under, stale, noted)
      BY <1>3, <2>1 DEF MailboxInv, Slips
    <2>4. Slip(second + 1, at, failed, owed, under, stale, noted)
      <3>1. CASE second = at
        <4>1. under + stale <= Together + 1
          BY <2>1, SlotsCount
        <4>2. noted <= HitLimit /\ (owed = under \/ noted < HitLimit)
          BY <2>1, <2>2, RateBounds DEF Owed
        <4> QED
          BY <3>1, <2>2, <2>3, <4>1, <4>2, SlipCloses
      <3>2. CASE second < at
        <4>1. second <= at /\ ~(second + 1 > at)
          BY <3>2, <1>0
        <4> QED
          BY <4>1, <2>3 DEF Slip
      <3>3. CASE second > at
        <4>1. ~(second + 1 <= at)
          BY <3>3, <1>0
        <4> QED
          BY <4>1, <3>3, <2>3 DEF Slip
      <3> QED
        BY <3>1, <3>2, <3>3, <1>0
    <2>5. /\ Within(missed[k], at)' = failed /\ Owed(k, at)' = owed /\ Cardinality(Under(k, at))' = under
          /\ Cardinality(Stale(k, at))' = stale /\ Within(Times(failures_, k), at)' = noted
      BY <2>1 DEF Within, Owed, Under, Stale
    <2> QED
      BY <2>4, <2>5 DEF Slips
  <1> QED
    BY <1>1, <1>2, <1>3 DEF MailboxInv

\* A mailbox's failures stay bounded when the counts of it stay as they are.
Unmoved(k, at) ==
    /\ Within(missed[k], at)' = Within(missed[k], at) /\ Owed(k, at)' = Owed(k, at)
    /\ Cardinality(Under(k, at))' = Cardinality(Under(k, at)) /\ Cardinality(Stale(k, at))' = Cardinality(Stale(k, at))
    /\ Within(Times(failures_, k), at)' = Within(Times(failures_, k), at)

LEMMA UnmovedSlips ==
  ASSUME NEW k, NEW at, Slips(k, at), Unmoved(k, at), second' = second
  PROVE  Slips(k, at)'
  BY DEF Slips, Unmoved

\* The password was right.
LEMMA RightStep ==
  ASSUME RateTypes, MailboxInv, NEW g \in Guesses, password_right(g)
  PROVE  MailboxInv'
  <1>0. /\ second \in Nat /\ second' = second /\ missed' = missed /\ failures_' = failures_
        /\ attempt' = [attempt EXCEPT ![g] = NoAttempt] /\ attempt \in [Guesses -> GuessStates]
    BY DEF RateTypes, password_right
  <1>1. \A h \in Guesses : attempt'[h] # NoAttempt => attempt'[h] = attempt[h]
    BY <1>0
  <1>2. \A h \in Guesses : attempt'[h] # NoAttempt => attempt'[h].clock <= second'
    BY <1>0, <1>1 DEF MailboxInv
  <1>3. ASSUME Cardinality(Mailboxes) <= MaxKeys, NEW k \in Mailboxes, NEW at \in Nat PROVE Slips(k, at)'
    <2>1. PICK failed, owed, under, stale, noted :
             /\ failed = Within(missed[k], at) /\ owed = Owed(k, at) /\ under = Cardinality(Under(k, at))
             /\ stale = Cardinality(Stale(k, at)) /\ noted = Within(Times(failures_, k), at)
      OBVIOUS
    <2>2. failed \in Nat /\ owed \in Nat /\ under \in Nat /\ stale \in Nat /\ noted \in Nat
      BY <2>1, CountsAreCounts DEF Tallied
    <2>3. Slip(second, at, failed, owed, under, stale, noted)
      BY <1>3, <2>1 DEF MailboxInv, Slips
    <2>4. PICK under2, stale2 : under2 = Cardinality(Under(k, at) \ {g}) /\ stale2 = Cardinality(Stale(k, at) \ {g})
      OBVIOUS
    <2>5. under2 \in Nat /\ under2 <= under /\ stale2 \in Nat /\ stale2 <= stale
      BY <2>1, <2>4, SlotsCount, OneFewer
    <2>6. PICK owed2 : owed2 = IF Len(Times(failures_, k)) >= HitLimit THEN under2 ELSE 0
      OBVIOUS
    <2>7. owed2 \in Nat /\ owed2 <= owed
      BY <2>1, <2>2, <2>5, <2>6 DEF Owed
    <2>8. Slip(second, at, failed, owed2, under2, stale2, noted)
      <3>1. CASE second <= at
        BY <3>1, <1>0, <2>2, <2>3, <2>5, <2>7, SlipEnds
      <3>2. CASE second > at
        <4>1. failed + 0 = failed /\ under2 + 0 <= under /\ 0 \in {0, 1}
          BY <2>2, <2>5
        <4>2. Slip(second, at, failed + 0, owed2, under2, stale2, noted)
          BY <3>2, <1>0, <2>2, <2>3, <2>5, <4>1, SlipAfter
        <4> QED
          BY <4>1, <4>2
      <3> QED
        BY <3>1, <3>2, <1>0
    <2>9. Under(k, at)' = Under(k, at) \ {g} /\ Stale(k, at)' = Stale(k, at) \ {g}
      BY <1>0, Freed
    <2>10. /\ Within(missed[k], at)' = failed /\ Owed(k, at)' = owed2 /\ Cardinality(Under(k, at))' = under2
           /\ Cardinality(Stale(k, at))' = stale2 /\ Within(Times(failures_, k), at)' = noted
      BY <1>0, <2>1, <2>4, <2>6, <2>9 DEF Within, Owed
    <2> QED
      BY <1>0, <2>8, <2>10 DEF Slips
  <1> QED
    BY <1>0, <1>2, <1>3 DEF MailboxInv

\* An attempt on a mailbox looks, and begins if the mailbox has room.
LEMMA GuessTypes ==
  ASSUME RateTypes, MailboxInv, NEW g \in Guesses, NEW m \in Mailboxes, guess_password(g, m)
  PROVE  /\ Table(failures_', Mailboxes) /\ second' = second /\ missed' = missed
         /\ Times(failures_', m) = _prune(Times(failures_, m), second)
         /\ \A k : k # m => Times(failures_', k) = Times(failures_, k)
         /\ ~peek(failures_, m, second) => attempt' = attempt
         /\ peek(failures_, m, second) => attempt' = [attempt EXCEPT ![g] = [on |-> m, clock |-> second]]
         /\ attempt' \in [Guesses -> GuessStates]
         /\ \A h \in Guesses : attempt'[h] # NoAttempt => attempt'[h].clock <= second
         /\ \A k \in Mailboxes : Len(Times(failures_', k)) <= HitLimit
  <1>0. /\ Table(failures_, Mailboxes) /\ second \in Nat /\ attempt \in [Guesses -> GuessStates]
        /\ attempt[g] = NoAttempt /\ second' = second /\ missed' = missed /\ failures_' = Pruned(failures_, m, second)
        /\ attempt' = [attempt EXCEPT ![g] = IF peek(failures_, m, second) THEN [on |-> m, clock |-> second] ELSE NoAttempt]
    BY DEF RateTypes, guess_password
  <1>1. /\ Table(failures_', Mailboxes) /\ Times(failures_', m) = _prune(Times(failures_, m), second)
        /\ \A k : k # m => Times(failures_', k) = Times(failures_, k)
    BY <1>0, LookLemma
  <1>2. ~peek(failures_, m, second) => attempt' = attempt
    BY <1>0
  <1>3. peek(failures_, m, second) => attempt' = [attempt EXCEPT ![g] = [on |-> m, clock |-> second]]
    BY <1>0
  <1>4. [on |-> m, clock |-> second] \in GuessStates
    BY <1>0 DEF GuessStates
  <1>5. attempt' \in [Guesses -> GuessStates]
    BY <1>0, <1>2, <1>3, <1>4
  <1>6. ASSUME NEW h \in Guesses, attempt'[h] # NoAttempt PROVE attempt'[h].clock <= second
    <2>1. attempt'[h] = attempt[h] \/ attempt'[h] = [on |-> m, clock |-> second]
      BY <1>0
    <2>2. CASE attempt'[h] = attempt[h]
      BY <2>2, <1>6 DEF MailboxInv
    <2>3. CASE attempt'[h] = [on |-> m, clock |-> second]
      <3>1. attempt'[h].clock = second
        BY <2>3
      <3> QED
        BY <3>1, <1>0
    <2> QED
      BY <2>1, <2>2, <2>3
  <1>7. ASSUME NEW k \in Mailboxes PROVE Len(Times(failures_', k)) <= HitLimit
    <2>1. Times(failures_, k) \in Seq(Nat) /\ Len(Times(failures_, k)) <= HitLimit
      BY <1>0, TimesAreTimes DEF MailboxInv
    <2>2. CASE k = m
      <3>1. Len(Times(failures_', k)) <= Len(Times(failures_, k)) /\ Times(failures_', k) \in Seq(Nat)
        BY <1>0, <1>1, <2>1, <2>2, PrunedIsShorter
      <3> QED
        BY <3>1, <2>1, RateBounds
    <2>3. CASE k # m
      BY <2>1, <2>3, <1>1
    <2> QED
      BY <2>2, <2>3
  <1> QED
    BY <1>0, <1>1, <1>2, <1>3, <1>5, <1>6, <1>7

\* A look that is refused leaves the mailbox as full as it was.
LEMMA LookRefused ==
  ASSUME RateTypes, MailboxInv, NEW g \in Guesses, NEW m \in Mailboxes, guess_password(g, m), ~peek(failures_, m, second),
         NEW at \in Nat, Slips(m, at)
  PROVE  Slips(m, at)'
  <1>0. /\ second \in Nat /\ second' = second /\ missed' = missed /\ attempt' = attempt
        /\ Times(failures_', m) = _prune(Times(failures_, m), second)
    BY GuessTypes DEF RateTypes
  <1>1. Under(m, at)' = Under(m, at) /\ Stale(m, at)' = Stale(m, at) /\ Within(missed[m], at)' = Within(missed[m], at)
    BY <1>0 DEF Under, Stale, Within
  <1>2. Tallied(m, at)
    BY CountsAreCounts
  <1>3. Len(Times(failures_', m)) >= HitLimit
    <2>1. Times(failures_', m) \in Seq(Nat)
      BY <1>0, <1>2, PrunedIsShorter DEF Tallied
    <2> QED
      BY <1>0, <2>1, RateBounds DEF peek
  <1>4. Len(Times(failures_, m)) >= HitLimit
    <2>1. Len(Times(failures_', m)) <= Len(Times(failures_, m)) /\ Times(failures_', m) \in Seq(Nat) /\ Times(failures_, m) \in Seq(Nat)
      BY <1>0, <1>2, PrunedIsShorter DEF Tallied
    <2> QED
      BY <1>3, <2>1, RateBounds
  <1>5. Owed(m, at)' = Owed(m, at)
    BY <1>1, <1>3, <1>4 DEF Owed
  <1>6. CASE second <= at
    <2>1. Within(Times(failures_', m), at) = Within(Times(failures_, m), at)
      BY <1>0, <1>2, <1>6, WithinPruned DEF Tallied
    <2>2. Unmoved(m, at)
      BY <1>1, <1>5, <2>1 DEF Unmoved, Within
    <2> QED
      BY <2>2, <1>0, UnmovedSlips
  <1>7. CASE second > at
    <2>1. PICK failed, under : failed = Within(missed[m], at) /\ under = Cardinality(Under(m, at))
      OBVIOUS
    <2>2. ~(second <= at)
      BY <1>0, <1>7
    <2>3. failed + under <= HitLimit + HitLimit * Together + Together * Together
      BY <1>7, <2>1 DEF Slips, Slip
    <2>4. Within(missed[m], at)' = failed /\ Cardinality(Under(m, at))' = under
      BY <1>1, <2>1
    <2> QED
      BY <1>0, <2>2, <2>3, <2>4 DEF Slips, Slip
  <1> QED
    BY <1>0, <1>6, <1>7

\* A look that passes finds room: the attempt owes nothing, whatever is under way.
LEMMA LookPasses ==
  ASSUME RateTypes, MailboxInv, NEW g \in Guesses, NEW m \in Mailboxes, guess_password(g, m), peek(failures_, m, second),
         NEW at \in Nat, Slips(m, at)
  PROVE  Slips(m, at)'
  <1>0. /\ second \in Nat /\ second' = second /\ missed' = missed /\ attempt[g] = NoAttempt /\ WindowTicks \in Nat
        /\ attempt' = [attempt EXCEPT ![g] = [on |-> m, clock |-> second]]
        /\ Times(failures_', m) = _prune(Times(failures_, m), second)
    BY GuessTypes, RateBounds DEF RateTypes, guess_password
  <1>1. PICK failed, owed, under, stale, noted :
           /\ failed = Within(missed[m], at) /\ owed = Owed(m, at) /\ under = Cardinality(Under(m, at))
           /\ stale = Cardinality(Stale(m, at)) /\ noted = Within(Times(failures_, m), at)
    OBVIOUS
  <1>2. /\ failed \in Nat /\ owed \in Nat /\ under \in Nat /\ stale \in Nat /\ noted \in Nat
        /\ Times(failures_, m) \in Seq(Nat)
    BY <1>1, CountsAreCounts DEF Tallied
  <1>3. Slip(second, at, failed, owed, under, stale, noted)
    BY <1>1 DEF Slips
  <1>4. /\ Under(m, at)' = IF second > at - WindowTicks /\ second <= at THEN Under(m, at) \cup {g} ELSE Under(m, at)
        /\ Stale(m, at)' = IF second <= at - WindowTicks THEN Stale(m, at) \cup {g} ELSE Stale(m, at)
        /\ g \notin Under(m, at) \cup Stale(m, at)
    BY <1>0, Begun
  <1>5. Within(missed[m], at)' = failed
    BY <1>0, <1>1 DEF Within
  <1>6. Owed(m, at)' = 0
    <2>1. Times(failures_', m) \in Seq(Nat)
      BY <1>0, <1>2, PrunedIsShorter
    <2>2. ~(Len(Times(failures_', m)) >= HitLimit)
      BY <1>0, <2>1, RateBounds DEF peek
    <2> QED
      BY <2>2 DEF Owed
  <1>7. PICK under2, stale2, noted2 : /\ under2 = Cardinality(Under(m, at))' /\ stale2 = Cardinality(Stale(m, at))'
                                      /\ noted2 = Within(Times(failures_, m), at)'
    OBVIOUS
  <1>8. Slip(second, at, failed, 0, under2, stale2, noted2)
    <2>1. CASE second > at
      <3>1. ~(second <= at)
        BY <1>0, <2>1
      <3>2. under2 = under
        BY <1>1, <1>4, <1>7, <3>1
      <3> QED
        BY <3>1, <3>2, <1>3, <2>1 DEF Slip
    <2>2. CASE second <= at - WindowTicks
      <3>1. ~(second > at - WindowTicks) /\ second <= at /\ ~(second > at)
        BY <1>0, <2>2
      <3>2. failed = 0 /\ Under(m, at) = {}
        BY <1>1, <2>2, NothingYet
      <3>3. under2 = 0
        BY <1>4, <1>7, <3>1, <3>2, FS_EmptySet
      <3> QED
        BY <3>1, <3>2, <3>3 DEF Slip
    <2>3. CASE second <= at /\ second > at - WindowTicks
      <3>1. ~(second <= at - WindowTicks)
        BY <1>0, <2>3
      <3>2. under2 = under + 1
        <4>1. IsFiniteSet(Under(m, at)) /\ Cardinality(Under(m, at) \cup {g}) = Cardinality(Under(m, at)) + 1
          BY <1>4, SlotsCount, FS_AddElement
        <4> QED
          BY <4>1, <1>1, <1>4, <1>7, <2>3
      <3>3. stale2 = stale
        BY <1>1, <1>4, <1>7, <3>1
      <3>4. noted2 = noted
        <4>1. Within(Times(failures_', m), at) = Within(Times(failures_, m), at)
          BY <1>0, <1>2, <2>3, WithinPruned
        <4>2. noted2 = Within(Times(failures_', m), at)
          BY <1>7 DEF Within
        <4> QED
          BY <4>1, <4>2, <1>1
      <3>5. stale <= Together
        <4>1. under + stale <= Together
          BY <1>1, <1>4, SlotsCount
        <4> QED
          BY <4>1, <1>2, TogetherIsNat
      <3>6. Slip(second, at, failed, 0, under + 1, stale, noted)
        BY <3>5, <1>0, <1>2, <1>3, <2>3, SlipBegins
      <3> QED
        BY <3>2, <3>3, <3>4, <3>6
    <2> QED
      BY <2>1, <2>2, <2>3, <1>0
  <1>9. Slip(second', at, Within(missed[m], at)', Owed(m, at)', under2, stale2, noted2)
    BY <1>0, <1>5, <1>6, <1>8
  <1> QED
    BY <1>7, <1>9 DEF Slips

LEMMA GuessStep ==
  ASSUME RateTypes, MailboxInv, NEW g \in Guesses, NEW m \in Mailboxes, guess_password(g, m)
  PROVE  MailboxInv'
  <1>0. /\ second' = second /\ missed' = missed
        /\ \A k : k # m => Times(failures_', k) = Times(failures_, k)
        /\ \A h \in Guesses : attempt'[h] # NoAttempt => attempt'[h].clock <= second
        /\ \A k \in Mailboxes : Len(Times(failures_', k)) <= HitLimit
    BY GuessTypes
  <1>1. ASSUME Cardinality(Mailboxes) <= MaxKeys, NEW k \in Mailboxes, NEW at \in Nat PROVE Slips(k, at)'
    <2>0. Slips(k, at)
      BY <1>1 DEF MailboxInv
    <2>1. CASE k = m
      BY <2>0, <2>1, LookRefused, LookPasses
    <2>2. CASE k # m
      <3>1. Times(failures_', k) = Times(failures_, k)
        BY <1>0, <2>2
      <3>2. Under(k, at)' = Under(k, at) /\ Stale(k, at)' = Stale(k, at)
        <4>1. CASE peek(failures_, m, second)
          <5>1. attempt' = [attempt EXCEPT ![g] = [on |-> m, clock |-> second]] /\ attempt[g] = NoAttempt
            BY <4>1, GuessTypes DEF guess_password
          <5>2. attempt'[g].on = m /\ \A h \in Guesses : h # g => attempt'[h] = attempt[h]
            BY <5>1 DEF RateTypes
          <5> QED
            BY <5>1, <5>2, <2>2 DEF Under, Stale
        <4>2. CASE ~peek(failures_, m, second)
          <5>1. attempt' = attempt
            BY <4>2, GuessTypes
          <5> QED
            BY <5>1 DEF Under, Stale
        <4> QED
          BY <4>1, <4>2
      <3>3. Unmoved(k, at)
        BY <1>0, <3>1, <3>2 DEF Unmoved, Owed, Within
      <3> QED
        BY <1>0, <2>0, <3>3, UnmovedSlips
    <2> QED
      BY <2>1, <2>2
  <1> QED
    BY <1>0, <1>1 DEF MailboxInv

\* A failure: the charge is for the moment the attempt began.
LEMMA WrongTypes ==
  ASSUME RateTypes, MailboxInv, NEW g \in Guesses, password_wrong(g), NEW old,
         old = _prune(Times(failures_, attempt[g].on), attempt[g].clock)
  PROVE  /\ attempt[g].on \in Mailboxes /\ attempt[g].clock \in Nat /\ attempt[g].clock <= second /\ old \in Seq(Nat)
         /\ Len(old) <= Len(Times(failures_, attempt[g].on))
         /\ second' = second /\ Table(failures_', Mailboxes)
         /\ missed' = [missed EXCEPT ![attempt[g].on] = Append(@, attempt[g].clock)]
         /\ attempt' = [attempt EXCEPT ![g] = NoAttempt] /\ attempt' \in [Guesses -> GuessStates]
         /\ Len(old) >= HitLimit => Times(failures_', attempt[g].on) = old
         /\ ~(Len(old) >= HitLimit) => Times(failures_', attempt[g].on) = Append(old, attempt[g].clock)
         /\ \A k : k # attempt[g].on => Times(failures_', k) = Times(failures_, k) \/ Times(failures_', k) = <<>>
         /\ Cardinality(Mailboxes) <= MaxKeys => \A k : k # attempt[g].on => Times(failures_', k) = Times(failures_, k)
  <1>0. /\ Table(failures_, Mailboxes) /\ attempt \in [Guesses -> GuessStates] /\ attempt[g] # NoAttempt /\ second' = second
        /\ failures_' = check(failures_, attempt[g].on, attempt[g].clock).table
        /\ missed' = [missed EXCEPT ![attempt[g].on] = Append(@, attempt[g].clock)]
        /\ attempt' = [attempt EXCEPT ![g] = NoAttempt]
    BY DEF RateTypes, password_wrong
  <1>1. attempt[g] \in [on : Mailboxes, clock : Nat]
    BY <1>0 DEF GuessStates
  <1>2. attempt[g].on \in Mailboxes /\ attempt[g].clock \in Nat
    BY <1>1
  <1>3. attempt[g].clock <= second
    BY <1>0 DEF MailboxInv
  <1>4. PICK m, at : m = attempt[g].on /\ at = attempt[g].clock
    OBVIOUS
  <1>5. PICK decision : decision = check(failures_, m, at)
    OBVIOUS
  <1>6. Charged(Mailboxes, failures_, m, at, old, decision)
    BY <1>0, <1>2, <1>4, <1>5, CheckLemma
  <1>7. failures_' = decision.table /\ IsFiniteSet(Mailboxes)
    BY <1>0, <1>4, <1>5, RateBounds
  <1>8. old \in Seq(Nat) /\ Len(old) <= Len(Times(failures_, m))
    <2>1. Times(failures_, m) \in Seq(Nat)
      BY <1>0, TimesAreTimes
    <2> QED
      BY <2>1, <1>2, <1>4, PrunedIsShorter
  <1>9. attempt' \in [Guesses -> GuessStates]
    BY <1>0 DEF GuessStates
  <1>10. /\ Table(failures_', Mailboxes)
         /\ Len(old) >= HitLimit => Times(failures_', m) = old
         /\ ~(Len(old) >= HitLimit) => Times(failures_', m) = Append(old, at)
         /\ \A k : k # m => Times(failures_', k) = Times(failures_, k) \/ Times(failures_', k) = <<>>
         /\ Cardinality(Mailboxes) <= MaxKeys => \A k : k # m => Times(failures_', k) = Times(failures_, k)
    BY <1>6, <1>7 DEF Charged
  <1> QED
    BY <1>0, <1>2, <1>3, <1>4, <1>8, <1>9, <1>10

\* The mailbox that was guessed at.
LEMMA WrongSlips ==
  ASSUME RateTypes, MailboxInv, NEW g \in Guesses, password_wrong(g), NEW m, m = attempt[g].on, NEW at \in Nat, Slips(m, at)
  PROVE  Slips(m, at)'
  <1>1. PICK old, clock : old = _prune(Times(failures_, m), clock) /\ clock = attempt[g].clock
    OBVIOUS
  <1>2. /\ m \in Mailboxes /\ clock \in Nat /\ clock <= second /\ old \in Seq(Nat) /\ Len(old) <= Len(Times(failures_, m))
        /\ second' = second /\ missed' = [missed EXCEPT ![m] = Append(@, clock)]
        /\ attempt' = [attempt EXCEPT ![g] = NoAttempt]
        /\ Len(old) >= HitLimit => Times(failures_', m) = old
        /\ ~(Len(old) >= HitLimit) => Times(failures_', m) = Append(old, clock)
    BY <1>1, WrongTypes
  <1>3. second \in Nat /\ WindowTicks \in Nat /\ HitLimit \in Nat \ {0} /\ missed \in [Mailboxes -> Seq(Nat)] /\ attempt[g] # NoAttempt
    BY RateBounds DEF RateTypes, password_wrong
  <1>4. PICK failed, owed, under, stale, noted :
           /\ failed = Within(missed[m], at) /\ owed = Owed(m, at) /\ under = Cardinality(Under(m, at))
           /\ stale = Cardinality(Stale(m, at)) /\ noted = Within(Times(failures_, m), at)
    OBVIOUS
  <1>5. /\ failed \in Nat /\ owed \in Nat /\ under \in Nat /\ stale \in Nat /\ noted \in Nat
        /\ Times(failures_, m) \in Seq(Nat) /\ missed[m] \in Seq(Nat)
    BY <1>2, <1>4, CountsAreCounts DEF Tallied
  <1>6. Slip(second, at, failed, owed, under, stale, noted)
    BY <1>4 DEF Slips
  <1>7. under + stale <= Together + 1
    BY <1>4, SlotsCount
  <1>8. Under(m, at)' = Under(m, at) \ {g} /\ Stale(m, at)' = Stale(m, at) \ {g}
    BY <1>2, Freed
  <1>9. IsFiniteSet(Under(m, at)) /\ IsFiniteSet(Stale(m, at))
    BY SlotsCount
  <1>10. /\ g \in Under(m, at) <=> clock > at - WindowTicks /\ clock <= at
         /\ g \in Stale(m, at) <=> clock <= at - WindowTicks
    BY <1>1, <1>3 DEF Under, Stale
  <1>11. Within(missed[m], at)' = IF clock > at - WindowTicks /\ clock <= at THEN failed + 1 ELSE failed
    <2>1. missed'[m] = Append(missed[m], clock)
      BY <1>2, <1>3
    <2>2. Within(missed'[m], at) = IF clock > at - WindowTicks /\ clock <= at THEN failed + 1 ELSE failed
      BY <2>1, <1>2, <1>4, <1>5, WithinAppended, SMTT(30)
    <2> QED
      BY <2>2 DEF Within
  <1>12. PICK failed2, owed2, under2, stale2, noted2 :
           /\ failed2 = Within(missed[m], at)' /\ owed2 = Owed(m, at)' /\ under2 = Cardinality(Under(m, at))'
           /\ stale2 = Cardinality(Stale(m, at))' /\ noted2 = Within(Times(failures_, m), at)'
    OBVIOUS
  <1>13. under2 = Cardinality(Under(m, at) \ {g}) /\ stale2 = Cardinality(Stale(m, at) \ {g})
    BY <1>8, <1>12
  <1>14. Slip(second, at, failed2, owed2, under2, stale2, noted2)
    <2>1. CASE second > at
      <3>1. CASE clock > at - WindowTicks /\ clock <= at
        <4>1. failed2 = failed + 1 /\ under2 \in Nat /\ under2 = under - 1 /\ under2 + 1 <= under /\ 1 \in {0, 1}
          <5>1. failed2 = failed + 1
            BY <3>1, <1>11, <1>12
          <5>2. under2 \in Nat /\ under2 = under - 1
            BY <3>1, <1>4, <1>9, <1>10, <1>13, OneFewer
          <5> QED
            BY <5>1, <5>2, <1>5
        <4>2. Slip(second, at, failed + 1, owed2, under2, stale2, noted2)
          BY <4>1, <2>1, <1>3, <1>5, <1>6, SlipAfter
        <4> QED
          BY <4>1, <4>2
      <3>2. CASE ~(clock > at - WindowTicks /\ clock <= at)
        <4>1. failed2 = failed /\ failed + 0 = failed /\ under2 = under /\ under2 + 0 <= under /\ 0 \in {0, 1}
          <5>1. failed2 = failed /\ failed + 0 = failed
            BY <3>2, <1>5, <1>11, <1>12
          <5>2. under2 = under
            BY <3>2, <1>4, <1>9, <1>10, <1>13, OneFewer
          <5> QED
            BY <5>1, <5>2, <1>5
        <4>2. Slip(second, at, failed + 0, owed2, under2, stale2, noted2)
          BY <4>1, <2>1, <1>3, <1>5, <1>6, SlipAfter
        <4> QED
          BY <4>1, <4>2
      <3> QED
        BY <3>1, <3>2
    <2>2. CASE second <= at
      <3>1. clock <= at
        BY <2>2, <1>2, <1>3
      <3>2. Within(old, at) = noted
        BY <3>1, <1>1, <1>2, <1>4, <1>5, WithinPruned, SMTT(30)
      <3>3. Len(old) \in Nat /\ Len(Times(failures_, m)) \in Nat
        BY <1>2, <1>5
      <3>4. CASE clock > at - WindowTicks
        <4>1. failed2 = failed + 1 /\ under2 = under - 1 /\ under2 \in Nat /\ under # 0
          BY <3>1, <3>4, <1>4, <1>9, <1>10, <1>11, <1>12, <1>13, OneFewer
        <4>2. stale2 = stale
          <5>1. g \notin Stale(m, at)
            BY <3>4, <1>2, <1>3, <1>10
          <5> QED
            BY <5>1, <1>4, <1>9, <1>13, OneFewer
        <4>3. CASE Len(old) >= HitLimit
          <5>1. noted2 = noted
            <6>1. noted2 = Within(Times(failures_', m), at)
              BY <1>12 DEF Within
            <6> QED
              BY <6>1, <4>3, <3>2, <1>2
          <5>2. owed = under
            <6>1. Len(Times(failures_, m)) >= HitLimit
              BY <4>3, <3>3, <1>2, <1>3
            <6> QED
              BY <6>1, <1>4 DEF Owed
          <5>3. owed2 = under - 1
            <6>1. owed2 = IF Len(Times(failures_', m)) >= HitLimit THEN under2 ELSE 0
              BY <1>12 DEF Owed
            <6> QED
              BY <6>1, <4>1, <4>3, <1>2
          <5>4. Slip(second, at, failed + 1, under - 1, under - 1, stale, noted)
            BY <5>2, <4>1, <2>2, <1>3, <1>5, <1>6, SlipRefused
          <5> QED
            BY <5>1, <5>3, <5>4, <4>1, <4>2
        <4>4. CASE ~(Len(old) >= HitLimit)
          <5>1. noted2 = noted + 1
            <6>1. noted2 = Within(Times(failures_', m), at)
              BY <1>12 DEF Within
            <6>2. Within(Append(old, clock), at) = noted + 1
              BY <3>1, <3>2, <3>4, <1>2, WithinAppended
            <6> QED
              BY <6>1, <6>2, <4>4, <1>2
          <5>2. owed2 \in Nat /\ owed2 <= under - 1
            <6>1. owed2 = under2 \/ owed2 = 0
              BY <1>12 DEF Owed
            <6> QED
              BY <6>1, <4>1
          <5>3. under <= Together + 1
            BY <1>5, <1>7, TogetherIsNat
          <5>4. Slip(second, at, failed + 1, owed2, under - 1, stale, noted + 1)
            BY <5>2, <5>3, <4>1, <2>2, <1>3, <1>5, <1>6, SlipRecorded
          <5> QED
            BY <5>1, <5>4, <4>1, <4>2
        <4> QED
          BY <4>3, <4>4
      <3>5. CASE clock <= at - WindowTicks
        <4>0. ~(clock > at - WindowTicks)
          BY <3>5, <1>2, <1>3
        <4>1. failed2 = failed /\ under2 = under
          BY <4>0, <1>4, <1>9, <1>10, <1>11, <1>12, <1>13, OneFewer
        <4>2. stale2 = stale - 1 /\ stale # 0
          BY <3>5, <1>4, <1>9, <1>10, <1>13, OneFewer
        <4>3. noted2 = noted
          <5>1. noted2 = Within(Times(failures_', m), at)
            BY <1>12 DEF Within
          <5>2. Within(Append(old, clock), at) = noted
            BY <4>0, <3>2, <1>2, WithinAppended
          <5> QED
            BY <5>1, <5>2, <3>2, <1>2
        <4>4. owed2 \in Nat /\ owed2 <= under
          <5>1. owed2 = under2 \/ owed2 = 0
            BY <1>12 DEF Owed
          <5> QED
            BY <5>1, <4>1, <1>5
        <4>5. under <= Together
          BY <4>2, <1>5, <1>7, TogetherIsNat
        <4>6. Slip(second, at, failed, owed2, under, stale - 1, noted)
          BY <4>2, <4>4, <4>5, <2>2, <1>3, <1>5, <1>6, SlipOlder
        <4> QED
          BY <4>1, <4>2, <4>3, <4>6
      <3> QED
        BY <3>4, <3>5, <1>2, <1>3
    <2> QED
      BY <2>1, <2>2, <1>3
  <1> QED
    BY <1>2, <1>12, <1>14 DEF Slips

LEMMA WrongStep ==
  ASSUME RateTypes, MailboxInv, NEW g \in Guesses, password_wrong(g)
  PROVE  MailboxInv'
  <1>1. PICK old, m, clock : old = _prune(Times(failures_, m), clock) /\ m = attempt[g].on /\ clock = attempt[g].clock
    OBVIOUS
  <1>2. /\ m \in Mailboxes /\ clock \in Nat /\ clock <= second /\ old \in Seq(Nat) /\ Len(old) <= Len(Times(failures_, m))
        /\ second' = second /\ missed' = [missed EXCEPT ![m] = Append(@, clock)]
        /\ attempt' = [attempt EXCEPT ![g] = NoAttempt]
        /\ Len(old) >= HitLimit => Times(failures_', m) = old
        /\ ~(Len(old) >= HitLimit) => Times(failures_', m) = Append(old, clock)
        /\ \A k : k # m => Times(failures_', k) = Times(failures_, k) \/ Times(failures_', k) = <<>>
        /\ Cardinality(Mailboxes) <= MaxKeys => \A k : k # m => Times(failures_', k) = Times(failures_, k)
    BY <1>1, WrongTypes
  <1>3. /\ second \in Nat /\ HitLimit \in Nat \ {0} /\ missed \in [Mailboxes -> Seq(Nat)]
        /\ attempt \in [Guesses -> GuessStates] /\ Table(failures_, Mailboxes)
    BY RateBounds DEF RateTypes
  <1>4. ASSUME NEW h \in Guesses, attempt'[h] # NoAttempt PROVE attempt'[h].clock <= second'
    <2>1. attempt'[h] = attempt[h]
      BY <1>2, <1>3, <1>4
    <2> QED
      BY <2>1, <1>2, <1>4 DEF MailboxInv
  <1>5. ASSUME NEW k \in Mailboxes, NEW i \in 1 .. Len(missed'[k]) PROVE missed'[k][i] <= second'
    <2>0. missed[k] \in Seq(Nat) /\ \A j \in 1 .. Len(missed[k]) : missed[k][j] <= second
      BY <1>3 DEF MailboxInv
    <2>1. CASE k = m
      <3>1. missed'[k] = Append(missed[k], clock)
        BY <2>1, <1>2, <1>3
      <3>2. PICK hits : hits = missed[k]
        OBVIOUS
      <3>3. hits \in Seq(Nat) /\ missed'[k] = Append(hits, clock) /\ \A j \in 1 .. Len(hits) : hits[j] <= second
        BY <2>0, <3>1, <3>2
      <3>4. i \in 1 .. Len(hits) \/ i = Len(hits) + 1
        BY <3>3
      <3>5. CASE i \in 1 .. Len(hits)
        <4>1. missed'[k][i] = hits[i]
          BY <3>3, <3>5, <1>2
        <4> QED
          BY <4>1, <3>3, <3>5, <1>2
      <3>6. CASE i = Len(hits) + 1
        <4>1. missed'[k][i] = clock
          BY <3>3, <3>6, <1>2
        <4> QED
          BY <4>1, <1>2
      <3> QED
        BY <3>4, <3>5, <3>6
    <2>2. CASE k # m
      <3>1. missed'[k] = missed[k]
        BY <2>2, <1>2, <1>3
      <3> QED
        BY <3>1, <2>0, <1>2
    <2> QED
      BY <2>1, <2>2
  <1>6. ASSUME NEW k \in Mailboxes PROVE Len(Times(failures_', k)) <= HitLimit
    <2>1. Len(Times(failures_, k)) <= HitLimit /\ Times(failures_, k) \in Seq(Nat) /\ Len(Times(failures_, k)) \in Nat
      BY <1>3, TimesAreTimes, LenProperties DEF MailboxInv
    <2>2. CASE k # m
      <3>1. Times(failures_', k) = Times(failures_, k) \/ Times(failures_', k) = <<>>
        BY <1>2, <2>2
      <3> QED
        BY <3>1, <2>1, <1>3
    <2>3. CASE k = m
      <3>1. Len(old) \in Nat /\ Len(old) <= HitLimit
        BY <2>1, <2>3, <1>2, <1>3
      <3>2. CASE Len(old) >= HitLimit
        BY <3>1, <3>2, <2>3, <1>2
      <3>3. CASE ~(Len(old) >= HitLimit)
        <4>1. Len(Append(old, clock)) = Len(old) + 1
          BY <1>2
        <4> QED
          BY <4>1, <3>1, <3>3, <2>3, <1>2, <1>3
      <3> QED
        BY <3>2, <3>3
    <2> QED
      BY <2>2, <2>3
  <1>7. ASSUME Cardinality(Mailboxes) <= MaxKeys, NEW k \in Mailboxes, NEW at \in Nat PROVE Slips(k, at)'
    <2>0. Slips(k, at)
      BY <1>7 DEF MailboxInv
    <2>1. CASE k = m
      BY <2>0, <2>1, <1>1, WrongSlips
    <2>2. CASE k # m
      <3>1. Times(failures_', k) = Times(failures_, k) /\ missed'[k] = missed[k]
        BY <2>2, <1>2, <1>3, <1>7
      <3>2. g \notin Under(k, at) /\ g \notin Stale(k, at)
        BY <2>2, <1>1 DEF Under, Stale
      <3>3. Under(k, at)' = Under(k, at) /\ Stale(k, at)' = Stale(k, at)
        <4>1. Under(k, at)' = Under(k, at) \ {g} /\ Stale(k, at)' = Stale(k, at) \ {g}
          BY <1>2, Freed
        <4> QED
          BY <4>1, <3>2
      <3>4. Unmoved(k, at)
        BY <3>1, <3>3 DEF Unmoved, Owed, Within
      <3> QED
        BY <1>2, <2>0, <3>4, UnmovedSlips
    <2> QED
      BY <2>1, <2>2
  <1> QED
    BY <1>4, <1>5, <1>6, <1>7 DEF MailboxInv

\* The bound of the guesses is what is left of the sum.
LEMMA GuessesBound ==
  ASSUME RateTypes, MailboxInv
  PROVE  GuessesAreBounded
  <1> SUFFICES ASSUME Cardinality(Mailboxes) <= MaxKeys, NEW k \in Mailboxes, NEW at \in 1 .. MaxSeconds
               PROVE  Within(missed[k], at) <= HitLimit + HitLimit * Together + Together * Together
    BY DEF GuessesAreBounded
  <1>1. at \in Nat
    BY RateBounds
  <1>2. PICK failed, owed, under, stale, noted :
           /\ failed = Within(missed[k], at) /\ owed = Owed(k, at) /\ under = Cardinality(Under(k, at))
           /\ stale = Cardinality(Stale(k, at)) /\ noted = Within(Times(failures_, k), at)
    OBVIOUS
  <1>3. /\ failed \in Nat /\ owed \in Nat /\ under \in Nat /\ stale \in Nat /\ noted \in Nat
        /\ noted <= Len(Times(failures_, k)) /\ Len(Times(failures_, k)) <= HitLimit /\ Len(Times(failures_, k)) \in Nat
    BY <1>1, <1>2, CountsAreCounts, LenProperties DEF Tallied
  <1>4. Slip(second, at, failed, owed, under, stale, noted)
    BY <1>1, <1>2 DEF MailboxInv, Slips
  <1>5. PICK t, h : t = Together /\ h = HitLimit
    OBVIOUS
  <1>6. t \in Nat /\ h \in Nat /\ second \in Nat /\ noted <= h
    BY <1>3, <1>5, TogetherIsNat, RateBounds DEF RateTypes
  <1>7. PICK a, b, c, d : a = t * stale /\ b = t * noted /\ c = t * t /\ d = h * t
    OBVIOUS
  <1>8. a \in Nat /\ b \in Nat /\ c \in Nat /\ d \in Nat /\ b <= d
    <2>1. t * noted <= t * h
      BY <1>3, <1>6, Multiples
    <2>2. t * h = h * t
      BY <1>6
    <2> QED
      BY <2>1, <2>2, <1>3, <1>6, <1>7
  <1>9. failed <= h + d + c
    <2>1. CASE failed = 0
      BY <2>1, <1>6, <1>8
    <2>2. CASE failed + owed + a <= noted + b + c
      BY ONLY <2>2, <1>3, <1>6, <1>8
    <2>3. CASE failed + under <= h + d + c
      BY ONLY <2>3, <1>3, <1>6, <1>8
    <2>4. second <= at \/ second > at
      BY <1>1, <1>6
    <2> QED
      BY <2>1, <2>2, <2>3, <2>4, <1>4, <1>5, <1>7 DEF Slip
  <1> QED
    BY <1>2, <1>5, <1>7, <1>9

\* Whoever moves, the tables stay tables and both bounds are kept.
RateIInv == RateTypes /\ ClientInv /\ MailboxInv

LEMMA RateStart == RateInit => RateIInv
  BY RatesStart, GuessesStart DEF RateIInv

\* What the requests leave alone keeps what is known of the mailboxes.
LEMMA MailboxesWait ==
  ASSUME MailboxInv, UNCHANGED <<failures_, attempt, missed, second>>
  PROVE  MailboxInv'
  BY DEF MailboxInv, Slips, Owed, Under, Stale

\* An attempt leaves the tables tables.
LEMMA AttemptTypes ==
  ASSUME RateTypes, MailboxInv, NEW g \in Guesses, (\E k \in Mailboxes : guess_password(g, k)) \/ password_wrong(g) \/ password_right(g)
  PROVE  RateTypes' /\ UNCHANGED <<requests_, admitted, retry, second>>
  <1>1. CASE \E k \in Mailboxes : guess_password(g, k)
    <2>1. PICK k \in Mailboxes : guess_password(g, k)
      BY <1>1
    <2>2. /\ Table(failures_', Mailboxes) /\ second' = second /\ missed' = missed /\ attempt' \in [Guesses -> GuessStates]
          /\ UNCHANGED <<requests_, admitted, retry>>
      BY <2>1, GuessTypes DEF guess_password
    <2> QED
      BY <2>2 DEF RateTypes
  <1>2. CASE password_wrong(g)
    <2>1. PICK old : old = _prune(Times(failures_, attempt[g].on), attempt[g].clock)
      OBVIOUS
    <2>2. /\ Table(failures_', Mailboxes) /\ second' = second /\ attempt' \in [Guesses -> GuessStates]
          /\ attempt[g].on \in Mailboxes /\ attempt[g].clock \in Nat
          /\ missed' = [missed EXCEPT ![attempt[g].on] = Append(@, attempt[g].clock)]
      BY <1>2, <2>1, WrongTypes
    <2>3. UNCHANGED <<requests_, admitted, retry>>
      BY <1>2 DEF password_wrong
    <2>4. missed' \in [Mailboxes -> Seq(Nat)]
      BY <2>2 DEF RateTypes
    <2> QED
      BY <2>2, <2>3, <2>4 DEF RateTypes
  <1>3. CASE password_right(g)
    <2>1. attempt' = [attempt EXCEPT ![g] = NoAttempt] /\ UNCHANGED <<requests_, failures_, second, admitted, missed, retry>>
      BY <1>3 DEF password_right
    <2>2. attempt' \in [Guesses -> GuessStates]
      BY <2>1 DEF RateTypes, GuessStates
    <2> QED
      BY <2>1, <2>2 DEF RateTypes
  <1> QED
    BY <1>1, <1>2, <1>3

LEMMA RateStep ==
  ASSUME RateIInv, [RequestsNext \/ GuessesNext]_rateVars
  PROVE  RateIInv' /\ RetryAfterIsKept
  <1>0. RateTypes /\ ClientInv /\ MailboxInv /\ second \in Nat
    BY DEF RateIInv, RateTypes
  <1>1. CASE \E c \in Clients : request(c)
    <2>1. PICK c \in Clients : request(c)
      BY <1>1
    <2>2. RateTypes' /\ ClientInv' /\ RetryAfterIsKept
      BY <1>0, <2>1, RequestStep
    <2>3. MailboxInv'
      BY <1>0, <2>1, MailboxesWait DEF request
    <2> QED
      BY <2>2, <2>3 DEF RateIInv
  <1>2. CASE second_passes
    <2>1. second' = second + 1 /\ UNCHANGED <<requests_, failures_, attempt, admitted, missed, retry>>
      BY <1>2 DEF second_passes
    <2>2. RateTypes'
      BY <1>0, <2>1 DEF RateTypes
    <2>3. ClientInv' /\ RetryAfterIsKept
      BY <1>0, <2>1, ClientsWait
    <2>4. MailboxInv'
      BY <1>0, <2>1, TimeOfGuesses
    <2> QED
      BY <2>2, <2>3, <2>4 DEF RateIInv
  <1>3. CASE \E g \in Guesses : (\E k \in Mailboxes : guess_password(g, k)) \/ password_wrong(g) \/ password_right(g)
    <2>1. PICK g \in Guesses : (\E k \in Mailboxes : guess_password(g, k)) \/ password_wrong(g) \/ password_right(g)
      BY <1>3
    <2>2. RateTypes' /\ UNCHANGED <<requests_, admitted, retry, second>>
      BY <1>0, <2>1, AttemptTypes
    <2>3. ClientInv' /\ RetryAfterIsKept
      BY <1>0, <2>2, ClientsWait
    <2>4. MailboxInv'
      BY <1>0, <2>1, GuessStep, WrongStep, RightStep
    <2> QED
      BY <2>2, <2>3, <2>4 DEF RateIInv
  <1>4. CASE UNCHANGED rateVars
    <2>1. UNCHANGED <<requests_, failures_, second, attempt, admitted, missed, retry>>
      BY <1>4 DEF rateVars
    <2>2. RateTypes'
      BY <1>0, <2>1 DEF RateTypes
    <2>3. ClientInv' /\ RetryAfterIsKept
      BY <1>0, <2>1, ClientsWait
    <2>4. MailboxInv'
      BY <1>0, <2>1, MailboxesWait
    <2> QED
      BY <2>2, <2>3, <2>4 DEF RateIInv
  <1> QED
    BY <1>1, <1>2, <1>3, <1>4 DEF RequestsNext, GuessesNext

LEMMA RatesAreSafe == RateIInv => WindowHolds /\ GuessesAreBounded
  BY WindowsHold, GuessesBound DEF RateIInv

-----------------------------------------------------------------------
(* The ceiling of an account's tokens.                                     *)

LivesOf(h) == {n \in Mints : Live(n) /\ bearer[n].holder = h}

\* A minting that nothing overlaps is the only one of its account, and what it does not end stays below the
\* ceiling until it commits: nothing else can open a token for the account.
AloneInv ==
    \A m \in Mints : mint[m].pc = "Minting" /\ mint[m].alone
        => /\ OpenMints(mint[m].holder) \subseteq {m}
           /\ Cardinality(LivesOf(mint[m].holder) \ mint[m].ends) < Ceiling

LEMMA AloneStart == CliInit => AloneInv
  BY DEF CliInit, AloneInv

LEMMA FewerTokens ==
  ASSUME NEW S \in SUBSET Mints, NEW T, T \subseteq S
  PROVE  IsFiniteSet(S) /\ Cardinality(S) \in Nat /\ Cardinality(T) \in Nat /\ Cardinality(T) <= Cardinality(S)
  BY CliConstants, FS_Subset, FS_CardinalityType

\* Nothing opens a token or a minting.
LEMMA AloneKeeps ==
  ASSUME AloneInv,
         \A n \in Mints : (Live(n))' => Live(n) /\ bearer'[n].holder = bearer[n].holder,
         \A n \in Mints : mint'[n].pc = "Minting" => mint[n].pc = "Minting" /\ mint'[n] = mint[n],
         \A n \in Mints : mint[n].pc = "Minting" => mint'[n].pc = "Minting"
  PROVE  AloneInv' /\ CeilingHolds
  <1>1. ASSUME NEW m \in Mints, mint'[m].pc = "Minting", mint'[m].alone
        PROVE  /\ {n \in Mints : mint'[n].pc = "Minting" /\ mint'[n].holder = mint'[m].holder} \subseteq {m}
               /\ Cardinality({n \in Mints : (Live(n))' /\ bearer'[n].holder = mint'[m].holder} \ mint'[m].ends) < Ceiling
    <2>1. mint[m].pc = "Minting" /\ mint'[m] = mint[m]
      BY <1>1
    <2>2. OpenMints(mint[m].holder) \subseteq {m} /\ Cardinality(LivesOf(mint[m].holder) \ mint[m].ends) < Ceiling
      BY <1>1, <2>1 DEF AloneInv
    <2>3. {n \in Mints : mint'[n].pc = "Minting" /\ mint'[n].holder = mint'[m].holder} \subseteq {m}
      BY <2>1, <2>2 DEF OpenMints
    <2> DEFINE now1 == {n \in Mints : (Live(n))' /\ bearer'[n].holder = mint'[m].holder} \ mint'[m].ends
               was == LivesOf(mint[m].holder) \ mint[m].ends
    <2>4. now1 \subseteq was /\ was \in SUBSET Mints
      BY <2>1 DEF LivesOf
    <2> HIDE DEF now1, was
    <2>5. Cardinality(was) \in Nat /\ Cardinality(now1) \in Nat /\ Cardinality(now1) <= Cardinality(was)
      BY <2>4, FewerTokens
    <2>6. Cardinality(was) < Ceiling /\ Ceiling \in Nat
      BY <2>2, CliConstants DEF was
    <2>7. Cardinality(now1) < Ceiling
      BY <2>5, <2>6
    <2> QED
      BY <2>3, <2>7 DEF now1
  <1>2. AloneInv'
    BY <1>1 DEF AloneInv, OpenMints, LivesOf
  <1>3. CeilingHolds
    BY DEF CeilingHolds
  <1> QED
    BY <1>2, <1>3

LEMMA BeginKeepsAlone ==
  ASSUME CliTypes, AloneInv, NEW m \in Mints, BeginMinting(m)
  PROVE  AloneInv' /\ CeilingHolds
  <1> DEFINE h == keyOwner[MintKey[m]]
             mine == {n \in Mints : Live(n) /\ bearer[n].holder = h}
  <1>1. UNCHANGED <<day, keyOwner, designated, bearer, replacing>> /\ mint[m].pc = "Open"
    BY DEF BeginMinting, open_challenge_by_nonce
  <1>2. PICK ends \in _evict_surplus_cli_sessions(h) :
            mint' = [n \in Mints |->
                  CASE n = m -> [pc |-> "Minting", attempts |-> mint[m].attempts, holder |-> h, ends |-> ends,
                                 alone |-> OpenMints(h) = {}]
                    [] n \in OpenMints(h) -> [mint[n] EXCEPT !.alone = FALSE]
                    [] OTHER -> mint[n]]
    BY DEF BeginMinting
  <1>3. Cardinality(mine \ ends) < Ceiling
    BY <1>2 DEF _evict_surplus_cli_sessions
  <1> HIDE DEF h, mine
  <1>4. m \notin OpenMints(h)
    BY <1>1 DEF OpenMints
  <1>5. mint'[m].pc = "Minting" /\ mint'[m].holder = h /\ mint'[m].ends = ends /\ mint'[m].alone = (OpenMints(h) = {})
    <2> DEFINE alone == OpenMints(h) = {}
               d == [pc |-> "Minting", attempts |-> mint[m].attempts, holder |-> h, ends |-> ends, alone |-> alone]
               f(n) == [mint[n] EXCEPT !.alone = FALSE]
    <2>1. mint' = [n \in Mints |-> CASE n = m -> d [] n \in OpenMints(h) -> f(n) [] OTHER -> mint[n]]
      BY <1>2
    <2> HIDE DEF alone
    <2>2. d.pc = "Minting" /\ d.holder = h /\ d.ends = ends /\ d.alone = alone
      OBVIOUS
    <2> HIDE DEF d, f
    <2>3. mint'[m] = d
      BY <1>4, <2>1
    <2> QED
      BY <2>2, <2>3 DEF alone
  <1>6. ASSUME NEW n \in Mints, n # m, n \in OpenMints(h)
        PROVE  mint'[n].pc = mint[n].pc /\ mint'[n].holder = mint[n].holder /\ mint'[n].alone = FALSE
    <2>1. mint[n] \in Minters
      BY DEF CliTypes
    <2>2. mint'[n] = [mint[n] EXCEPT !.alone = FALSE]
      BY <1>2, <1>6
    <2>3. [mint[n] EXCEPT !.alone = FALSE].alone = FALSE
      BY <2>1 DEF Minters
    <2> QED
      BY <2>1, <2>2, <2>3, NotAlone
  <1>7. ASSUME NEW n \in Mints, n # m, n \notin OpenMints(h)
        PROVE  mint'[n] = mint[n]
    BY <1>2, <1>7
  <1>8. \A n \in Mints : (Live(n))' = Live(n) /\ bearer'[n].holder = bearer[n].holder
    BY <1>1 DEF Live
  <1>9. ASSUME NEW n \in Mints, mint'[n].pc = "Minting", mint'[n].alone
        PROVE  /\ {x \in Mints : mint'[x].pc = "Minting" /\ mint'[x].holder = mint'[n].holder} \subseteq {n}
               /\ Cardinality({x \in Mints : (Live(x))' /\ bearer'[x].holder = mint'[n].holder} \ mint'[n].ends) < Ceiling
    <2>1. CASE n = m
      <3>1. OpenMints(h) = {}
        BY <1>5, <1>9, <2>1
      <3>2. \A x \in Mints : x # m => mint'[x] = mint[x]
        BY <1>7, <3>1
      <3>3. \A x \in Mints : x # m /\ mint'[x].pc = "Minting" => mint'[x].holder # h
        BY <3>1, <3>2 DEF OpenMints
      <3>4. {x \in Mints : (Live(x))' /\ bearer'[x].holder = mint'[n].holder} = mine
        BY <1>5, <1>8, <2>1 DEF mine
      <3> QED
        BY <1>3, <1>5, <2>1, <3>3, <3>4
    <2>2. CASE n # m
      <3>1. n \notin OpenMints(h) /\ mint'[n] = mint[n]
        BY <1>6, <1>7, <1>9, <2>2
      <3>2. mint[n].holder # h
        BY <1>9, <3>1 DEF OpenMints
      <3>3. OpenMints(mint[n].holder) \subseteq {n} /\ Cardinality(LivesOf(mint[n].holder) \ mint[n].ends) < Ceiling
        BY <1>9, <3>1 DEF AloneInv
      <3>4. ASSUME NEW x \in Mints, mint'[x].pc = "Minting", mint'[x].holder = mint'[n].holder
            PROVE  x = n
        <4>1. x # m
          BY <1>5, <3>1, <3>2, <3>4
        <4>2. mint'[x].pc = mint[x].pc /\ mint'[x].holder = mint[x].holder
          BY <1>6, <1>7, <4>1
        <4> QED
          BY <3>1, <3>3, <3>4, <4>2 DEF OpenMints
      <3>5. {x \in Mints : (Live(x))' /\ bearer'[x].holder = mint'[n].holder} = LivesOf(mint[n].holder)
        BY <1>8, <3>1 DEF LivesOf
      <3> QED
        BY <3>1, <3>3, <3>4, <3>5
    <2> QED
      BY <2>1, <2>2
  <1>10. AloneInv'
    BY <1>9 DEF AloneInv, OpenMints, LivesOf
  <1>11. CeilingHolds
    <2>1. ASSUME NEW n \in Mints, mint[n].pc = "Minting" PROVE mint'[n].pc = "Minting"
      BY <1>1, <1>6, <1>7, <2>1
    <2> QED
      BY <2>1 DEF CeilingHolds
  <1> QED
    BY <1>10, <1>11

LEMMA VerifyKeepsAlone ==
  ASSUME CliTypes, AloneInv, NEW m \in Mints, cli_verify(m)
  PROVE  AloneInv' /\ CeilingHolds
  <1> DEFINE ends == mint[m].ends
             h == mint[m].holder
             fresh == [state |-> "Live", holder |-> h, issued |-> day, expires |-> day + Lifetime, seen |-> day]
  <1>1. /\ mint[m].pc = "Minting" /\ bearer' = [Revoked(ends) EXCEPT ![m] = fresh]
        /\ mint' = [mint EXCEPT ![m].pc = "Done"] /\ UNCHANGED <<day, keyOwner, designated, linking, replacing>>
    BY DEF cli_verify
  <1>2. ends \in SUBSET Mints /\ mint[m] \in Minters
    BY DEF CliTypes, Minters
  <1>3. /\ Revoked(ends) \in [Mints -> Bearers]
        /\ \A n \in Mints : /\ Revoked(ends)[n].expires = bearer[n].expires
                            /\ Revoked(ends)[n].holder = bearer[n].holder
                            /\ Revoked(ends)[n].state = "Live" => bearer[n].state = "Live" /\ n \notin ends
    <2>1. \A n \in ends : Revoked(ends)[n].state # "Live"
      BY <1>2 DEF CliTypes, Bearers, Revoked
    <2> QED
      BY <1>2, <2>1, RevokedAre
  <1>4. bearer'[m].holder = h /\ \A n \in Mints : n # m => bearer'[n] = Revoked(ends)[n]
    BY <1>1, <1>3
  <1>5. ASSUME NEW n \in Mints, n # m, (Live(n))'
        PROVE  Live(n) /\ bearer'[n].holder = bearer[n].holder /\ n \notin ends
    BY <1>1, <1>3, <1>4, <1>5 DEF Live
  <1>6. mint'[m].pc = "Done" /\ \A n \in Mints : n # m => mint'[n] = mint[n]
    BY <1>1, <1>2 DEF CliTypes, Minters
  <1> HIDE DEF ends, h, fresh
  <1>7. ASSUME NEW n \in Mints, mint'[n].pc = "Minting", mint'[n].alone
        PROVE  /\ {x \in Mints : mint'[x].pc = "Minting" /\ mint'[x].holder = mint'[n].holder} \subseteq {n}
               /\ Cardinality({x \in Mints : (Live(x))' /\ bearer'[x].holder = mint'[n].holder} \ mint'[n].ends) < Ceiling
    <2>1. n # m /\ mint'[n] = mint[n]
      BY <1>6, <1>7
    <2>2. OpenMints(mint[n].holder) \subseteq {n} /\ Cardinality(LivesOf(mint[n].holder) \ mint[n].ends) < Ceiling
      BY <1>7, <2>1 DEF AloneInv
    <2>3. h # mint[n].holder
      BY <1>1, <2>1, <2>2 DEF OpenMints, h
    <2>4. {x \in Mints : mint'[x].pc = "Minting" /\ mint'[x].holder = mint'[n].holder} \subseteq {n}
      BY <1>6, <2>1, <2>2 DEF OpenMints
    <2> DEFINE now1 == {x \in Mints : (Live(x))' /\ bearer'[x].holder = mint'[n].holder} \ mint'[n].ends
               was == LivesOf(mint[n].holder) \ mint[n].ends
    <2>5. now1 \subseteq was /\ was \in SUBSET Mints
      BY <1>4, <1>5, <2>1, <2>3 DEF LivesOf
    <2> HIDE DEF now1, was
    <2>6. Cardinality(was) \in Nat /\ Cardinality(now1) \in Nat /\ Cardinality(now1) <= Cardinality(was)
      BY <2>5, FewerTokens
    <2>7. Cardinality(was) < Ceiling /\ Ceiling \in Nat
      BY <2>2, CliConstants DEF was
    <2>8. Cardinality(now1) < Ceiling
      BY <2>6, <2>7
    <2> QED
      BY <2>4, <2>8 DEF now1
  <1>8. AloneInv'
    BY <1>7 DEF AloneInv, OpenMints, LivesOf
  <1>9. ASSUME mint[m].alone
        PROVE  Cardinality({n \in Mints : (Live(n))' /\ bearer'[n].holder = mint[m].holder}) <= Ceiling
    <2> DEFINE now1 == {n \in Mints : (Live(n))' /\ bearer'[n].holder = mint[m].holder}
               was == LivesOf(mint[m].holder) \ mint[m].ends
    <2>1. now1 \subseteq was \cup {m} /\ was \in SUBSET Mints
      BY <1>5 DEF LivesOf, ends
    <2>2. Cardinality(was) < Ceiling /\ Ceiling \in Nat
      BY <1>1, <1>9, CliConstants DEF AloneInv, was
    <2> HIDE DEF now1, was
    <2>3. IsFiniteSet(was) /\ Cardinality(was) \in Nat
      BY <2>1, FewerTokens
    <2>4. Cardinality(was \cup {m}) <= Cardinality(was) + 1 /\ Cardinality(was \cup {m}) \in Nat
      <3>1. Cardinality(was \cup {m}) = (IF m \in was THEN Cardinality(was) ELSE Cardinality(was) + 1)
        BY <2>3, FS_AddElement, Zenon
      <3>2. PICK k : k = Cardinality(was)
        OBVIOUS
      <3> QED
        BY <2>3, <3>1, <3>2
    <2>5. Cardinality(now1) <= Cardinality(was \cup {m}) /\ Cardinality(now1) \in Nat
      BY <2>1, FewerTokens
    <2>6. Cardinality(now1) <= Ceiling
      BY <2>2, <2>3, <2>4, <2>5
    <2> QED
      BY <2>6 DEF now1
  <1>10. CeilingHolds
    <2>1. ASSUME NEW n \in Mints, mint[n].pc = "Minting", mint'[n].pc = "Done", mint[n].alone
          PROVE  Cardinality({x \in Mints : (Live(x))' /\ bearer'[x].holder = mint[n].holder}) <= Ceiling
      <3>1. n = m
        BY <1>6, <2>1
      <3> QED
        BY <1>9, <2>1, <3>1
    <2> QED
      BY <2>1 DEF CeilingHolds
  <1> QED
    BY <1>8, <1>10

LEMMA CeilingStep ==
  ASSUME CliTypes, AloneInv, [CliNext]_cliVars
  PROVE  AloneInv' /\ CeilingHolds
  <1>0. day \in Nat /\ \A n \in Mints : bearer[n] \in Bearers /\ mint[n] \in Minters
    BY DEF CliTypes
  <1>1. ASSUME mint' = mint, \A n \in Mints : (Live(n))' => Live(n) /\ bearer'[n].holder = bearer[n].holder
        PROVE  AloneInv' /\ CeilingHolds
    BY <1>1, AloneKeeps
  <1>2. ASSUME UNCHANGED <<day, bearer, mint>> PROVE AloneInv' /\ CeilingHolds
    BY <1>1, <1>2 DEF Live
  <1>3. ASSUME NEW S \in SUBSET Mints, bearer' = Revoked(S) \/ bearer' = bearer, UNCHANGED <<day, mint>>
        PROVE  AloneInv' /\ CeilingHolds
    <2>1. ASSUME NEW n \in Mints, (Live(n))' PROVE Live(n) /\ bearer'[n].holder = bearer[n].holder
      <3>1. CASE bearer' = bearer
        BY <1>3, <2>1, <3>1 DEF Live
      <3>2. CASE bearer' = Revoked(S)
        BY <1>3, <2>1, <3>2, RevokedAre DEF Live
      <3> QED
        BY <1>3, <3>1, <3>2
    <2> QED
      BY <1>1, <1>3, <2>1
  <1>4. ASSUME Tomorrow PROVE AloneInv' /\ CeilingHolds
    <2>1. UNCHANGED <<bearer, mint>> /\ day' = day + 1
      BY <1>4 DEF Tomorrow
    <2>2. \A n \in Mints : bearer[n].expires \in Nat
      BY <1>0 DEF Bearers
    <2>3. \A n \in Mints : (Live(n))' => Live(n) /\ bearer'[n].holder = bearer[n].holder
      BY <1>0, <2>1, <2>2 DEF Live
    <2> QED
      BY <1>1, <2>1, <2>3
  <1>5. ASSUME NEW q \in LinkRequests, coldkey_challenge(q) \/ link_badly_signed(q) \/ link_coldkey(q)
        PROVE  AloneInv' /\ CeilingHolds
    BY <1>2, <1>5 DEF coldkey_challenge, link_badly_signed, link_coldkey
  <1>6. ASSUME NEW h \in Holders, NEW k, BeginReplacing(h, k) PROVE AloneInv' /\ CeilingHolds
    BY <1>2, <1>6 DEF BeginReplacing
  <1>7. ASSUME NEW h \in Holders, put_submission_coldkey(h) PROVE AloneInv' /\ CeilingHolds
    <2> DEFINE S == revoke_sessions_for_coldkey(replacing[h].previous)
    <2>1. UNCHANGED <<day, mint>> /\ (bearer' = Revoked(S) \/ bearer' = bearer)
      BY <1>7 DEF put_submission_coldkey
    <2>2. S \in SUBSET Mints
      BY DEF revoke_sessions_for_coldkey
    <2> HIDE DEF S
    <2> QED
      BY <1>3, <2>1, <2>2
  <1>8. ASSUME NEW m \in Mints, cli_challenge(m) \/ cli_badly_signed(m) PROVE AloneInv' /\ CeilingHolds
    <2>1. UNCHANGED <<day, bearer>> /\ mint[m].pc \in {"New", "Open"}
      BY <1>8 DEF cli_challenge, cli_badly_signed, open_challenge_by_nonce
    <2>2. mint'[m].pc = "Open" /\ \A n \in Mints : n # m => mint'[n] = mint[n]
      <3>1. CASE cli_challenge(m)
        BY <1>0, <3>1 DEF cli_challenge, CliTypes, Minters
      <3>2. CASE cli_badly_signed(m)
        BY <1>0, <3>2 DEF cli_badly_signed, open_challenge_by_nonce, CliTypes, Minters
      <3> QED
        BY <1>8, <3>1, <3>2
    <2>3. /\ \A n \in Mints : mint'[n].pc = "Minting" => mint[n].pc = "Minting" /\ mint'[n] = mint[n]
          /\ \A n \in Mints : mint[n].pc = "Minting" => mint'[n].pc = "Minting"
      BY <2>1, <2>2
    <2>4. \A n \in Mints : (Live(n))' => Live(n) /\ bearer'[n].holder = bearer[n].holder
      BY <2>1 DEF Live
    <2> QED
      BY <2>3, <2>4, AloneKeeps
  <1>9. ASSUME NEW m \in Mints, get_optional_principal(m) PROVE AloneInv' /\ CeilingHolds
    <2>1. /\ Live(m) /\ UNCHANGED <<day, mint>>
          /\ bearer' = [bearer EXCEPT ![m].seen = day, ![m].expires = refreshed(m)]
      BY <1>9 DEF get_optional_principal
    <2>2. \A n \in Mints : bearer'[n].holder = bearer[n].holder /\ (n # m => bearer'[n] = bearer[n])
      BY <1>0, <2>1 DEF CliTypes, Bearers
    <2>3. \A n \in Mints : (Live(n))' => Live(n) /\ bearer'[n].holder = bearer[n].holder
      BY <2>1, <2>2 DEF Live
    <2> QED
      BY <1>1, <2>1, <2>3
  <1>10. ASSUME NEW m \in Mints, revoke_session(m) PROVE AloneInv' /\ CeilingHolds
    <2>1. {m} \in SUBSET Mints /\ UNCHANGED <<day, mint>> /\ bearer' = Revoked({m})
      BY <1>10 DEF revoke_session
    <2> QED
      BY <1>3, <2>1
  <1>11. ASSUME NEW h \in Holders, NEW left, RevokeAll(h, left) PROVE AloneInv' /\ CeilingHolds
    <2> DEFINE S == {m \in Mints \ left : bearer[m].state = "Live" /\ bearer[m].holder = h}
    <2>1. S \in SUBSET Mints /\ UNCHANGED <<day, mint>> /\ bearer' = Revoked(S)
      BY <1>11 DEF RevokeAll
    <2> HIDE DEF S
    <2> QED
      BY <1>3, <2>1
  <1>12. ASSUME NEW m \in Mints, BeginMinting(m) \/ cli_verify(m) PROVE AloneInv' /\ CeilingHolds
    BY <1>12, BeginKeepsAlone, VerifyKeepsAlone
  <1>13. ASSUME UNCHANGED cliVars PROVE AloneInv' /\ CeilingHolds
    BY <1>2, <1>13 DEF cliVars
  <1> QED
    BY <1>4, <1>5, <1>6, <1>7, <1>8, <1>9, <1>10, <1>11, <1>12, <1>13 DEF CliNext

----------------------------------------------------------------------------
(* Bounties.                                                               *)

\* A number does not change the order of two products it is a factor of.
LEMMA ProductGrows ==
  ASSUME NEW a \in Nat, NEW b \in Nat, NEW k \in Nat, a <= b
  PROVE  a * k <= b * k
  <1>1. PICK d \in Nat : b = a + d
    <2>1. b - a \in Nat /\ b = a + (b - a)
      OBVIOUS
    <2> QED
      BY <2>1
  <1>2. b * k = a * k + d * k
    BY <1>1
  <1>3. d * k \in Nat /\ a * k \in Nat
    OBVIOUS
  <1> QED
    BY <1>2, <1>3

LEMMA ProductCancels ==
  ASSUME NEW a \in Nat, NEW b \in Nat, NEW k \in Nat \ {0}
  PROVE  /\ a * k <= b * k => a <= b
         /\ a * k < b * k => a < b
  <1>1. b < a => b * k < a * k
    <2> SUFFICES ASSUME b < a PROVE b * k < a * k
      OBVIOUS
    <2>1. (b + 1) * k <= a * k
      BY ProductGrows
    <2>2. (b + 1) * k = b * k + k /\ b * k \in Nat
      OBVIOUS
    <2> QED
      BY <2>1, <2>2
  <1>2. b <= a => b * k <= a * k
    BY ProductGrows
  <1>3. a * k \in Nat /\ b * k \in Nat
    OBVIOUS
  <1> QED
    BY <1>1, <1>2, <1>3

LEMMA QuotientFits ==
  ASSUME NEW n \in Nat, NEW d \in Nat \ {0}
  PROVE  /\ n \div d \in Nat
         /\ (n \div d) * d <= n
         /\ n < (n \div d + 1) * d
  OBVIOUS

LEMMA QuotientGrows ==
  ASSUME NEW m \in Nat, NEW n \in Nat, NEW d \in Nat \ {0}, m <= n
  PROVE  m \div d <= n \div d
  <1>1. PICK p \in Nat, q \in Nat : p = m \div d /\ q = n \div d
    BY QuotientFits
  <1>2. p * d <= m /\ n < (q + 1) * d
    BY <1>1, QuotientFits
  <1>3. p * d \in Nat /\ (q + 1) * d \in Nat
    OBVIOUS
  <1>4. p * d < (q + 1) * d
    BY <1>2, <1>3
  <1>5. p < q + 1
    BY <1>4, ProductCancels
  <1> QED
    BY <1>1, <1>5

\* The weight of an age lies between the two shares, and grows.
Weight(start, maximum, ramp, e) == start * ramp + (maximum - start) * e

LEMMA WeightIsBounded ==
  ASSUME NEW start \in Nat, NEW maximum \in Nat, start <= maximum, NEW ramp \in Nat, NEW e \in 0 .. ramp,
         NEW f \in 0 .. ramp, e <= f
  PROVE  /\ Weight(start, maximum, ramp, e) \in Nat
         /\ start * ramp <= Weight(start, maximum, ramp, e)
         /\ Weight(start, maximum, ramp, e) <= maximum * ramp
         /\ Weight(start, maximum, ramp, e) <= Weight(start, maximum, ramp, f)
  <1>1. PICK d \in Nat : d = maximum - start /\ maximum = start + d
    <2>1. maximum - start \in Nat /\ maximum = start + (maximum - start)
      OBVIOUS
    <2> QED
      BY <2>1
  <1>2. d * e \in Nat /\ d * f \in Nat /\ d * ramp \in Nat /\ start * ramp \in Nat
    OBVIOUS
  <1>3. e * d <= ramp * d /\ e * d <= f * d
    BY ProductGrows
  <1>4. d * e <= d * ramp /\ d * e <= d * f
    BY <1>3
  <1>5. maximum * ramp = start * ramp + d * ramp
    BY <1>1
  <1>6. /\ Weight(start, maximum, ramp, e) = start * ramp + d * e
        /\ Weight(start, maximum, ramp, f) = start * ramp + d * f
    BY <1>1 DEF Weight
  <1> QED
    BY <1>2, <1>4, <1>5, <1>6

LEMMA ShareIsBounded ==
  ASSUME NEW left \in Nat, NEW ramp \in Nat \ {0}, NEW s1 \in Nat, NEW s2 \in Nat \ {0},
         NEW m1 \in Nat, NEW m2 \in Nat \ {0}, NEW w \in Nat,
         (s1 * m2) * ramp <= w, w <= (m1 * s2) * ramp,
         NEW q \in Nat, q * (s2 * m2 * ramp) <= left * w, left * w < (q + 1) * (s2 * m2 * ramp)
  PROVE  q * m2 <= left * m1 /\ (q + 1) * s2 > left * s1
  <1>1. PICK k \in Nat \ {0} : k = s2 * ramp
    <2>1. s2 * ramp \in Nat \ {0}
      OBVIOUS
    <2> QED
      BY <2>1
  <1>2. PICK j \in Nat \ {0} : j = m2 * ramp
    <2>1. m2 * ramp \in Nat \ {0}
      OBVIOUS
    <2> QED
      BY <2>1
  <1>3. left * w <= left * ((m1 * s2) * ramp) /\ left * ((s1 * m2) * ramp) <= left * w
    <2>1. w * left <= ((m1 * s2) * ramp) * left /\ ((s1 * m2) * ramp) * left <= w * left
      <3>1. (m1 * s2) * ramp \in Nat /\ (s1 * m2) * ramp \in Nat
        OBVIOUS
      <3> QED
        BY <3>1, ProductGrows
    <2> QED
      BY <2>1
  <1>4. left * ((m1 * s2) * ramp) = (left * m1) * k /\ left * ((s1 * m2) * ramp) = (left * s1) * j
    BY <1>1, <1>2
  <1>5. q * (s2 * m2 * ramp) = (q * m2) * k /\ (q + 1) * (s2 * m2 * ramp) = ((q + 1) * s2) * j
    BY <1>1, <1>2
  <1>6. left * w \in Nat /\ q * m2 \in Nat /\ left * m1 \in Nat /\ (q + 1) * s2 \in Nat /\ left * s1 \in Nat
    OBVIOUS
  <1>7. (q * m2) * k <= (left * m1) * k
    <2>1. (q * m2) * k \in Nat /\ (left * m1) * k \in Nat
      BY <1>6
    <2> QED
      BY <2>1, <1>3, <1>4, <1>5, <1>6
  <1>8. (left * s1) * j < ((q + 1) * s2) * j
    <2>1. (left * s1) * j \in Nat /\ ((q + 1) * s2) * j \in Nat
      BY <1>6
    <2> QED
      BY <2>1, <1>3, <1>4, <1>5, <1>6
  <1>9. q * m2 <= left * m1
    BY <1>6, <1>7, ProductCancels
  <1>10. left * s1 < (q + 1) * s2
    BY <1>6, <1>8, ProductCancels
  <1> QED
    BY <1>6, <1>9, <1>10

LEMMA BountyNumbers ==
  /\ IsFiniteSet(RewardTargets) /\ IsFiniteSet(Proofs) /\ ForTarget \in [Proofs -> RewardTargets]
  /\ BonusAmount \in Nat /\ StartBalance \in Nat /\ RampTicks \in Nat \ {0} /\ CacheTicks \in Nat \ {0}
  /\ MinuteTicks \in Nat \ {0}
  /\ StartShare[1] \in Nat \ {0} /\ StartShare[2] \in Nat \ {0} /\ MaxShare[1] \in Nat \ {0} /\ MaxShare[2] \in Nat \ {0}
  /\ StartShare[1] * MaxShare[2] <= MaxShare[1] * StartShare[2]
  BY BountyConstants

\* What a bounty of an age is, for any balance (calculate_bounty_rao).
LEMMA BountyIsBounded ==
  ASSUME NEW left \in Nat, NEW age \in Nat
  PROVE  /\ calculate_bounty_rao(left, age) \in Nat
         /\ calculate_bounty_rao(left, age) * MaxShare[2] <= left * MaxShare[1]
         /\ (calculate_bounty_rao(left, age) + 1) * StartShare[2] > left * StartShare[1]
         /\ calculate_bounty_rao(left, age) <= calculate_bounty_rao(left, age + 1)
  <1>1. PICK s1 \in Nat \ {0}, s2 \in Nat \ {0}, m1 \in Nat \ {0}, m2 \in Nat \ {0}, ramp \in Nat \ {0} :
          /\ s1 = StartShare[1] /\ s2 = StartShare[2] /\ m1 = MaxShare[1] /\ m2 = MaxShare[2] /\ ramp = RampTicks
          /\ s1 * m2 <= m1 * s2
    BY BountyNumbers
  <1>2. PICK start \in Nat, maximum \in Nat : start = s1 * m2 /\ maximum = m1 * s2
    <2>1. s1 * m2 \in Nat /\ m1 * s2 \in Nat
      OBVIOUS
    <2> QED
      BY <2>1
  <1>3. PICK e \in 0 .. ramp : e = IF age < ramp THEN age ELSE ramp
    <2>1. (IF age < ramp THEN age ELSE ramp) \in 0 .. ramp
      OBVIOUS
    <2> QED
      BY <2>1
  <1>4. PICK f \in 0 .. ramp : f = IF age + 1 < ramp THEN age + 1 ELSE ramp
    <2>1. (IF age + 1 < ramp THEN age + 1 ELSE ramp) \in 0 .. ramp
      OBVIOUS
    <2> QED
      BY <2>1
  <1>5. e <= f
    BY <1>3, <1>4
  <1>6. PICK w, v : w = Weight(start, maximum, ramp, e) /\ v = Weight(start, maximum, ramp, f)
    OBVIOUS
  <1>7. w \in Nat /\ v \in Nat /\ w <= v /\ start * ramp <= w /\ w <= maximum * ramp
    <2>1. start <= maximum
      BY <1>1, <1>2
    <2>2. f <= f
      OBVIOUS
    <2> QED
      BY <1>5, <1>6, <2>1, <2>2, WeightIsBounded
  <1>8. PICK d \in Nat \ {0} : d = s2 * m2 * ramp
    <2>1. s2 * m2 * ramp \in Nat \ {0}
      <3>1. s2 * m2 \in Nat \ {0}
        OBVIOUS
      <3> QED
        BY <3>1
    <2> QED
      BY <2>1
  <1>9. calculate_bounty_rao(left, age) = (left * w) \div d
    BY <1>1, <1>2, <1>3, <1>6, <1>8 DEF calculate_bounty_rao, Weight
  <1>10. calculate_bounty_rao(left, age + 1) = (left * v) \div d
    BY <1>1, <1>2, <1>4, <1>6, <1>8 DEF calculate_bounty_rao, Weight
  <1>11. left * w \in Nat /\ left * v \in Nat /\ left * w <= left * v
    <2>1. w * left <= v * left
      BY <1>7, ProductGrows
    <2> QED
      BY <1>7, <2>1
  <1>12. PICK q : q = (left * w) \div d
    OBVIOUS
  <1>13. q \in Nat /\ q * d <= left * w /\ left * w < (q + 1) * d
    BY <1>11, <1>12, QuotientFits
  <1>14. q * m2 <= left * m1 /\ (q + 1) * s2 > left * s1
    BY <1>2, <1>7, <1>8, <1>13, ShareIsBounded
  <1>15. q <= (left * v) \div d
    BY <1>11, <1>12, QuotientGrows
  <1> QED
    BY <1>1, <1>9, <1>10, <1>12, <1>13, <1>14, <1>15

\* A finite set of numbers has a greatest.
LEMMA GreatestNumber ==
  ASSUME NEW S, IsFiniteSet(S), S \subseteq Nat
  PROVE  Largest(S) \in Nat
  <1> DEFINE good == {s \in SUBSET S : s # {} => \E x \in s : \A y \in s : x >= y}
  <1>1. {} \in good
    OBVIOUS
  <1>2. ASSUME NEW s \in SUBSET S, NEW x \in s, s \ {x} \in good PROVE s \in good
    <2>1. CASE s \ {x} = {}
      <3>1. \A y \in s : x >= y
        BY <2>1
      <3> QED
        BY <3>1
    <2>2. CASE s \ {x} # {}
      <3>1. PICK m \in s \ {x} : \A y \in s \ {x} : m >= y
        BY <1>2, <2>2
      <3>2. \E z \in s : \A y \in s : z >= y
        <4>1. CASE x <= m
          <5>1. \A y \in s : m >= y
            BY <3>1, <4>1
          <5> QED
            BY <5>1
        <4>2. CASE m <= x
          <5>1. \A y \in s : x >= y
            BY <3>1, <4>2
          <5> QED
            BY <5>1
        <4> QED
          BY <4>1, <4>2
      <3> QED
        BY <3>2
    <2> QED
      BY <2>1, <2>2
  <1>3. S \in good
    <2> HIDE DEF good
    <2> QED
      BY <1>1, <1>2, SubsetInduction
  <1>4. CASE S = {}
    BY <1>4 DEF Largest
  <1>5. CASE S # {}
    <2>1. \E x \in S : \A y \in S : x >= y
      BY <1>3, <1>5
    <2>2. Max(S) \in S
      BY <2>1 DEF Max
    <2> QED
      BY <1>5, <2>2 DEF Largest
  <1> QED
    BY <1>4, <1>5

ObligationRecords == [st : {"none", "pending", "confirmed", "approved", "undocumented", "rejected", "cancelled"}, amount : Nat,
                      paid : {"no", "sent", "final", "confirmed"}, sent_at : Nat, confirmed_at : Nat]
BountyTypes ==
    /\ now \in Nat /\ treasury \in Int /\ balanceCache \in [amount : Int, expires : Nat]
    /\ opened \in [RewardTargets -> Nat] /\ obligations \in [Obligations -> ObligationRecords]
    /\ DOMAIN quoting = Obligations
    /\ \A o \in Obligations :
           /\ quoting[o].at \in {"idle", "balance", "quote", "insert"}
           /\ quoting[o].at # "idle" => quoting[o].as_of \in Nat
           /\ quoting[o].at = "quote" => quoting[o].gross \in Int
           /\ quoting[o].at = "insert" => quoting[o].amount \in Nat

LEMMA BountyStart == BountyInit => BountyTypes
  BY BountyNumbers DEF BountyInit, BountyTypes, ObligationRecords, NoObligation, NotQuoting

\* Whatever is promised is a number, and so is what is left to promise.
LEMMA CommittedIsANumber ==
  ASSUME BountyTypes, NEW asOf
  PROVE  committed(asOf) \in Nat
  <1> DEFINE live(t) == {p \in Proofs : ForTarget[p] = t /\ Reserves(p, asOf)}
             amounts(t) == {obligations[s].amount : s \in live(t)}
             each == [t \in RewardTargets |-> Largest(amounts(t))]
  <1>1. \A o \in Obligations : obligations[o].amount \in Nat
    BY DEF BountyTypes, ObligationRecords
  <1>2. ASSUME NEW t \in RewardTargets PROVE Largest(amounts(t)) \in Nat
    <2>1. IsFiniteSet(live(t))
      BY BountyNumbers, FS_Subset
    <2>2. IsFiniteSet(amounts(t))
      <3> DEFINE f == [s \in live(t) |-> obligations[s].amount]
      <3>1. f \in Surjection(live(t), amounts(t))
        BY DEF Surjection
      <3> QED
        BY <2>1, <3>1, FS_Surjection
    <2>3. amounts(t) \subseteq Nat
      BY <1>1 DEF Obligations
    <2> QED
      BY <2>2, <2>3, GreatestNumber
  <1>3. Numbers(each, RewardTargets)
    BY <1>2 DEF Numbers
  <1>4. SumFunctionOnSet(each, RewardTargets) \in Nat
    <2> HIDE DEF each
    <2> QED
      BY <1>3, BountyNumbers, SumIsANumber
  <1>5. obligations[Bonus].amount \in Nat
    BY <1>1 DEF Obligations
  <1>6. committed(asOf) = SumFunctionOnSet(each, RewardTargets)
                            + (IF Reserves(Bonus, asOf) THEN obligations[Bonus].amount ELSE 0)
    BY DEF committed
  <1> QED
    BY <1>4, <1>5, <1>6

LEMMA LeftIsANumber ==
  ASSUME BountyTypes, NEW o \in Obligations, quoting[o].at = "quote"
  PROVE  Left(o) \in Nat
  <1>1. quoting[o].gross \in Int /\ committed(quoting[o].as_of) \in Nat
    BY CommittedIsANumber DEF BountyTypes
  <1> QED
    BY <1>1 DEF Left, Available

LEMMA MinuteIsANumber ==
  ASSUME NEW t \in Nat
  PROVE  Minute(t) \in Nat
  <1>1. MinuteTicks \in Nat \ {0}
    BY BountyNumbers
  <1>2. t % MinuteTicks \in Nat /\ t % MinuteTicks <= t
    BY <1>1
  <1> QED
    BY <1>2 DEF Minute

LEMMA SharesFollow == BountyTypes => SharesStayInBounds
  <1> SUFFICES ASSUME BountyTypes, NEW o \in Obligations, quoting[o].at = "quote", NEW age \in 0 .. RampTicks + 1
               PROVE  /\ calculate_bounty_rao(Left(o), age) * MaxShare[2] <= Left(o) * MaxShare[1]
                      /\ (calculate_bounty_rao(Left(o), age) + 1) * StartShare[2] > Left(o) * StartShare[1]
                      /\ calculate_bounty_rao(Left(o), age) <= calculate_bounty_rao(Left(o), age + 1)
    BY DEF SharesStayInBounds
  <1>1. Left(o) \in Nat /\ age \in Nat
    BY LeftIsANumber
  <1> QED
    BY <1>1, BountyIsBounded

LEMMA QuotedIsANumber ==
  ASSUME BountyTypes, NEW o \in Obligations, quoting[o].at = "quote"
  PROVE  Quoted(o) \in Nat
  <1>1. Left(o) \in Nat
    BY LeftIsANumber
  <1>2. CASE o = Bonus
    BY <1>2, BountyNumbers DEF Quoted
  <1>3. CASE o # Bonus
    <2>1. ForTarget[o] \in RewardTargets
      BY <1>3, BountyNumbers DEF Obligations
    <2>2. quoting[o].as_of \in Nat /\ opened[ForTarget[o]] \in Nat
      BY <2>1 DEF BountyTypes
    <2>3. Opened(quoting[o].as_of)[ForTarget[o]] \in Nat
      BY <2>1, <2>2 DEF Opened
    <2>4. Age(o) \in Nat
      BY <2>2, <2>3 DEF Age
    <2>5. calculate_bounty_rao(Left(o), Age(o)) \in Nat
      BY <1>1, <2>4, BountyIsBounded
    <2> QED
      BY <1>3, <2>5 DEF Quoted
  <1> QED
    BY <1>2, <1>3

\* One quote moves on, the others stand.
LEMMA QuotesMove ==
  ASSUME BountyTypes, NEW o \in Obligations, NEW r, quoting' = [quoting EXCEPT ![o] = r],
         r.at \in {"idle", "balance", "quote", "insert"}, r.at # "idle" => r.as_of \in Nat,
         r.at = "quote" => r.gross \in Int, r.at = "insert" => r.amount \in Nat,
         now' \in Nat, treasury' \in Int, balanceCache' \in [amount : Int, expires : Nat],
         opened' \in [RewardTargets -> Nat], obligations' \in [Obligations -> ObligationRecords]
  PROVE  BountyTypes'
  <1>1. DOMAIN quoting' = Obligations /\ quoting'[o] = r /\ \A p \in Obligations : p # o => quoting'[p] = quoting[p]
    BY DEF BountyTypes
  <1>2. ASSUME NEW p \in Obligations
        PROVE  /\ quoting'[p].at \in {"idle", "balance", "quote", "insert"}
               /\ quoting'[p].at # "idle" => quoting'[p].as_of \in Nat
               /\ quoting'[p].at = "quote" => quoting'[p].gross \in Int
               /\ quoting'[p].at = "insert" => quoting'[p].amount \in Nat
    <2>1. CASE p = o
      BY <2>1, <1>1
    <2>2. CASE p # o
      BY <2>2, <1>1 DEF BountyTypes
    <2> QED
      BY <2>1, <2>2
  <1> QED
    BY <1>1, <1>2 DEF BountyTypes

LEMMA TargetsOpen ==
  ASSUME BountyTypes, NEW t \in Nat, opened' = Opened(t)
  PROVE  opened' \in [RewardTargets -> Nat] /\ AgeNeverResets
  BY DEF BountyTypes, Opened, AgeNeverResets

\* An obligation becomes another, all else stands.
LEMMA ObligationsMove ==
  ASSUME BountyTypes, obligations' \in [Obligations -> ObligationRecords], UNCHANGED <<opened, quoting, balanceCache>>,
         now' \in Nat, treasury' \in Int
  PROVE  BountyTypes' /\ AgeNeverResets
  BY DEF BountyTypes, AgeNeverResets

LEMMA BountyStep ==
  ASSUME BountyTypes, [BountyNext]_bountyVars
  PROVE  BountyTypes' /\ AgeNeverResets
  <1>1. /\ now \in Nat /\ treasury \in Int /\ balanceCache \in [amount : Int, expires : Nat]
        /\ opened \in [RewardTargets -> Nat] /\ obligations \in [Obligations -> ObligationRecords]
        /\ Bonus \in Obligations /\ \A s \in Proofs : s \in Obligations
    BY DEF BountyTypes, Obligations
  <1>2. ASSUME opened' = opened PROVE AgeNeverResets
    BY <1>2 DEF AgeNeverResets
  <1>3. ASSUME NEW o \in Obligations, lock_quote(o) PROVE BountyTypes' /\ AgeNeverResets
    <2>1. Minute(now) \in Nat
      BY <1>1, MinuteIsANumber
    <2> DEFINE r == [at |-> "balance", as_of |-> Minute(now)]
    <2>2. quoting' = [quoting EXCEPT ![o] = r] /\ UNCHANGED <<now, topUps, treasury, balanceCache, opened, obligations>>
      BY <1>3 DEF lock_quote
    <2>3. r.at = "balance" /\ r.as_of \in Nat
      BY <2>1
    <2> HIDE DEF r
    <2> QED
      BY <1>1, <1>2, <2>2, <2>3, QuotesMove
  <1>4. ASSUME NEW o \in Obligations, treasury_balance_rao(o) PROVE BountyTypes' /\ AgeNeverResets
    <2> DEFINE r == [at |-> "quote", as_of |-> quoting[o].as_of, gross |-> balanceCache'.amount]
    <2>1. quoting' = [quoting EXCEPT ![o] = r] /\ UNCHANGED <<now, topUps, treasury, opened, obligations>>
      BY <1>4 DEF treasury_balance_rao
    <2>2. balanceCache' \in [amount : Int, expires : Nat]
      <3>1. now + CacheTicks \in Nat
        BY <1>1, BountyNumbers
      <3> QED
        BY <1>1, <1>4, <3>1 DEF treasury_balance_rao
    <2>3. r.at = "quote" /\ r.as_of \in Nat /\ r.gross \in Int
      BY <1>4, <2>2 DEF BountyTypes, treasury_balance_rao
    <2> HIDE DEF r
    <2> QED
      BY <1>1, <1>2, <2>1, <2>2, <2>3, QuotesMove
  <1>5. ASSUME NEW o \in Obligations, quote_many(o) PROVE BountyTypes' /\ AgeNeverResets
    <2>1. quoting[o].at = "quote" /\ UNCHANGED <<now, topUps, treasury, balanceCache, opened, obligations>>
      BY <1>5 DEF quote_many
    <2>2. CASE Quoted(o) = 0
      <3>1. quoting' = [quoting EXCEPT ![o] = NotQuoting] /\ NotQuoting.at = "idle"
        BY <1>5, <2>2 DEF quote_many, EndQuote, NotQuoting
      <3> QED
        BY <1>1, <1>2, <2>1, <3>1, QuotesMove
    <2>3. CASE Quoted(o) # 0
      <3> DEFINE r == [at |-> "insert", as_of |-> quoting[o].as_of, amount |-> Quoted(o)]
      <3>1. quoting' = [quoting EXCEPT ![o] = r]
        BY <1>5, <2>3 DEF quote_many
      <3>2. r.at = "insert" /\ r.as_of \in Nat /\ r.amount \in Nat
        BY <2>1, QuotedIsANumber DEF BountyTypes
      <3> HIDE DEF r
      <3> QED
        BY <1>1, <1>2, <2>1, <3>1, <3>2, QuotesMove
    <2> QED
      BY <2>2, <2>3
  <1>6. ASSUME NEW o \in Obligations, InsertObligation(o) PROVE BountyTypes' /\ AgeNeverResets
    <2>1. /\ quoting[o].at = "insert" /\ quoting' = [quoting EXCEPT ![o] = NotQuoting] /\ NotQuoting.at = "idle"
          /\ opened' = Opened(quoting[o].as_of) /\ UNCHANGED <<now, topUps, treasury, balanceCache>>
          /\ obligations' = [obligations EXCEPT ![o].st = IF o = Bonus THEN "approved" ELSE "pending",
                                                ![o].amount = quoting[o].amount]
      BY <1>6 DEF InsertObligation, EndQuote, NotQuoting
    <2>2. quoting[o].as_of \in Nat /\ quoting[o].amount \in Nat
      BY <2>1 DEF BountyTypes
    <2>3. PICK st \in {"approved", "pending"}, amount \in Nat :
             obligations' = [obligations EXCEPT ![o].st = st, ![o].amount = amount]
      BY <2>1, <2>2
    <2>5. obligations' = [obligations EXCEPT ![o] = [obligations[o] EXCEPT !.st = st, !.amount = amount]]
      BY <1>1, <2>3
    <2>6. [obligations[o] EXCEPT !.st = st, !.amount = amount] \in ObligationRecords
      BY <1>1 DEF ObligationRecords
    <2>7. obligations' \in [Obligations -> ObligationRecords]
      BY <1>1, <2>5, <2>6
    <2>4. opened' \in [RewardTargets -> Nat] /\ AgeNeverResets
      BY <2>1, <2>2, TargetsOpen
    <2> QED
      BY <1>1, <2>1, <2>7, <2>4, QuotesMove
  <1>7. ASSUME NEW o \in Obligations, RefuseAfterQuote(o) PROVE BountyTypes' /\ AgeNeverResets
    <2>1. /\ quoting' = [quoting EXCEPT ![o] = NotQuoting] /\ NotQuoting.at = "idle"
          /\ UNCHANGED <<now, topUps, treasury, balanceCache, opened, obligations>>
      BY <1>7 DEF RefuseAfterQuote, EndQuote, NotQuoting
    <2> QED
      BY <1>1, <1>2, <2>1, QuotesMove
  <1>8. ASSUME NEW o \in Obligations, SendPayout(o) PROVE BountyTypes' /\ AgeNeverResets
    <2>1. obligations' = [obligations EXCEPT ![o].paid = "sent", ![o].sent_at = now]
          /\ UNCHANGED <<now, treasury, balanceCache, opened, quoting>>
      BY <1>8 DEF SendPayout
    <2>2. obligations' \in [Obligations -> ObligationRecords]
      BY <1>1, <2>1, ZenonT(60) DEF ObligationRecords
    <2> QED
      BY <1>1, <2>1, <2>2, ObligationsMove
  <1>9. ASSUME NEW o \in Obligations, FinalizePayout(o) PROVE BountyTypes' /\ AgeNeverResets
    <2>1. obligations' = [obligations EXCEPT ![o].paid = "final"] /\ treasury' = treasury - obligations[o].amount
          /\ UNCHANGED <<now, balanceCache, opened, quoting>>
      BY <1>9 DEF FinalizePayout
    <2>2. obligations' \in [Obligations -> ObligationRecords] /\ treasury' \in Int
      BY <1>1, <2>1 DEF ObligationRecords
    <2> QED
      BY <1>1, <2>1, <2>2, ObligationsMove
  <1>10. ASSUME NEW o \in Obligations, _settle_quote(o) PROVE BountyTypes' /\ AgeNeverResets
    <2>1. obligations' = [obligations EXCEPT ![o].paid = "confirmed",
                                     ![o].confirmed_at = IF o = Bonus THEN now ELSE obligations[o].sent_at]
          /\ UNCHANGED <<now, treasury, balanceCache, opened, quoting>>
      BY <1>10 DEF _settle_quote
    <2>3. obligations[o] \in ObligationRecords /\ obligations[o].sent_at \in Nat
      BY <1>1 DEF ObligationRecords
    <2>4. PICK at \in Nat : at = IF o = Bonus THEN now ELSE obligations[o].sent_at
      BY <1>1, <2>3
    <2>5. obligations' = [obligations EXCEPT ![o] = [obligations[o] EXCEPT !.paid = "confirmed", !.confirmed_at = at]]
      BY <1>1, <2>1, <2>4
    <2>6. [obligations[o] EXCEPT !.paid = "confirmed", !.confirmed_at = at] \in ObligationRecords
      BY <2>3 DEF ObligationRecords
    <2>2. obligations' \in [Obligations -> ObligationRecords]
      BY <1>1, <2>5, <2>6
    <2> QED
      BY <1>1, <2>1, <2>2, ObligationsMove
  <1>11. ASSUME NEW o \in Obligations, NEW from,
                NEW to \in {"confirmed", "approved", "undocumented", "rejected", "cancelled"}, Becomes(o, from, to)
         PROVE  BountyTypes' /\ AgeNeverResets
    <2>1. obligations' = [obligations EXCEPT ![o].st = to] /\ UNCHANGED <<now, treasury, balanceCache, opened, quoting>>
      BY <1>11 DEF Becomes
    <2>2. obligations' \in [Obligations -> ObligationRecords]
      BY <1>1, <2>1 DEF ObligationRecords
    <2> QED
      BY <1>1, <2>1, <2>2, ObligationsMove
  <1>12. ASSUME NEW s \in Proofs, Decide(s) PROVE BountyTypes' /\ AgeNeverResets
    BY <1>1, <1>11, <1>12 DEF Decide
  <1>13. ASSUME cancel_payment PROVE BountyTypes' /\ AgeNeverResets
    BY <1>1, <1>11, <1>13 DEF cancel_payment
  <1>14. ASSUME read_catalog PROVE BountyTypes' /\ AgeNeverResets
    <2>1. Minute(now) \in Nat
      BY <1>1, MinuteIsANumber
    <2>2. opened' \in [RewardTargets -> Nat] /\ AgeNeverResets
      BY <1>14, <2>1, TargetsOpen DEF read_catalog
    <2> QED
      BY <1>1, <1>14, <2>2 DEF read_catalog, BountyTypes
  <1>15. ASSUME TopUp PROVE BountyTypes' /\ AgeNeverResets
    BY <1>1, <1>15, ObligationsMove DEF TopUp
  <1>16. ASSUME Elapse PROVE BountyTypes' /\ AgeNeverResets
    BY <1>1, <1>16, ObligationsMove DEF Elapse
  <1>17. ASSUME UNCHANGED bountyVars PROVE BountyTypes' /\ AgeNeverResets
    BY <1>1, <1>17, ObligationsMove DEF bountyVars
  <1> QED
    BY <1>3, <1>4, <1>5, <1>6, <1>7, <1>8, <1>9, <1>10, <1>12, <1>13, <1>14, <1>15, <1>16, <1>17 DEF BountyNext

----------------------------------------------------------------------------
(* Prices.                                                                 *)

\* For how long a reader answers from its cache, and how old a price may be when it is fetched.
CacheWindow == [s \in Sources |-> IF s = "tmc" THEN RatesTtl ELSE IF s = "candles" THEN CandlePeriod ELSE StatsTtl]
AgeWhenFetched == [s \in Sources |-> IF s = "candles" THEN MaxCandleAge ELSE 0]

CallRecords == [at : {"idle", "asks", "waits", "fetching", "answered"}, src : Sources,
                got : Nat \cup {NoPrice}, failed : SUBSET Sources, unpriced : SUBSET Sources]
USE DEF CallRecords

PriceTypes ==
    /\ minute \in Nat /\ candle \in Nat
    /\ kept \in [Sources -> [price : Nat \cup {NoPrice}, at : Nat \cup {NoPrice}, expires : Nat]]
    /\ calls \in [Callers -> CallRecords]
    /\ lastGood \in [Sources -> Nat \cup {NoPrice}] /\ asking \in [Sources -> Callers \cup {"free"}]

\* A cache was filled not later than now, with a price that was recent then, for its window; only TaoStats' may
\* be filled with a failure, and the others' were filled when their source last answered.
KeptInv ==
    \A s \in Sources :
        /\ kept[s].at = NoPrice => kept[s].price = NoPrice /\ kept[s].expires = 0
        /\ kept[s].at # NoPrice =>
               /\ kept[s].at <= minute /\ kept[s].expires <= kept[s].at + CacheWindow[s]
               /\ kept[s].price # NoPrice => kept[s].at <= kept[s].price + AgeWhenFetched[s]
        /\ s # "taostats" => /\ lastGood[s] = kept[s].at
                             /\ kept[s].at # NoPrice => kept[s].price # NoPrice

\* Whoever went on to the next source left one behind that failed this call and had nothing to fall back on.
Unpriced(r) ==
    CASE r.src = "tmc" -> {}
      [] r.src = "candles" -> {"tmc"}
      [] r.src = "taostats" -> {"tmc", "candles"}
CallsInv ==
    \A c \in Callers :
        /\ Unpriced(calls[c]) \subseteq calls[c].unpriced
        /\ calls[c].at = "answered" /\ calls[c].got = NoPrice => calls[c].src = "taostats"
        /\ calls[c].at = "answered" /\ calls[c].got # NoPrice => minute - calls[c].got <= OldestOf(calls[c].src)

PriceIInv == PriceTypes /\ KeptInv /\ CallsInv

LEMMA PeriodsAreNumbers ==
  /\ RatesTtl \in Nat \ {0} /\ CandlePeriod \in Nat \ {0} /\ StatsTtl \in Nat \ {0}
  /\ MaxCandleAge \in Nat /\ MaxStale \in Nat /\ RatesTtl <= MaxStale + 1 /\ CandlePeriod <= MaxStale + 1
  BY PriceConstants

LEMMA FloorIsBefore ==
  ASSUME NEW m \in Nat
  PROVE  floor_to_period(m) \in Nat /\ floor_to_period(m) <= m
  <1>1. CandlePeriod \in Nat \ {0}
    BY PeriodsAreNumbers
  <1>2. m % CandlePeriod \in 0 .. CandlePeriod - 1
    BY <1>1
  <1>3. m % CandlePeriod <= m
    BY <1>1
  <1> QED
    BY <1>2, <1>3 DEF floor_to_period

LEMMA PricesStart == PricesInit => PriceIInv
  <1> SUFFICES ASSUME PricesInit PROVE PriceIInv
    OBVIOUS
  <1>1. PriceTypes
    BY DEF PricesInit, PriceTypes, NothingKept, NoCall, Sources, NoPrice
  <1>2. KeptInv
    BY DEF PricesInit, KeptInv, NothingKept
  <1>3. CallsInv
    BY DEF PricesInit, CallsInv, NoCall, Unpriced
  <1> QED
    BY <1>1, <1>2, <1>3 DEF PriceIInv

\* What a reader may answer from its cache, or fall back on, is recent enough.
LEMMA CacheIsRecent ==
  ASSUME PriceTypes, KeptInv, NEW s \in Sources, kept[s].price # NoPrice,
         minute < kept[s].expires \/ (s # "taostats" /\ minute - kept[s].at <= MaxStale)
  PROVE  minute - kept[s].price <= OldestOf(s)
  <1>1. /\ minute \in Nat /\ kept[s].price \in Nat /\ kept[s].at \in Nat /\ kept[s].expires \in Nat
    BY DEF PriceTypes, KeptInv
  <1>2. kept[s].at # NoPrice
    BY <1>1 DEF NoPrice
  <1>3. kept[s].expires <= kept[s].at + CacheWindow[s] /\ kept[s].at <= kept[s].price + AgeWhenFetched[s]
    BY <1>2 DEF KeptInv
  <1>4. s = "tmc" \/ s = "candles" \/ s = "taostats"
    BY DEF Sources
  <1>5. PICK p, t, e : p = kept[s].price /\ t = kept[s].at /\ e = kept[s].expires
    OBVIOUS
  <1>6. CASE s = "tmc"
    <2>1. CacheWindow[s] = RatesTtl /\ AgeWhenFetched[s] = 0 /\ OldestOf(s) = MaxStale
      BY <1>6 DEF CacheWindow, AgeWhenFetched, OldestOf
    <2> QED
      BY <2>1, <1>1, <1>3, <1>5, PeriodsAreNumbers
  <1>7. CASE s = "candles"
    <2>1. CacheWindow[s] = CandlePeriod /\ AgeWhenFetched[s] = MaxCandleAge /\ OldestOf(s) = MaxStale + MaxCandleAge
      BY <1>7 DEF CacheWindow, AgeWhenFetched, OldestOf
    <2> QED
      BY <2>1, <1>1, <1>3, <1>5, PeriodsAreNumbers
  <1>8. CASE s = "taostats"
    <2>1. CacheWindow[s] = StatsTtl /\ AgeWhenFetched[s] = 0 /\ OldestOf(s) = StatsTtl
      BY <1>8 DEF CacheWindow, AgeWhenFetched, OldestOf
    <2> QED
      BY <2>1, <1>1, <1>3, <1>5, <1>8, PeriodsAreNumbers
  <1> QED
    BY <1>4, <1>6, <1>7, <1>8

\* An answer of one reader, or going on to the next.
LEMMA AnswersKeep ==
  ASSUME PriceTypes, CallsInv, NEW c \in Callers, NEW price \in Nat \cup {NoPrice}, NEW failed \in SUBSET Sources,
         calls[c].at # "answered", Answer(c, price, failed), minute' = minute,
         price # NoPrice => minute - price <= OldestOf(calls[c].src),
         price = NoPrice /\ calls[c].src # "taostats" =>
            /\ calls[c].src \in failed
            /\ lastGood[calls[c].src] = NoPrice \/ minute - lastGood[calls[c].src] > MaxStale
  PROVE  CallsInv' /\ calls' \in [Callers -> CallRecords]
  <1> DEFINE s == calls[c].src
             done == price # NoPrice \/ NextSource[s] = "none"
             more == {f \in failed : lastGood[f] = NoPrice \/ minute - lastGood[f] > MaxStale}
             r == [at |-> IF done THEN "answered" ELSE "asks", src |-> IF done THEN s ELSE NextSource[s],
                   got |-> price, failed |-> calls[c].failed \cup failed, unpriced |-> calls[c].unpriced \cup more]
  <1>1. calls' = [calls EXCEPT ![c] = r]
    BY DEF Answer, CallBecomes
  <1>2. /\ s \in Sources /\ calls[c].failed \in SUBSET Sources /\ calls[c].unpriced \in SUBSET Sources
        /\ Unpriced(calls[c]) \subseteq calls[c].unpriced
    BY DEF PriceTypes, CallsInv
  <1>3. /\ s = "tmc" => NextSource[s] = "candles" /\ Unpriced(calls[c]) = {}
        /\ s = "candles" => NextSource[s] = "taostats" /\ Unpriced(calls[c]) = {"tmc"}
        /\ s = "taostats" => NextSource[s] = "none" /\ Unpriced(calls[c]) = {"tmc", "candles"}
        /\ s = "tmc" \/ s = "candles" \/ s = "taostats"
    BY <1>2 DEF NextSource, Unpriced, Sources
  <1>4. more \in SUBSET Sources /\ (price = NoPrice /\ s # "taostats" => s \in more)
    OBVIOUS
  <1>5. r \in CallRecords
    BY <1>2, <1>3, <1>4 DEF Sources
  <1>6. Unpriced(r) \subseteq r.unpriced
    <2>1. CASE done
      <3>1. r.src = s
        BY <2>1
      <3>2. Unpriced(r) = Unpriced(calls[c])
        BY <3>1 DEF Unpriced
      <3> QED
        BY <3>2, <1>2
    <2>2. CASE ~done
      <3>1. price = NoPrice /\ s # "taostats" /\ r.src = NextSource[s] /\ s \in more
        BY <2>2, <1>3, <1>4
      <3>2. CASE s = "tmc"
        <4>1. r.src = "candles" /\ Unpriced(r) = {"tmc"}
          BY <3>1, <3>2, <1>3 DEF Unpriced
        <4> QED
          BY <3>1, <3>2, <4>1
      <3>3. CASE s = "candles"
        <4>1. r.src = "taostats" /\ Unpriced(r) = {"tmc", "candles"}
          BY <3>1, <3>3, <1>3 DEF Unpriced
        <4> QED
          BY <3>1, <3>3, <4>1, <1>2, <1>3
      <3> QED
        BY <3>1, <3>2, <3>3, <1>3
    <2> QED
      BY <2>1, <2>2
  <1>7. r.at = "answered" => r.src = s /\ r.got = price /\ (price = NoPrice => s = "taostats")
    BY <1>3
  <1> HIDE DEF r, s
  <1>8. calls'[c] = r /\ \A d \in Callers : d # c => calls'[d] = calls[d]
    BY <1>1 DEF PriceTypes
  <1>9. ASSUME NEW d \in Callers
        PROVE  /\ Unpriced(calls'[d]) \subseteq calls'[d].unpriced
               /\ calls'[d].at = "answered" /\ calls'[d].got = NoPrice => calls'[d].src = "taostats"
               /\ calls'[d].at = "answered" /\ calls'[d].got # NoPrice => minute' - calls'[d].got <= OldestOf(calls'[d].src)
    <2>1. CASE d = c
      BY <2>1, <1>6, <1>7, <1>8 DEF s
    <2>2. CASE d # c
      BY <2>2, <1>8 DEF CallsInv
    <2> QED
      BY <2>1, <2>2
  <1>10. CallsInv'
    BY <1>9 DEF CallsInv, Unpriced, OldestOf
  <1> QED
    BY <1>1, <1>5, <1>10 DEF PriceTypes

\* Whatever leaves the caches, the clock and every answer alone.
LEMMA CallsMove ==
  ASSUME PriceIInv, NEW c \in Callers, NEW r, CallBecomes(c, r), UNCHANGED <<minute, candle, kept, lastGood>>,
         asking' \in [Sources -> Callers \cup {"free"}], r.at # "answered",
         r \in CallRecords,
         Unpriced(r) \subseteq r.unpriced
  PROVE  PriceIInv'
  <1>1. PriceTypes'
    BY DEF PriceIInv, PriceTypes, CallBecomes
  <1>2. KeptInv'
    BY DEF PriceIInv, KeptInv
  <1>3. calls'[c] = r /\ \A d \in Callers : d # c => calls'[d] = calls[d]
    BY DEF PriceIInv, PriceTypes, CallBecomes
  <1>4. ASSUME NEW d \in Callers
        PROVE  /\ Unpriced(calls'[d]) \subseteq calls'[d].unpriced
               /\ calls'[d].at = "answered" /\ calls'[d].got = NoPrice => calls'[d].src = "taostats"
               /\ calls'[d].at = "answered" /\ calls'[d].got # NoPrice => minute' - calls'[d].got <= OldestOf(calls'[d].src)
    <2>1. CASE d = c
      BY <2>1, <1>3
    <2>2. CASE d # c
      BY <2>2, <1>3 DEF PriceIInv, CallsInv
    <2> QED
      BY <2>1, <2>2
  <1>5. CallsInv'
    BY <1>4 DEF CallsInv, Unpriced, OldestOf
  <1> QED
    BY <1>1, <1>2, <1>5 DEF PriceIInv

LEMMA FetchKeeps ==
  ASSUME PriceIInv, NEW c \in Callers, Fetched(c)
  PROVE  PriceIInv' /\ OneRequestPerWindow
  <1> DEFINE s == calls[c].src
             got == _fetch(s)
             price == IF got = NoPrice /\ s # "taostats" THEN _still_usable(s) ELSE got
             failed == IF got = NoPrice THEN {s} ELSE {}
  <1>1. /\ calls[c].at = "fetching" /\ kept' = [kept EXCEPT ![s] = Keeps(s, got)]
        /\ asking' = [asking EXCEPT ![s] = "free"] /\ Answer(c, price, failed)
        /\ lastGood' = IF got = NoPrice THEN lastGood ELSE [lastGood EXCEPT ![s] = minute]
        /\ UNCHANGED <<minute, answers, candle, fetchFaults>>
    BY DEF Fetched
  <1>2. /\ s \in Sources /\ minute \in Nat /\ candle \in Nat /\ PriceTypes /\ KeptInv /\ CallsInv
        /\ kept[s].price \in Nat \cup {NoPrice} /\ kept[s].at \in Nat \cup {NoPrice}
    BY DEF PriceIInv, PriceTypes
  <1>3. s = "tmc" \/ s = "candles" \/ s = "taostats"
    BY <1>2 DEF Sources
  <1>4. got \in Nat \cup {NoPrice} /\ (got # NoPrice => minute <= got + AgeWhenFetched[s] /\ minute - got <= OldestOf(s))
    <2>1. newest_candle \in Nat \cup {NoPrice} /\ (newest_candle # NoPrice => minute <= newest_candle + MaxCandleAge)
      BY <1>2, PeriodsAreNumbers DEF newest_candle, NoPrice
    <2>2. CASE s = "candles"
      <3>1. AgeWhenFetched[s] = MaxCandleAge /\ OldestOf(s) = MaxStale + MaxCandleAge /\ got \in {NoPrice, newest_candle}
        BY <2>2 DEF AgeWhenFetched, OldestOf, Sources, _fetch
      <3> QED
        BY <3>1, <2>1, <1>2, PeriodsAreNumbers DEF NoPrice
    <2>3. CASE s # "candles"
      <3>1. AgeWhenFetched[s] = 0 /\ OldestOf(s) \in Nat /\ got \in {NoPrice, minute}
        BY <2>3, <1>2, <1>3, PeriodsAreNumbers DEF AgeWhenFetched, OldestOf, Sources, _fetch
      <3> QED
        BY <3>1, <1>2 DEF NoPrice
    <2> QED
      BY <2>2, <2>3
  <1>5. Expiry(s) \in Nat /\ Expiry(s) <= minute + CacheWindow[s]
    <2>1. next_boundary(minute) \in Nat /\ next_boundary(minute) <= minute + CandlePeriod
      BY <1>2, FloorIsBefore, PeriodsAreNumbers DEF next_boundary
    <2>2. CASE s = "tmc"
      BY <2>2, <1>2, PeriodsAreNumbers DEF Expiry, CacheWindow
    <2>3. CASE s = "candles"
      BY <2>1, <2>3, <1>2, PeriodsAreNumbers DEF Expiry, CacheWindow
    <2>4. CASE s = "taostats"
      BY <2>4, <1>2, PeriodsAreNumbers DEF Expiry, CacheWindow
    <2> QED
      BY <1>3, <2>2, <2>3, <2>4
  <1>6. price \in Nat \cup {NoPrice} /\ (price # NoPrice => minute - price <= OldestOf(s))
    <2>1. CASE got = NoPrice /\ s # "taostats" /\ price # NoPrice
      <3>1. price = kept[s].price /\ minute - kept[s].at <= MaxStale
        BY <2>1, <1>2, PeriodsAreNumbers DEF _still_usable, NoPrice
      <3> QED
        BY <3>1, <2>1, <1>2, CacheIsRecent
    <2>2. CASE ~(got = NoPrice /\ s # "taostats")
      BY <2>2, <1>4
    <2> QED
      BY <2>1, <2>2
  <1>7. price = NoPrice /\ s # "taostats" => s \in failed /\ (lastGood[s] = NoPrice \/ minute - lastGood[s] > MaxStale)
    <2> SUFFICES ASSUME price = NoPrice, s # "taostats"
                 PROVE  s \in failed /\ (lastGood[s] = NoPrice \/ minute - lastGood[s] > MaxStale)
      OBVIOUS
    <2>1. got = NoPrice /\ _still_usable(s) = NoPrice
      OBVIOUS
    <2>2. lastGood[s] = kept[s].at /\ (kept[s].at # NoPrice => kept[s].price # NoPrice)
      BY <1>2 DEF KeptInv
    <2> QED
      BY <2>1, <2>2 DEF _still_usable
  <1>8. CallsInv' /\ calls' \in [Callers -> CallRecords]
    <2>1. failed \in SUBSET Sources
      BY <1>2
    <2> HIDE DEF price, failed
    <2> QED
      BY <2>1, <1>1, <1>2, <1>6, <1>7, AnswersKeep
  <1>9. Keeps(s, got) \in [price : Nat \cup {NoPrice}, at : Nat \cup {NoPrice}, expires : Nat]
    BY <1>2, <1>4, <1>5 DEF Keeps, PriceTypes
  <1>10. PriceTypes'
    <2> HIDE DEF s, got
    <2> QED
      BY <1>1, <1>2, <1>8, <1>9 DEF PriceTypes
  <1>11. KeptInv'
    <2> HIDE DEF got
    <2>1. kept'[s] = Keeps(s, got) /\ \A x \in Sources : x # s => kept'[x] = kept[x] /\ lastGood'[x] = lastGood[x]
      <3> HIDE DEF s
      <3> QED
        BY <1>1, <1>2 DEF PriceTypes
    <2>2. lastGood'[s] = IF got = NoPrice THEN lastGood[s] ELSE minute
      <3> HIDE DEF s
      <3> QED
        BY <1>1, <1>2 DEF PriceTypes
    <2> SUFFICES ASSUME NEW x \in Sources
                 PROVE  (/\ kept[x].at = NoPrice => kept[x].price = NoPrice /\ kept[x].expires = 0
                         /\ kept[x].at # NoPrice =>
                                /\ kept[x].at <= minute /\ kept[x].expires <= kept[x].at + CacheWindow[x]
                                /\ kept[x].price # NoPrice => kept[x].at <= kept[x].price + AgeWhenFetched[x]
                         /\ x # "taostats" => /\ lastGood[x] = kept[x].at
                                              /\ kept[x].at # NoPrice => kept[x].price # NoPrice)'
      BY DEF KeptInv, CacheWindow, AgeWhenFetched
    <2>3. CASE x # s
      <3>1. kept'[x] = kept[x] /\ lastGood'[x] = lastGood[x] /\ minute' = minute
        BY <2>3, <2>1, <1>1
      <3> QED
        BY <3>1, <1>2 DEF KeptInv, CacheWindow, AgeWhenFetched
    <2>4. CASE x = s /\ (got # NoPrice \/ s = "taostats")
      <3>1. kept'[x] = [price |-> got, at |-> minute, expires |-> Expiry(s)]
        BY <2>4, <2>1 DEF Keeps
      <3>2. kept'[x].at = minute /\ kept'[x].price = got /\ kept'[x].expires = Expiry(s) /\ minute' = minute
        BY <3>1, <1>1
      <3>3. minute # NoPrice
        BY <1>2 DEF NoPrice
      <3>4. lastGood'[x] = IF got = NoPrice THEN lastGood[s] ELSE minute
        BY <2>2, <2>4
      <3> QED
        BY <3>2, <3>3, <3>4, <2>4, <1>2, <1>4, <1>5 DEF CacheWindow, AgeWhenFetched
    <2>5. CASE x = s /\ got = NoPrice /\ s # "taostats"
      <3>1. kept'[x] = kept[x] /\ lastGood'[x] = lastGood[x] /\ minute' = minute
        BY <2>5, <2>1, <2>2, <1>1 DEF Keeps
      <3> QED
        BY <3>1, <1>2 DEF KeptInv, CacheWindow, AgeWhenFetched
    <2> QED
      BY <2>3, <2>4, <2>5
  <1>12. OneRequestPerWindow
    <2> HIDE DEF s
    <2>1. \A x \in Sources : asking'[x] = "free" \/ asking'[x] = asking[x]
      BY <1>1, <1>2 DEF PriceTypes
    <2> QED
      BY <2>1 DEF OneRequestPerWindow
  <1> QED
    BY <1>8, <1>10, <1>11, <1>12 DEF PriceIInv

LEMMA ReadKeeps ==
  ASSUME PriceIInv, NEW c \in Callers, ReadCache(c)
  PROVE  PriceIInv'
  <1> DEFINE s == calls[c].src
             failed == IF kept[s].price = NoPrice THEN {s} ELSE {}
  <1>1. /\ calls[c].at \in {"asks", "waits"} /\ Cached(s) /\ Answer(c, kept[s].price, failed)
        /\ UNCHANGED <<minute, answers, candle, fetchFaults, kept, asking, lastGood>>
    BY DEF ReadCache
  <1>2. /\ s \in Sources /\ PriceTypes /\ KeptInv /\ CallsInv /\ kept[s].price \in Nat \cup {NoPrice}
    BY DEF PriceIInv, PriceTypes
  <1>3. kept[s].price # NoPrice => minute - kept[s].price <= OldestOf(s)
    BY <1>1, <1>2, CacheIsRecent DEF Cached
  <1>4. kept[s].price = NoPrice => s = "taostats"
    BY <1>1 DEF Cached
  <1>5. CallsInv' /\ calls' \in [Callers -> CallRecords]
    <2>1. failed \in SUBSET Sources /\ calls[c].at # "answered"
      BY <1>1, <1>2
    <2> HIDE DEF failed
    <2> QED
      BY <2>1, <1>1, <1>2, <1>3, <1>4, AnswersKeep
  <1>6. PriceTypes'
    BY <1>1, <1>2, <1>5 DEF PriceTypes
  <1>7. KeptInv'
    BY <1>1, <1>2 DEF KeptInv
  <1> QED
    BY <1>5, <1>6, <1>7 DEF PriceIInv

LEMMA MinuteKeeps ==
  ASSUME PriceIInv, NEW gap \in BOOLEAN, MinutePasses(gap)
  PROVE  PriceIInv'
  <1>1. minute \in Nat /\ minute' = minute + 1 /\ UNCHANGED <<kept, asking, calls, lastGood>>
    BY DEF MinutePasses, PriceIInv, PriceTypes
  <1>2. candle' \in Nat
    <2>1. floor_to_period(minute + 1) \in Nat
      BY <1>1, FloorIsBefore
    <2> QED
      BY <2>1 DEF MinutePasses, PriceIInv, PriceTypes
  <1>3. PriceTypes'
    BY <1>1, <1>2 DEF PriceIInv, PriceTypes
  <1>4. KeptInv'
    <2>1. \A s \in Sources : kept[s].at \in Nat \cup {NoPrice}
      BY DEF PriceIInv, PriceTypes
    <2>2. \A s \in Sources : kept[s].at # NoPrice /\ kept[s].at <= minute => kept[s].at <= minute + 1
      BY <1>1, <2>1
    <2> QED
      BY <1>1, <2>2 DEF PriceIInv, KeptInv, CacheWindow, AgeWhenFetched
  <1>5. CallsInv'
    BY <1>1 DEF PriceIInv, CallsInv, MinutePasses, Unpriced
  <1> QED
    BY <1>3, <1>4, <1>5 DEF PriceIInv

LEMMA PriceStep ==
  ASSUME PriceIInv, [PricesNext]_priceVars
  PROVE  PriceIInv' /\ OneRequestPerWindow
  <1> USE DEF CallBecomes
  <1>1. ASSUME asking' = asking PROVE OneRequestPerWindow
    BY <1>1 DEF OneRequestPerWindow
  <1>2. \A d \in Callers : /\ calls[d] \in CallRecords
                           /\ Unpriced(calls[d]) \subseteq calls[d].unpriced
    BY DEF PriceIInv, PriceTypes, CallsInv
  <1>3. asking \in [Sources -> Callers \cup {"free"}]
    BY DEF PriceIInv, PriceTypes
  <1>4. ASSUME NEW c \in Callers, tao_usd(c) PROVE PriceIInv' /\ OneRequestPerWindow
    <2>1. CallBecomes(c, [NoCall EXCEPT !.at = "asks"]) /\ UNCHANGED <<minute, candle, kept, lastGood, asking>>
      BY <1>4 DEF tao_usd
    <2>2. Unpriced([NoCall EXCEPT !.at = "asks"]) = {}
      BY DEF Unpriced, NoCall
    <2>3. [NoCall EXCEPT !.at = "asks"] \in CallRecords
      BY DEF NoCall, Sources
    <2>4. [NoCall EXCEPT !.at = "asks"].at # "answered"
      BY DEF NoCall
    <2> QED
      BY <2>1, <2>2, <2>3, <2>4, <1>1, <1>3, CallsMove
  <1>5. ASSUME NEW c \in Callers, ReadCache(c) PROVE PriceIInv' /\ OneRequestPerWindow
    BY <1>1, <1>5, ReadKeeps DEF ReadCache
  <1>6. ASSUME NEW c \in Callers, WaitForLock(c) PROVE PriceIInv' /\ OneRequestPerWindow
    <2> DEFINE r == [calls[c] EXCEPT !.at = "waits"]
    <2>1. CallBecomes(c, r) /\ UNCHANGED <<minute, candle, kept, lastGood, asking>>
      BY <1>6 DEF WaitForLock
    <2>2. r.at = "waits" /\ r.src = calls[c].src /\ r.unpriced = calls[c].unpriced
      BY <1>2
    <2>3. Unpriced(r) \subseteq r.unpriced
      BY <1>2, <2>2 DEF Unpriced
    <2>4. r \in CallRecords
      BY <1>2
    <2> HIDE DEF r
    <2> QED
      BY <2>1, <2>2, <2>3, <2>4, <1>1, <1>3, CallsMove
  <1>7. ASSUME NEW c \in Callers, AskSource(c) PROVE PriceIInv' /\ OneRequestPerWindow
    <2> DEFINE r == [calls[c] EXCEPT !.at = "fetching"]
               s == calls[c].src
    <2>1. /\ CallBecomes(c, r) /\ UNCHANGED <<minute, candle, kept, lastGood>>
          /\ asking' = [asking EXCEPT ![s] = c] /\ ~Cached(s) /\ s \in Sources
      BY <1>7, <1>2 DEF AskSource
    <2>2. r.at = "fetching" /\ r.src = calls[c].src /\ r.unpriced = calls[c].unpriced
      BY <1>2
    <2>3. Unpriced(r) \subseteq r.unpriced
      BY <1>2, <2>2 DEF Unpriced
    <2>4. r \in CallRecords
      BY <1>2
    <2> HIDE DEF r, s
    <2>5. asking' \in [Sources -> Callers \cup {"free"}] /\ \A x \in Sources : x # s => asking'[x] = asking[x]
      BY <2>1, <1>3
    <2>6. OneRequestPerWindow
      BY <2>1, <2>5 DEF OneRequestPerWindow
    <2> QED
      BY <2>1, <2>2, <2>3, <2>4, <2>5, <2>6, CallsMove
  <1>8. ASSUME NEW c \in Callers, Fetched(c) PROVE PriceIInv' /\ OneRequestPerWindow
    BY <1>8, FetchKeeps
  <1>9. ASSUME NEW c \in Callers, CallReturns(c) PROVE PriceIInv' /\ OneRequestPerWindow
    <2>1. CallBecomes(c, NoCall) /\ UNCHANGED <<minute, candle, kept, lastGood, asking>>
      BY <1>9 DEF CallReturns
    <2>2. Unpriced(NoCall) = {} /\ NoCall.at # "answered"
      BY DEF Unpriced, NoCall
    <2>3. NoCall \in CallRecords
      BY DEF NoCall, Sources
    <2> QED
      BY <2>1, <2>2, <2>3, <1>1, <1>3, CallsMove
  <1>10. ASSUME NEW s \in Sources, SourceChanges(s) PROVE PriceIInv' /\ OneRequestPerWindow
    <2>1. UNCHANGED <<minute, candle, kept, asking, calls, lastGood>>
      BY <1>10 DEF SourceChanges
    <2> QED
      BY <2>1, <1>1 DEF PriceIInv, PriceTypes, KeptInv, CallsInv, Unpriced, OldestOf
  <1>11. ASSUME NEW gap \in BOOLEAN, MinutePasses(gap) PROVE PriceIInv' /\ OneRequestPerWindow
    BY <1>1, <1>11, MinuteKeeps DEF MinutePasses
  <1>12. ASSUME UNCHANGED priceVars PROVE PriceIInv' /\ OneRequestPerWindow
    BY <1>1, <1>12 DEF priceVars, PriceIInv, PriceTypes, KeptInv, CallsInv, Unpriced, OldestOf
  <1> QED
    BY <1>4, <1>5, <1>6, <1>7, <1>8, <1>9, <1>10, <1>11, <1>12 DEF PricesNext

LEMMA PricesFollow == PriceIInv => PriceIsRecent /\ RefusedOnlyInOutage
  BY DEF PriceIInv, CallsInv, PriceIsRecent, RefusedOnlyInOutage, Unpriced
HIDE DEF CallRecords

----------------------------------------------------------------------------
(* The components together: the one a behaviour is about moves, the others *)
(* stand still.                                                            *)

\* What is kept of each component, in each kind of behaviour.
EntitlementsIInv ==
    /\ CliIInv
    /\ BrowserIInv /\ PagesInv
    /\ InviteIInv
    /\ RateIInv
    /\ AloneInv
    /\ BountyTypes
    /\ PriceIInv

\* What a step may do to invitations, tokens, browser sessions, waiting times, the age of a bounty and a price's source.
EntitlementsKeep ==
    /\ WithdrawnGrantsNothing /\ CeilingHolds
    /\ EndedStaysEnded /\ ForeignPagesEndNothing /\ RetryAfterIsKept
    /\ AgeNeverResets /\ OneRequestPerWindow

LEMMA EntitlementsStart == EntitlementsInit => EntitlementsIInv
  <1> SUFFICES ASSUME EntitlementsInit PROVE EntitlementsIInv
    OBVIOUS
  <1>1. PagesInv
    BY DEF EntitlementsInit, BrowserInit, PagesInv, NoFlight
  <1> QED
    BY <1>1, CliStart, AloneStart, BrowserStart, InviteStart, RateStart, BountyStart, PricesStart DEF EntitlementsInit, EntitlementsIInv

LEMMA EntitlementsStep ==
  ASSUME EntitlementsIInv, [EntitlementsNext]_entitlementsVars
  PROVE  EntitlementsIInv' /\ EntitlementsKeep
  <1>1. [InviteNext]_inviteVars /\ [CliNext]_cliVars /\ [BrowserNext]_browserVars
        /\ [RequestsNext \/ GuessesNext]_rateVars /\ [BountyNext]_bountyVars /\ [PricesNext]_priceVars
    BY DEF EntitlementsNext, entitlementsVars, InvitationsRuns, BountyReservationsRuns, PriceFeedsRuns, CliRuns,
           BrowserRuns, RateWindowRuns
  <1>2. InviteIInv' /\ WithdrawnGrantsNothing
    BY <1>1, InviteStep DEF EntitlementsIInv
  <1>3. CliIInv' /\ AloneInv' /\ CeilingHolds
    BY <1>1, CliStep, CeilingStep DEF EntitlementsIInv, CliIInv
  <1>4. BrowserIInv' /\ PagesInv' /\ EndedStaysEnded /\ ForeignPagesEndNothing
    BY <1>1, BrowserStep, PagesStep, EndedStep, ForeignStep DEF EntitlementsIInv
  <1>5. RateIInv' /\ RetryAfterIsKept
    BY <1>1, RateStep DEF EntitlementsIInv
  <1>6. BountyTypes' /\ AgeNeverResets
    BY <1>1, BountyStep DEF EntitlementsIInv
  <1>7. PriceIInv' /\ OneRequestPerWindow
    BY <1>1, PriceStep DEF EntitlementsIInv
  <1> QED
    BY <1>2, <1>3, <1>4, <1>5, <1>6, <1>7 DEF EntitlementsIInv, EntitlementsKeep

\* The components keep what they rely on (EntitlementsIInv), in every behaviour of the composition.
THEOREM EntitlementsInductive == EntitlementsSpec => []EntitlementsIInv
  <1> QED
    BY EntitlementsStart, EntitlementsStep, PTL DEF EntitlementsSpec

\* A token dies of age, a coldkey speaks for the account that linked it, and somebody active stays signed in
\* (touch_session, link_wallet, send_with_refresh).
THEOREM SessionsStayTheHoldersOwn == EntitlementsSpec => []SessionsAreTheHoldersOwn
  <1>1. EntitlementsIInv => SessionsAreTheHoldersOwn
    BY CliIsSafe, BrowserIsSafe DEF EntitlementsIInv, SessionsAreTheHoldersOwn
  <1> QED
    BY <1>1, EntitlementsInductive, PTL

\* The count of an invitation, its redemptions and the grants agree and none passes the limit (redeem).
THEOREM GrantsStayWithinLimit == EntitlementsSpec => []GrantsWithinLimit
  <1>1. EntitlementsIInv => GrantsWithinLimit
    BY DEF EntitlementsIInv, InviteIInv
  <1> QED
    BY <1>1, EntitlementsInductive, PTL

\* No caller has more than the limit admitted in any window, and a mailbox's failures are bounded by what was under
\* way at once (SlidingWindowLimiter.check, password_login).
THEOREM RatesStayLimited == EntitlementsSpec => [](WindowHolds /\ GuessesAreBounded)
  <1>1. EntitlementsIInv => WindowHolds /\ GuessesAreBounded
    BY RatesAreSafe DEF EntitlementsIInv
  <1> QED
    BY <1>1, EntitlementsInductive, PTL

\* The limits hold in every race for what is left: grants of an invitation, hits and guesses of a window, the age
\* of a price and whom a refusal of it may be blamed on, and the share of a bounty, for every balance and age
\* (redeem, ratelimit.py, rates.py, calculate_bounty_rao).
THEOREM LimitsStayHeld == EntitlementsSpec => []LimitsHold
  <1>1. EntitlementsIInv => LimitsHold
    BY RatesAreSafe, PricesFollow, SharesFollow DEF EntitlementsIInv, InviteIInv, LimitsHold
  <1> QED
    BY <1>1, EntitlementsInductive, PTL

\* A withdrawn invitation gives nothing to a request that was under way, a minting that nothing overlaps leaves at
\* most the ceiling of tokens, an ended session does not move on, and another site's page ends none; nor does the
\* moment a waiting caller was told move, or the age of a bounty, and no source is asked while its price is cached
\* (revoke, _evict_surplus_cli_sessions, touch_session, require_writer, SlidingWindowLimiter.reset_seconds,
\* quote_many, TmcPayRatesPriceReader).
THEOREM EndedAndWithdrawnStaySo == EntitlementsSpec => [][EntitlementsKeep]_entitlementsVars
  <1>1. EntitlementsIInv /\ [EntitlementsNext]_entitlementsVars => [EntitlementsKeep]_entitlementsVars
    BY EntitlementsStep
  <1> QED
    BY <1>1, EntitlementsInductive, PTL DEF EntitlementsSpec
=============================================================================
