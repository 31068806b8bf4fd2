---------------------------- MODULE CreditAccounts ----------------------------
(***************************************************************************)
(* Spending an account's credits.  An intent holds a credit while its       *)
(* bundle is uploaded and signed, and confirm turns the hold into a SPEND   *)
(* entry and a submission; the website does all of it in one call.  Two     *)
(* locks are involved, the account's row and the advisory lock of the       *)
(* quote, and the two ways in take them in opposite orders.  The time a     *)
(* request compares with is read before it waits for a lock, and an intent  *)
(* read again under the lock is the object the session loaded before.       *)
(***************************************************************************)
EXTENDS Integers, FiniteSets

CONSTANTS
    Intents,      \* POST /intents requests of one account, and the intents they open
    Uploads,      \* PUT /intents/{id}/bundle requests
    UploadTo,     \* [Uploads -> Intents]
    UploadProof,  \* [Uploads -> proofs]
    Confirms,     \* POST /intents/{id}/confirm requests
    ConfirmOf,    \* [Confirms -> Intents]
    SignedProof,  \* [Confirms -> proofs]: what the signature sent covers
    WebCalls,     \* POST /web and /session calls; each opens an intent of its own
    WebProof,     \* [WebCalls -> proofs]
    WebKey,       \* [WebCalls -> idempotency keys]
    NoOne,
    Minutes,      \* intent_minutes, in ticks of the clock
    MaxTime,      \* bound: ticks of the clock
    MaxCredits    \* bound: credits the account is ever given

ASSUME CreditConstants ==
    /\ Minutes \in Nat \ {0} /\ MaxTime \in Nat /\ MaxCredits \in Nat
    /\ UploadTo \in [Uploads -> Intents] /\ ConfirmOf \in [Confirms -> Intents]
    /\ NoOne \notin Confirms \cup WebCalls /\ Confirms \cap WebCalls = {} /\ Intents \cap WebCalls = {}

VARIABLES
    creditTime,      \* minutes
    given,      \* credits the ledger's positive entries add up to
    intent,     \* submission_intents: [status, expires, proof]
    spend,      \* SPEND entries by intent: [n, at]
    accepted,   \* submissions by intent: [proof, signed, key] or NoSubmission
    opening,    \* [pc, at] of the requests that open an intent
    upload,     \* [pc, seen] of the uploads
    confirming, \* [pc, seen, at] of the confirms
    web,        \* [pc, at] of the one-call submissions
    accountLock, pricingLock   \* who holds them

creditVars == <<creditTime, given, intent, spend, accepted, opening, upload, confirming, web,
                accountLock, pricingLock>>
tables == <<intent, spend, accepted>>
Ids == Intents \cup WebCalls

NoIntent == [status |-> "None", expires |-> 0, proof |-> NoOne]
NoSubmission == [proof |-> NoOne, signed |-> NoOne, key |-> NoOne]

CreditInit ==
    /\ creditTime = 0 /\ given = 1 /\ accountLock = NoOne /\ pricingLock = NoOne
    /\ intent = [i \in Ids |-> NoIntent]
    /\ spend = [i \in Ids |-> [n |-> 0, at |-> 0]]
    /\ accepted = [i \in Ids |-> NoSubmission]
    /\ opening = [i \in Intents |-> [pc |-> "New", at |-> 0]]
    /\ upload = [u \in Uploads |-> [pc |-> "New", seen |-> "None"]]
    /\ confirming = [c \in Confirms |-> [pc |-> "New", seen |-> NoIntent, at |-> 0]]
    /\ web = [w \in WebCalls |-> [pc |-> "New", at |-> 0]]
-----------------------------------------------------------------------------
(* The ledger. *)

Tick ==
    /\ creditTime < MaxTime
    /\ creditTime' = creditTime + 1
    /\ UNCHANGED <<given, tables, opening, upload, confirming, web, accountLock, pricingLock>>

\* A deposit, a bonus or a grant is entered; none of them waits for the account's row here.
AddCredit ==
    /\ given < MaxCredits
    /\ given' = given + 1
    /\ UNCHANGED <<creditTime, tables, opening, upload, confirming, web, accountLock, pricingLock>>

balance_rao == given - Cardinality({i \in Ids : spend[i].n > 0})

\* Live intents that have not expired at the time the caller read.
held_rao(now) ==
    Cardinality({i \in Ids : intent[i].status \in {"OPEN", "BUNDLE_ATTACHED"} /\ intent[i].expires > now})

\* Holds are forgotten.
balance_alone(now) == IF balance_rao <= 0 THEN 0 ELSE balance_rao

\* credit_balance: zero when the holds exceed the balance.
credits_available(now) == LET left == balance_rao - held_rao(now) IN IF left <= 0 THEN 0 ELSE left

\* credit_ledger_spend_idx: one SPEND may name the intent.
SpendFree(i) == spend[i].n = 0
ProofFree(p) == \A i \in Ids : accepted[i].proof # p
KeyFree(k) == \A i \in Ids : accepted[i].key # k

assert_usable(status, expires, now) == status \in {"OPEN", "BUNDLE_ATTACHED"} /\ expires > now
-----------------------------------------------------------------------------
(* Opening an intent. *)

\* create_intent refuses a paused service, an account with no submission coldkey and unknown tasks,
\* which changes nothing; both times are read before the lock.
create_intent(i) ==
    /\ opening[i].pc = "New"
    /\ opening' = [opening EXCEPT ![i] = [pc |-> "Asked", at |-> creditTime]]
    /\ UNCHANGED <<creditTime, given, tables, upload, confirming, web, accountLock, pricingLock>>

\* Under the account's lock; the commit releases it.
open_intent(i) ==
    /\ opening[i].pc = "Asked" /\ accountLock = NoOne
    /\ IF credits_available(opening[i].at) < 1
       THEN opening' = [opening EXCEPT ![i].pc = "Refused"] /\ UNCHANGED intent
       ELSE /\ intent' = [intent EXCEPT ![i] = [status |-> "OPEN", proof |-> NoOne,
                                                expires |-> opening[i].at + Minutes]]
            /\ opening' = [opening EXCEPT ![i].pc = "Opened"]
    /\ UNCHANGED <<creditTime, given, spend, accepted, upload, confirming, web, accountLock, pricingLock>>
-----------------------------------------------------------------------------
(* Uploading. *)

\* The intent is read before the body, which may take long.
upload_bundle(u) ==
    LET i == UploadTo[u]
    IN  /\ upload[u].pc = "New" /\ intent[i].status # "None"
        /\ upload' = [upload EXCEPT ![u] =
               [pc |-> IF assert_usable(intent[i].status, intent[i].expires, creditTime) THEN "Loaded" ELSE "Refused",
                seen |-> intent[i].status]]
        /\ UNCHANGED <<creditTime, given, tables, opening, confirming, web, accountLock, pricingLock>>

\* Only the columns that differ from what was read are written: the status when it was OPEN.
attach_bundle(u) ==
    LET i == UploadTo[u]
    IN  /\ upload[u].pc = "Loaded"
        /\ IF intent[i].expires > creditTime
           THEN /\ intent' = [intent EXCEPT ![i].proof = UploadProof[u],
                                            ![i].status = IF upload[u].seen = "OPEN" THEN "BUNDLE_ATTACHED" ELSE @]
                /\ upload' = [upload EXCEPT ![u].pc = "Attached"]
           ELSE /\ upload' = [upload EXCEPT ![u].pc = "Refused"]
                /\ UNCHANGED intent
        /\ UNCHANGED <<creditTime, given, spend, accepted, opening, confirming, web, accountLock, pricingLock>>
-----------------------------------------------------------------------------
(* Confirming. *)

ConfirmEnds(c, pc) == confirming' = [confirming EXCEPT ![c] = [pc |-> pc, seen |-> NoIntent, at |-> 0]]

\* The signature is checked against the digest of the intent as it is loaded here.
confirm_intent(c) ==
    LET i == ConfirmOf[c]
        seen == intent[i]
    IN  /\ confirming[c].pc = "New" /\ seen.status # "None"
        /\ IF /\ seen.proof = SignedProof[c]
              /\ assert_usable(seen.status, seen.expires, creditTime)
           THEN confirming' = [confirming EXCEPT ![c] = [pc |-> "Verified", seen |-> seen, at |-> 0]]
           ELSE ConfirmEnds(c, "Refused")
        /\ UNCHANGED <<creditTime, given, tables, opening, upload, web, accountLock, pricingLock>>

\* _assert_payable and the evidence a bounty asks for: the caller goes on or is refused.
\* lock_quote waits for the advisory lock, which a refusal gives back with the transaction.
ConfirmQuote(c) ==
    /\ confirming[c].pc = "Verified" /\ pricingLock = NoOne
    /\ \/ /\ pricingLock' = c
          /\ confirming' = [confirming EXCEPT ![c].pc = "Quoted", ![c].at = creditTime]
       \/ /\ ConfirmEnds(c, "Refused")
          /\ UNCHANGED pricingLock
    /\ UNCHANGED <<creditTime, given, tables, opening, upload, web, accountLock>>

\* get_intent under the lock does not refresh the object: the session's copy is what is confirmed.
LockedIntent(c) == confirming[c].seen

\* record_entry, the submission and the intent's new status, together or not at all.
Debit(i, proof, signed, key, expires) ==
    /\ spend' = [spend EXCEPT ![i] = [n |-> @.n + 1, at |-> creditTime]]
    /\ accepted' = [accepted EXCEPT ![i] = [proof |-> proof, signed |-> signed, key |-> key]]
    /\ intent' = [intent EXCEPT ![i] = [status |-> "CONFIRMED", expires |-> expires, proof |-> NoOne]]

\* The expiry, the spend index, the proof and the key decide; then the debit commits.
confirm_under_lock(c) ==
    LET i == ConfirmOf[c]
        seen == LockedIntent(c)
        ok == /\ assert_usable(seen.status, seen.expires, confirming[c].at)
              /\ seen.status = "BUNDLE_ATTACHED" /\ seen.proof # NoOne
              /\ SpendFree(i) /\ ProofFree(seen.proof) /\ KeyFree(i)
    IN  /\ confirming[c].pc = "Quoted" /\ accountLock = NoOne
        /\ pricingLock' = NoOne
        /\ IF ok THEN Debit(i, seen.proof, SignedProof[c], i, intent[i].expires)
                 ELSE UNCHANGED tables
        /\ ConfirmEnds(c, IF ok THEN "Created" ELSE "Refused")
        /\ UNCHANGED <<creditTime, given, opening, upload, web, accountLock>>
-----------------------------------------------------------------------------
(* The website's one call. *)

WebEnds(w, pc) == web' = [web EXCEPT ![w] = [pc |-> pc, at |-> 0]]
EarlierCall(w) == {i \in Ids : accepted[i].key = WebKey[w]}

\* A replay is answered; otherwise the early checks, which lock nothing, and the upload.
create_web_submission(w) ==
    /\ web[w].pc = "New"
    /\ IF EarlierCall(w) # {} THEN WebEnds(w, "Replayed")
       ELSE IF credits_available(creditTime) < 1 THEN WebEnds(w, "Refused")
       ELSE web' = [web EXCEPT ![w].pc = "Uploading"]
    /\ UNCHANGED <<creditTime, given, tables, opening, upload, confirming, accountLock, pricingLock>>

\* The bundle, its digest, the signature and its expiry are checked; the time is read again.
WebUploaded(w) ==
    /\ web[w].pc = "Uploading"
    /\ \E ok \in BOOLEAN : IF ok THEN web' = [web EXCEPT ![w] = [pc |-> "Asked", at |-> creditTime]]
                                 ELSE WebEnds(w, "Refused")
    /\ UNCHANGED <<creditTime, given, tables, opening, upload, confirming, accountLock, pricingLock>>

\* open_intent and attach_bundle: the account's row stays locked, nothing is committed.
WebOpen(w) ==
    /\ web[w].pc = "Asked" /\ accountLock = NoOne
    /\ IF credits_available(web[w].at) < 1
       THEN WebEnds(w, "Refused") /\ UNCHANGED accountLock
       ELSE web' = [web EXCEPT ![w].pc = "Opened"] /\ accountLock' = w
    /\ UNCHANGED <<creditTime, given, tables, opening, upload, confirming, pricingLock>>

\* lock_quote, then confirm and the commit.
WebConfirm(w) ==
    /\ web[w].pc = "Opened" /\ pricingLock = NoOne
    /\ accountLock' = NoOne
    /\ \/ /\ ProofFree(WebProof[w]) /\ KeyFree(WebKey[w])
          /\ Debit(w, WebProof[w], WebProof[w], WebKey[w], web[w].at + Minutes)
          /\ WebEnds(w, "Created")
       \/ /\ WebEnds(w, "Refused")   \* not payable, or a unique index refuses the insert
          /\ UNCHANGED tables
    /\ UNCHANGED <<creditTime, given, opening, upload, confirming, pricingLock>>

\* One holds the account and waits for the quote, the other the reverse: PostgreSQL ends one of
\* the two transactions.
DeadlockVictim(c, w) ==
    /\ confirming[c].pc = "Quoted" /\ web[w].pc = "Opened"
    /\ \/ ConfirmEnds(c, "Refused") /\ pricingLock' = NoOne /\ UNCHANGED <<web, accountLock>>
       \/ WebEnds(w, "Refused") /\ accountLock' = NoOne /\ UNCHANGED <<confirming, pricingLock>>
    /\ UNCHANGED <<creditTime, given, tables, opening, upload>>
-----------------------------------------------------------------------------
ConfirmStep(c) == confirm_intent(c) \/ ConfirmQuote(c) \/ confirm_under_lock(c)
WebStep(w) == create_web_submission(w) \/ WebUploaded(w) \/ WebOpen(w) \/ WebConfirm(w)
Victims == \E c \in Confirms, w \in WebCalls : DeadlockVictim(c, w)

\* Calls the server has begun and goes on with; a client decides when one begins.
CallsGoOn ==
    \/ Victims
    \/ \E c \in Confirms : confirming[c].pc # "New" /\ ConfirmStep(c)
    \/ \E w \in WebCalls : web[w].pc # "New" /\ WebStep(w)

CreditNext ==
    \/ Tick \/ AddCredit \/ Victims
    \/ \E i \in Intents : create_intent(i) \/ open_intent(i)
    \/ \E u \in Uploads : upload_bundle(u) \/ attach_bundle(u)
    \/ \E c \in Confirms : ConfirmStep(c)
    \/ \E w \in WebCalls : WebStep(w)

CreditSpec == CreditInit /\ [][CreditNext]_creditVars /\ WF_creditVars(CallsGoOn)

-----------------------------------------------------------------------------
\* The account is overdrawn by no more than the intents that were debited after they had lapsed:
\* those alone can meet a credit that a later hold was given, because the time confirm compares
\* with is read before it waits (lock_account, held_rao, assert_usable).
LateSpends == {i \in Ids : spend[i].n > 0 /\ spend[i].at >= intent[i].expires}
SpendsAreCovered ==
    Cardinality({i \in Ids : spend[i].n > 0}) <= given + Cardinality(LateSpends)

\* A submission has exactly one SPEND, a spend has its submission, and no proof is accepted twice,
\* whichever path, retry or second confirm of one intent brings it (confirm).
OneSpendPerSubmission ==
    \A i \in Ids : /\ spend[i].n = IF accepted[i] = NoSubmission THEN 0 ELSE 1
                   /\ \A j \in Ids \ {i} : accepted[i] # NoSubmission => accepted[i].proof # accepted[j].proof

\* What is submitted is what was signed, although another upload may replace the intent's proof
\* between the check of the signature and the lock (confirm_intent, confirm).
SubmittedIsSigned == \A i \in Ids : accepted[i].proof = accepted[i].signed

\* One idempotency key is charged once, however often the call is sent.
KeyChargedOnce ==
    \A v, w \in WebCalls : (WebKey[v] = WebKey[w] /\ spend[v].n > 0 /\ spend[w].n > 0) => v = w

\* Every call that has begun ends: the two lock orders cannot hold each other up for good, and no
\* refusal keeps a lock (confirm_intent: quote, account; create_web_submission: account, quote).
CallsEnd ==
    []<>(/\ \A c \in Confirms : confirming[c].pc \in {"New", "Created", "Refused"}
         /\ \A w \in WebCalls : web[w].pc \in {"New", "Created", "Refused", "Replayed"})

\* What a spend keeps: it is covered, it is the only one of its submission and its key, and it pays
\* for the proof that was signed, in every race of intents, confirmations and web calls (confirm).
SpendsAreDue == SpendsAreCovered /\ OneSpendPerSubmission /\ SubmittedIsSigned /\ KeyChargedOnce
=============================================================================
