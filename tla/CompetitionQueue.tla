-------------------------- MODULE CompetitionQueue --------------------------
(***************************************************************************)
(* The queue of a compression competition on its first schema: the rows of *)
(* conjectures_subnet/competition/submissions.py, the workers of           *)
(* competition_worker that claim them, run the competition's gate and      *)
(* write the verdict, and the operator's requeue of                        *)
(* routers/competitions_admin.py.  An accepted submission spends one       *)
(* registration of its hotkey (registrations.py, entitlement_claims).      *)
(*                                                                         *)
(* A worker keeps the row it claimed as a snapshot while the gate runs:    *)
(* neither finish, abandon nor requeue looks at who holds the row now.     *)
(***************************************************************************)
EXTENDS Integers, FiniteSets

CONSTANTS Submissions,     \* rows, in the order they arrive: a set of naturals
          Hollow,          \* rows without files (written before files were kept)
          Registrations,   \* registrations, oldest first: a set of naturals
          HotkeyOf,        \* the hotkey of each submission
          RegisteredTo,    \* the hotkey of each registration
          Runners,         \* worker processes
          max_attempts,    \* Settings.max_attempts
          BackoffTurns,    \* BACKOFF_TURNS
          MaxBreaks,       \* bound: runs of the gate that end without a verdict
          MaxDeaths,       \* bound: worker processes that die
          MaxRequeues      \* bound: requeues an operator asks for

ASSUME CompetitionAssumption ==
    /\ Submissions \subseteq Nat /\ Registrations \subseteq Nat
    /\ Hollow \subseteq Submissions
    /\ max_attempts \in Nat \ {0} /\ BackoffTurns \in Nat \ {0}

Unheld == "nobody"
Absent == "absent"
Pending == {"queued", "verifying"}
Verdicts == {"accepted", "unmeasured", "rejected", "broken"}

VARIABLES table,     \* table[s]: state and attempts of the row
          claims,    \* entitlement_claims: pairs <<registration, submission>>
          hand,      \* hand[w]: what worker w is doing, with its snapshot of the row
          turns,     \* turns[w]: turns of backoff left
          draining,  \* draining[w]: inside the loop of drain
          rowLock,   \* rowLock[s]: the transaction that holds the row
          regLock,   \* regLock[r]: the transaction that holds the registration
          breaks, deaths, requeues,
          stolen     \* history: a claim was taken from a worker still at work

competitionVars ==
    <<table, claims, hand, turns, draining, rowLock, regLock, breaks, deaths, requeues, stolen>>

AtRest == [at |-> "idle"]

CompetitionInit ==
    /\ table = [s \in Submissions |-> [state |-> Absent, attempts |-> 0]]
    /\ claims = {}
    /\ hand = [w \in Runners |-> AtRest]
    /\ turns = [w \in Runners |-> 0]
    /\ draining = [w \in Runners |-> FALSE]
    /\ rowLock = [s \in Submissions |-> Unheld]
    /\ regLock = [r \in Registrations |-> Unheld]
    /\ breaks = 0 /\ deaths = 0 /\ requeues = 0
    /\ stolen = FALSE

(* SubmissionsDb.add: a row once per (hotkey, digest); a second call finds *)
(* the row and changes nothing.                                            *)
add(s) ==
    /\ table[s].state = Absent
    /\ \A t \in Submissions : t < s => table[t].state # Absent
    /\ table' = [table EXCEPT ![s].state = "queued"]
    /\ UNCHANGED <<claims, hand, turns, draining, rowLock, regLock, breaks, deaths, requeues, stolen>>

At_(w, place) == hand[w].at = place

(* tick: count the backoff down; drain only once it is over.  A turn that  *)
(* counts nothing and finds nothing queued is left out: it changes nothing. *)
tick(w) ==
    LET left == IF turns[w] > 0 THEN turns[w] - 1 ELSE 0
    IN  /\ At_(w, "idle") /\ ~draining[w]
        /\ turns' = [turns EXCEPT ![w] = left]
        /\ draining' = [draining EXCEPT ![w] = (left = 0)]
        /\ \/ left # turns[w] \/ \E s \in Submissions : table[s].state = "queued"
        /\ UNCHANGED <<table, claims, hand, rowLock, regLock, breaks, deaths, requeues, stolen>>

Claimable == {s \in Submissions : table[s].state = "queued" /\ rowLock[s] = Unheld}

(* claim_next: the oldest queued row that no transaction holds; the worker *)
(* keeps a detached copy of it.                                            *)
claim_next(w) ==
    /\ draining[w] /\ At_(w, "idle")
    /\ \E s \in Claimable :
          /\ \A t \in Claimable : s <= t
          /\ table' = [table EXCEPT ![s] = [state |-> "verifying", attempts |-> @.attempts + 1]]
          /\ hand' = [hand EXCEPT ![w] =
                        [at |-> "gate", sub |-> s, attempts |-> table[s].attempts + 1]]
    /\ UNCHANGED <<claims, turns, draining, rowLock, regLock, breaks, deaths, requeues, stolen>>

(* claim_next finds nothing: drain returns.                                *)
nothing_queued(w) ==
    /\ draining[w] /\ At_(w, "idle") /\ Claimable = {}
    /\ draining' = [draining EXCEPT ![w] = FALSE]
    /\ UNCHANGED <<table, claims, hand, turns, rowLock, regLock, breaks, deaths, requeues, stolen>>

(* runner.run: what the gate's exit code, its results file and the         *)
(* deadline come to.  A run over its deadline is a rejection; exit code 0  *)
(* without a complete set of measurements is not an acceptance.            *)
run_gate(w) ==
    /\ At_(w, "gate") /\ hand[w].sub \notin Hollow
    /\ \E v \in Verdicts :
          /\ v \in {"unmeasured", "broken"} => breaks < MaxBreaks
          /\ breaks' = IF v \in {"unmeasured", "broken"} THEN breaks + 1 ELSE breaks
          /\ hand' = [hand EXCEPT ![w] = [@ EXCEPT !.at = v]]
    /\ UNCHANGED <<table, claims, turns, draining, rowLock, regLock, deaths, requeues, stolen>>

(* An exception leaves verify_one and drain; run_forever logs it and goes  *)
(* on with its next turn.  The row stays as it is.                         *)
Raised(w) ==
    /\ hand' = [hand EXCEPT ![w] = AtRest]
    /\ draining' = [draining EXCEPT ![w] = FALSE]

(* GateBroken: the gate could not be started at all.                       *)
gate_cannot_run(w) ==
    /\ At_(w, "gate") /\ hand[w].sub \notin Hollow /\ breaks < MaxBreaks
    /\ breaks' = breaks + 1
    /\ Raised(w)
    /\ UNCHANGED <<table, claims, turns, rowLock, regLock, deaths, requeues, stolen>>

Set(s, state) == table' = [table EXCEPT ![s].state = state]

(* abandon: terminal error, whatever the row's state is by then.           *)
abandon(w) ==
    LET s == hand[w].sub
    IN  /\ \/ At_(w, "gate") /\ s \in Hollow
           \/ At_(w, "broken") /\ hand[w].attempts >= max_attempts
           \/ At_(w, "unmeasured") /\ hand[w].attempts >= max_attempts
        /\ rowLock[s] = Unheld
        /\ Set(s, "error")
        /\ turns' = IF At_(w, "gate") THEN turns ELSE [turns EXCEPT ![w] = BackoffTurns]
        /\ hand' = [hand EXCEPT ![w] = AtRest]
        /\ draining' = IF At_(w, "gate") THEN [draining EXCEPT ![w] = FALSE] ELSE draining
        /\ UNCHANGED <<claims, rowLock, regLock, breaks, deaths, requeues, stolen>>

(* _gate_failed below the cap: requeue by id, and back off.                *)
_gate_failed(w) ==
    LET s == hand[w].sub
    IN  /\ At_(w, "broken") \/ At_(w, "unmeasured")
        /\ hand[w].attempts < max_attempts
        /\ rowLock[s] = Unheld
        /\ Set(s, "queued")
        /\ turns' = [turns EXCEPT ![w] = BackoffTurns]
        /\ Raised(w)
        /\ UNCHANGED <<claims, rowLock, regLock, breaks, deaths, requeues, stolen>>

(* finish with a rejection: the row is written whoever holds it now.       *)
finish_rejected(w) ==
    /\ At_(w, "rejected") /\ rowLock[hand[w].sub] = Unheld
    /\ Set(hand[w].sub, "rejected")
    /\ hand' = [hand EXCEPT ![w] = AtRest]
    /\ UNCHANGED <<claims, turns, draining, rowLock, regLock, breaks, deaths, requeues, stolen>>

Spent == {c[1] : c \in claims}
Unclaimed(hotkey) == {r \in Registrations : RegisteredTo[r] = hotkey} \ Spent

(* finish with an acceptance, first step: lock the row and take the        *)
(* statement's snapshot of the unclaimed registrations.                    *)
finish_accepted(w) ==
    LET s == hand[w].sub
    IN  /\ At_(w, "accepted") /\ rowLock[s] = Unheld
        /\ rowLock' = [rowLock EXCEPT ![s] = w]
        /\ hand' = [hand EXCEPT ![w] =
                      [at |-> "choosing", sub |-> s, attempts |-> @.attempts,
                       seen |-> Unclaimed(HotkeyOf[s])]]
        /\ UNCHANGED <<table, claims, turns, draining, regLock, breaks, deaths, requeues, stolen>>

ReleaseRow(w) ==
    /\ rowLock' = [s \in Submissions |-> IF rowLock[s] = w THEN Unheld ELSE rowLock[s]]
    /\ regLock' = [r \in Registrations |-> IF regLock[r] = w THEN Unheld ELSE regLock[r]]

Lockable(w) == {r \in hand[w].seen : regLock[r] = Unheld}

(* claim_slot: lock the oldest registration of the snapshot that no other  *)
(* transaction holds (FOR UPDATE SKIP LOCKED).                             *)
claim_slot(w) ==
    /\ At_(w, "choosing")
    /\ \E r \in Lockable(w) :
          /\ \A q \in Lockable(w) : r <= q
          /\ regLock' = [regLock EXCEPT ![r] = w]
          /\ hand' = [hand EXCEPT ![w] =
                        [at |-> "charging", sub |-> @.sub, attempts |-> @.attempts, reg |-> r]]
    /\ UNCHANGED <<table, claims, turns, draining, rowLock, breaks, deaths, requeues, stolen>>

(* NoSlot: nothing to lock, so the accepted submission is rejected.        *)
no_slot(w) ==
    /\ At_(w, "choosing") /\ Lockable(w) = {}
    /\ Set(hand[w].sub, "rejected")
    /\ hand' = [hand EXCEPT ![w] = AtRest]
    /\ ReleaseRow(w)
    /\ UNCHANGED <<claims, turns, draining, breaks, deaths, requeues, stolen>>

(* The keys of entitlement_claims: a registration is claimed once and a    *)
(* submission claims once.                                                 *)
ClaimFits(r, s) == \A c \in claims : c[1] # r /\ c[2] # s

(* The claim is inserted, the row marked accepted, and both committed; an  *)
(* insert that breaks a key raises and the transaction rolls back.         *)
charge(w) ==
    LET s == hand[w].sub
        r == hand[w].reg
    IN  /\ At_(w, "charging")
        /\ ReleaseRow(w)
        /\ \/ /\ ClaimFits(r, s)
              /\ claims' = claims \cup {<<r, s>>}
              /\ Set(s, "accepted")
              /\ hand' = [hand EXCEPT ![w] = AtRest]
              /\ UNCHANGED draining
           \/ /\ ~ClaimFits(r, s)
              /\ Raised(w)
              /\ UNCHANGED <<claims, table>>
        /\ UNCHANGED <<turns, breaks, deaths, requeues, stolen>>

HeldBy(s) == {w \in Runners : ~At_(w, "idle") /\ hand[w].sub = s}

(* A cutoff below the gate's own deadline.                                 *)
requeue_too_soon ==
    /\ \E s \in Submissions :
          table[s].state = "verifying" /\ rowLock[s] = Unheld /\ Set(s, "queued")
    /\ UNCHANGED <<claims, hand, turns, draining, rowLock, regLock, breaks, deaths, requeues, stolen>>

(* A sweep that looks for the wrong state.                                 *)
requeue_errors ==
    /\ \E s \in Submissions : table[s].state = "error" /\ Set(s, "queued")
    /\ UNCHANGED <<claims, hand, turns, draining, rowLock, regLock, breaks, deaths, requeues, stolen>>

(* requeue_stale: rows of workers that died or raised.  A worker still at  *)
(* work is younger than the cutoff (7200 s) because the gate's own         *)
(* deadline (2700 s) is below it.                                          *)
requeue_stale ==
    /\ \E S \in SUBSET {s \in Submissions : /\ table[s].state = "verifying" /\ HeldBy(s) = {}} :
          /\ S # {}
          /\ table' = [s \in Submissions |-> IF s \in S THEN [table[s] EXCEPT !.state = "queued"] ELSE table[s]]
    /\ UNCHANGED <<claims, hand, turns, draining, rowLock, regLock, breaks, deaths, requeues, stolen>>

(* The operator's requeue: from error or from any verifying row, with the  *)
(* attempts counted anew.                                                  *)
requeue_submission(s) ==
    /\ requeues < MaxRequeues
    /\ table[s].state \in {"error", "verifying"} /\ rowLock[s] = Unheld
    /\ table' = [table EXCEPT ![s] = [state |-> "queued", attempts |-> 0]]
    /\ requeues' = requeues + 1
    /\ stolen' = (stolen \/ HeldBy(s) # {})
    /\ UNCHANGED <<claims, hand, turns, draining, rowLock, regLock, breaks, deaths>>

(* A worker process dies: its transaction rolls back, and it starts again  *)
(* with nothing in hand and no backoff.                                    *)
WorkerDies(w) ==
    /\ ~At_(w, "idle") /\ deaths < MaxDeaths
    /\ deaths' = deaths + 1
    /\ Raised(w) /\ ReleaseRow(w)
    /\ turns' = [turns EXCEPT ![w] = 0]
    /\ UNCHANGED <<table, claims, breaks, requeues, stolen>>

verify_one(w) ==
    \/ run_gate(w) \/ gate_cannot_run(w) \/ abandon(w) \/ _gate_failed(w)
    \/ finish_rejected(w) \/ finish_accepted(w) \/ claim_slot(w) \/ no_slot(w) \/ charge(w)

drain_queue(w) == claim_next(w) \/ nothing_queued(w) \/ verify_one(w)

run_forever == requeue_stale \/ \E w \in Runners : tick(w) \/ drain_queue(w)

CompetitionNext ==
    \/ run_forever
    \/ \E s \in Submissions : add(s) \/ requeue_submission(s)
    \/ \E w \in Runners : WorkerDies(w)

CompetitionSpec == CompetitionInit /\ [][CompetitionNext]_competitionVars /\ WF_competitionVars(run_forever)

-----------------------------------------------------------------------------
CompetitionTypeOK ==
    /\ \A s \in Submissions :
          /\ table[s].state \in {Absent, "queued", "verifying", "accepted", "rejected", "error"}
          /\ table[s].attempts \in Nat
    /\ claims \subseteq Registrations \X Submissions
    /\ turns \in [Runners -> 0 .. BackoffTurns]

(* A registration buys one accepted submission, and a submission is        *)
(* charged once: also when two workers judge two submissions of one hotkey *)
(* at once, or the same submission twice.  It rests on the two keys of     *)
(* entitlement_claims: the snapshot claim_slot reads may be stale.         *)
ChargedOnce == \A c, d \in claims : c[1] = d[1] \/ c[2] = d[2] => c = d

(* Nothing is accepted for free, or paid with another hotkey's             *)
(* registration.                                                           *)
AcceptedIsCharged ==
    /\ \A s \in Submissions : table[s].state = "accepted" => \E c \in claims : c[2] = s
    /\ \A c \in claims : RegisteredTo[c[1]] = HotkeyOf[c[2]]

(* "A submission is charged exactly when it is marked accepted or not at   *)
(* all" (SubmissionsDb.finish).  The operator's requeue may take a row     *)
(* from a live worker; both workers then write their verdicts.             *)
ChargedIffAccepted == \A c \in claims : table[c[2]].state = "accepted"

(* The same promise, as long as no claim was taken from a worker at work.  *)
ChargedIffAcceptedUnlessStolen == stolen \/ ChargedIffAccepted

(* The queue empties again and again: a broken gate, a dead worker or a    *)
(* poisonous row delays it and never stops it.  Only a claim taken from a  *)
(* live worker can: a submission accepted twice breaks the key of          *)
(* entitlement_claims on every later attempt, and no attempt counts.       *)
QueueDrains == []<>(stolen \/ \A s \in Submissions : table[s].state \notin Pending)

(* What the runners' verdicts keep: charges and acceptances are two sides  *)
(* of one fact, unless the operator took a claim from a worker at work.    *)
ChargesMatch == CompetitionTypeOK /\ ChargedOnce /\ AcceptedIsCharged /\ ChargedIffAcceptedUnlessStolen
=============================================================================
