------------------------- MODULE CompetitionIntake -------------------------
(***************************************************************************)
(* How a registration on the subnet becomes the right to submit to a       *)
(* competition.  The registration watcher (registration_watcher) copies    *)
(* finalized registrations from the chain into the competition database;   *)
(* three intakes read the rows and admit uploads: DEFLATE                   *)
(* (routers/competitions.py, compression_store.py), FloatLib               *)
(* (routers/floatlib_intake.py) and TorchLean (torchlean_store.py).        *)
(*                                                                         *)
(* Time is the height of the chain: the registration in block b is dated   *)
(* 2b and an upload made while the chain is at height h is dated 2h + 1.   *)
(* A hotkey stands for its pair of hotkey and owning coldkey.              *)
(***************************************************************************)
EXTENDS Integers, FiniteSets

CONSTANTS Uids, Miners, Digests,
          Calls,        \* requests to the intakes in the order they arrive: naturals
          RegistrationWatchers,     \* watcher processes
          Cutoff,       \* floatlib_registration_cutoff, torchlean_registration_cutoff
          MaxHeight,    \* bound: blocks of the chain
          MaxFaults     \* bound: reads of the chain or of DEFLATE's database that fail

ASSUME IntakeAssumption == Cutoff \in Int /\ MaxHeight \in Nat /\ MaxFaults \in Nat

VARIABLES height,       \* the finalized head
          holder,       \* holder[u]: who holds uid u on the chain, since which block
          rows,         \* the registrations table
          watcher,      \* watcher[w]: its pass
          last_block,   \* last_block[w]: the head of its last finished pass
          uploads,      \* DEFLATE's submissions
          spent,        \* DEFLATE's entitlement_claims: registrations taken
          floats,       \* FloatLib's submissions
          torches,      \* TorchLean's submissions
          call,         \* call[c]: the request c and where it is
          open,         \* which intake is enabled
          faults,
          raced         \* history: a slot was spent between the two reads of may_queue

chainVars == <<height, holder>>
intakeAll == <<height, holder, rows, watcher, last_block, uploads, spent, floats, torches, call,
               open, faults, raced>>

Vacant == [hot |-> "nobody", block |-> 0]
Waiting == [at |-> "start"]

IntakeInit ==
    /\ height = 0
    /\ holder = [u \in Uids |-> Vacant]
    /\ rows = {}
    /\ watcher = [w \in RegistrationWatchers |-> Waiting]
    /\ last_block = [w \in RegistrationWatchers |-> -1]
    /\ uploads = {} /\ spent = {} /\ floats = {} /\ torches = {}
    /\ call = [c \in Calls |-> Waiting]
    /\ open = "deflate"
    /\ faults = 0 /\ raced = FALSE

Now == 2 * height + 1
Dated(row) == 2 * row.block

-----------------------------------------------------------------------------
(* The chain finalizes a block in which h registers to uid u.  A hotkey    *)
(* holds one uid at a time.                                                *)
Register(u, h) ==
    /\ height < MaxHeight
    /\ \A v \in Uids : holder[v].hot # h
    /\ height' = height + 1
    /\ holder' = [holder EXCEPT ![u] = [hot |-> h, block |-> height + 1]]
    /\ UNCHANGED <<rows, watcher, last_block, uploads, spent, floats, torches, call, open, faults, raced>>

(* The last recorded holder of a uid: the row with the highest block.      *)
latest_keys(u) ==
    LET mine == {r \in rows : r.uid = u}
    IN  IF mine = {} THEN "nobody"
        ELSE (CHOOSE r \in mine : \A q \in mine : q.block <= r.block).hot

(* The rows a snapshot adds: one per uid whose keys moved, dated by the    *)
(* registration's own block.                                               *)
changed_rows(snapshot) ==
    {[uid |-> u, hot |-> snapshot.keys[u].hot, block |-> snapshot.keys[u].block] :
        u \in {v \in Uids : snapshot.keys[v] # Vacant /\ latest_keys(v) # snapshot.keys[v].hot}}

(* step, up to the snapshot: the head, the neurons at that head, and the   *)
(* times of the blocks the table lacks.                                    *)
read_snapshot(w) ==
    /\ watcher[w].at = "start" /\ height > last_block[w]
    /\ LET snapshot == [head |-> height, keys |-> holder]
       IN  watcher' = [watcher EXCEPT ![w] =
              [at |-> "read", head |-> height, keys |-> holder,
               times |-> {r.block : r \in changed_rows(snapshot)}]]
    /\ UNCHANGED <<height, holder, rows, last_block, uploads, spent, floats, torches, call, open, faults, raced>>

RecordedRegistration(new) ==
    {r \in new : \A q \in rows : <<q.uid, q.block>> # <<r.uid, r.block>>}

(* publish_snapshot: compare with the table again, inside the transaction; *)
(* a row whose time was not fetched raises and the pass starts over.  Only *)
(* then does last_block advance.                                           *)
publish_snapshot(w) ==
    LET new == changed_rows(watcher[w])
        known == {r.block : r \in new} \subseteq watcher[w].times
    IN  /\ watcher[w].at = "read"
        /\ rows' = IF known THEN rows \cup RecordedRegistration(new) ELSE rows
        /\ last_block' = IF known THEN [last_block EXCEPT ![w] = watcher[w].head] ELSE last_block
        /\ watcher' = [watcher EXCEPT ![w] = Waiting]
        /\ UNCHANGED <<height, holder, uploads, spent, floats, torches, call, open, faults, raced>>

(* A pass fails: the archive or the database did not answer.  run_forever  *)
(* logs it and waits for the next poll.                                    *)
pass_fails(w) ==
    /\ watcher[w].at = "read" /\ faults < MaxFaults
    /\ faults' = faults + 1
    /\ watcher' = [watcher EXCEPT ![w] = Waiting]
    /\ UNCHANGED <<height, holder, rows, last_block, uploads, spent, floats, torches, call, open, raced>>

step(w) == read_snapshot(w) \/ publish_snapshot(w)

-----------------------------------------------------------------------------
Of(h) == {r \in rows : r.hot = h}
Latest(h) == CHOOSE r \in Of(h) : \A q \in Of(h) : q.block <= r.block
Unspent(h) == Of(h) \ {p[1] : p \in spent}
InQueue(h) == {s \in uploads : s.hot = h /\ s.state = "pending"}
LiveRows(c) == call[c].at \notin {"start", "end"}
Arrives(c) == call[c].at = "start" /\ \A d \in Calls : d < c => call[d].at # "start"

(* No advisory lock.                                                       *)
lock_nothing(c, h) == TRUE

(* The advisory lock: per hotkey for DEFLATE and FloatLib, one for all of  *)
(* TorchLean; held until the transaction ends.                             *)
lock_hotkey(c, h) == \A d \in Calls : LiveRows(d) => call[d].hot # h /\ open # "torchlean"

RequestEnds(c) == call' = [call EXCEPT ![c] = [at |-> "end"]]
NoChange == UNCHANGED <<height, holder, rows, watcher, last_block>>

(* _queue of DEFLATE up to the first read of may_queue: the same files are *)
(* the same submission; a hotkey never registered is refused.              *)
begin_queue(c, h, d) ==
    /\ Arrives(c) /\ open = "deflate" /\ lock_hotkey(c, h)
    /\ IF (\E s \in uploads : s.hot = h /\ s.digest = d) \/ Of(h) = {}
       THEN RequestEnds(c)
       ELSE call' = [call EXCEPT ![c] =
                       [at |-> "slots", hot |-> h, digest |-> d, slots |-> Cardinality(Unspent(h))]]
    /\ NoChange /\ UNCHANGED <<uploads, spent, floats, torches, open, faults, raced>>

(* may_queue's second read, the insert and the commit.                     *)
_queue(c) ==
    LET h == call[c].hot
    IN  /\ call[c].at = "slots"
        /\ uploads' = IF Cardinality(InQueue(h)) < call[c].slots
                      THEN uploads \cup {[hot |-> h, digest |-> call[c].digest,
                                          state |-> "pending", at |-> Now]}
                      ELSE uploads
        /\ RequestEnds(c)
        /\ NoChange /\ UNCHANGED <<spent, floats, torches, open, faults, raced>>

(* The competition's own verifier rejects a submission, or accepts it and  *)
(* spends the oldest unspent registration; without one it is rejected.     *)
Judge(s) ==
    /\ s.state = "pending"
    /\ \/ /\ uploads' = (uploads \ {s}) \cup {[s EXCEPT !.state = "rejected"]}
          /\ UNCHANGED <<spent, raced>>
       \/ /\ Unspent(s.hot) # {}
          /\ \E r \in Unspent(s.hot) :
                /\ \A q \in Unspent(s.hot) : r.block <= q.block
                /\ spent' = spent \cup {<<r, s.digest>>}
          /\ uploads' = (uploads \ {s}) \cup {[s EXCEPT !.state = "accepted"]}
          /\ raced' = (raced \/ \E c \in Calls : call[c].at = "slots" /\ call[c].hot = s.hot)
    /\ NoChange /\ UNCHANGED <<floats, torches, call, open, faults>>

(* DEFLATE is closed and another intake opened: a redeployment, so no      *)
(* request survives it.                                                    *)
SwitchIntake(to) ==
    /\ open = "deflate" /\ to \in {"floatlib", "torchlean"}
    /\ open' = to
    /\ call' = [c \in Calls |-> IF LiveRows(c) THEN [at |-> "end"] ELSE call[c]]
    /\ NoChange /\ UNCHANGED <<uploads, spent, floats, torches, faults, raced>>

(* FloatLib's enqueue up to the check of eligibility.                      *)
begin_enqueue(c, h, d) ==
    LET used == \E s \in floats : s.hot = h /\ s.at >= Dated(Latest(h))
    IN  /\ Arrives(c) /\ open = "floatlib" /\ lock_hotkey(c, h)
        /\ IF (\E s \in floats : s.hot = h /\ s.digest = d) \/ Of(h) = {} \/ used
           THEN RequestEnds(c)
           ELSE call' = [call EXCEPT ![c] =
                           [at |-> "eligible", hot |-> h, digest |-> d, reg |-> Latest(h)]]
        /\ NoChange /\ UNCHANGED <<uploads, spent, floats, torches, open, faults, raced>>

used_in_deflate(h, row) == \E s \in uploads : s.hot = h /\ s.at >= Dated(row)

(* eligible: not used in DEFLATE since the registration; when its database *)
(* does not answer within the timeout, the cutoff decides instead.         *)
eligible(c) ==
    LET row == call[c].reg
    IN  /\ call[c].at = "eligible"
        /\ \/ /\ IF used_in_deflate(call[c].hot, row)
                 THEN RequestEnds(c)
                 ELSE call' = [call EXCEPT ![c] = [at |-> "insert", hot |-> @.hot,
                                 digest |-> @.digest, reg |-> @.reg, by |-> "check"]]
              /\ UNCHANGED faults
           \/ /\ faults < MaxFaults /\ faults' = faults + 1
              /\ IF Dated(row) <= Cutoff
                 THEN RequestEnds(c)
                 ELSE call' = [call EXCEPT ![c] = [at |-> "insert", hot |-> @.hot,
                                 digest |-> @.digest, reg |-> @.reg, by |-> "cutoff"]]
        /\ NoChange /\ UNCHANGED <<uploads, spent, floats, torches, open, raced>>

(* The insert and the commit of FloatLib's enqueue.                        *)
enqueue(c) ==
    /\ call[c].at = "insert" /\ open = "floatlib"
    /\ floats' = floats \cup {[hot |-> call[c].hot, digest |-> call[c].digest, at |-> Now,
                               reg |-> call[c].reg, by |-> call[c].by]}
    /\ RequestEnds(c)
    /\ NoChange /\ UNCHANGED <<uploads, spent, torches, open, faults, raced>>

(* TorchLean's enqueue up to the insert: the hotkey's latest registration  *)
(* must still be the latest of its uid, after the cutoff and unused.       *)
begin_torchlean(c, h, d) ==
    LET row == Latest(h)
        refused == \/ \E s \in torches : s.hot = h /\ s.digest = d
                   \/ Of(h) = {}
                   \/ \E r \in rows : r.uid = row.uid /\ r.block > row.block
                   \/ Dated(row) <= Cutoff
                   \/ \E s \in torches : s.reg = row
    IN  /\ Arrives(c) /\ open = "torchlean" /\ lock_hotkey(c, h)
        /\ IF refused
           THEN RequestEnds(c)
           ELSE call' = [call EXCEPT ![c] =
                           [at |-> "insert", hot |-> h, digest |-> d, reg |-> row]]
        /\ NoChange /\ UNCHANGED <<uploads, spent, floats, torches, open, faults, raced>>

(* The insert: a second submission of a registration breaks its key.       *)
torchlean_enqueue(c) ==
    /\ call[c].at = "insert" /\ open = "torchlean"
    /\ torches' = IF \E s \in torches : s.reg = call[c].reg THEN torches
                  ELSE torches \cup {[hot |-> call[c].hot, digest |-> call[c].digest,
                                      reg |-> call[c].reg]}
    /\ RequestEnds(c)
    /\ NoChange /\ UNCHANGED <<uploads, spent, floats, open, faults, raced>>

Handle(c) ==
    \/ \E h \in Miners, d \in Digests :
          begin_queue(c, h, d) \/ begin_enqueue(c, h, d) \/ begin_torchlean(c, h, d)
    \/ _queue(c) \/ eligible(c) \/ enqueue(c) \/ torchlean_enqueue(c)

IntakeNext ==
    \/ \E u \in Uids, h \in Miners : Register(u, h)
    \/ \E w \in RegistrationWatchers : step(w) \/ pass_fails(w)
    \/ \E c \in Calls : Handle(c)
    \/ \E s \in uploads : Judge(s)
    \/ \E to \in {"floatlib", "torchlean"} : SwitchIntake(to)

IntakeSpec ==
    /\ IntakeInit /\ [][IntakeNext]_intakeAll
    /\ WF_intakeAll(\E w \in RegistrationWatchers : step(w))

-----------------------------------------------------------------------------
(* The table holds at most one row per registration event, in any order of *)
(* two watchers: a row's hotkey held that uid from that block, so two rows *)
(* of one block are of one event.                                          *)
RowsAreRegistrations ==
    /\ \A r, q \in rows : r.block = q.block => r = q
    /\ \A u \in Uids : \A r \in rows :
          r.uid = u /\ r.block >= holder[u].block => r.block = holder[u].block /\ r.hot = holder[u].hot

(* "A miner may not queue more work than they can pay for": the pending    *)
(* uploads of a hotkey never outnumber its unspent registrations.  The two *)
(* counts of may_queue are separate statements; an acceptance between them *)
(* lets one upload too many in.                                            *)
PendingIsCovered ==
    \A h \in Miners : Cardinality(InQueue(h)) <= Cardinality(Unspent(h))
PendingIsCoveredUnlessRaced == raced \/ PendingIsCovered

(* A registration admits one FloatLib upload and one TorchLean upload,     *)
(* whatever requests race and whatever the watcher records meanwhile.      *)
RegistrationAdmitsOnce ==
    /\ \A s, t \in floats : s.reg = t.reg => s = t
    /\ \A s, t \in torches : s.reg = t.reg => s = t

(* A registration admitted to FloatLib on the strength of the check has no *)
(* DEFLATE upload of any state since it was made.                          *)
CheckedWasUnused ==
    \A s \in floats : s.by = "check" =>
        \A t \in uploads : t.hot = s.hot => t.at < Dated(s.reg)

(* The watcher catches up: again and again the table's last holder of each *)
(* uid is the chain's.                                                     *)
WatcherCatchesUp ==
    []<>(\A u \in Uids : holder[u] # Vacant => latest_keys(u) = holder[u].hot)

(* What a registration keeps while requests and the watcher race: it is    *)
(* one row of the table, and it is spent once in each competition.         *)
RegistrationsAreSpentOnce ==
    RowsAreRegistrations /\ PendingIsCoveredUnlessRaced /\ RegistrationAdmitsOnce /\ CheckedWasUnused
=============================================================================
