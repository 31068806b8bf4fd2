------------------------------- MODULE Chain -------------------------------
(***************************************************************************)
(* The Subtensor chain as the watchers see it through                      *)
(* conjectures_subnet/transfers.py: a best chain whose unfinalized tail    *)
(* may be replaced, and a finalized prefix that never changes.  It is not  *)
(* this repository's code; it is modelled from how the watchers use it.    *)
(*                                                                         *)
(* A block carries the treasury's transfers.  A transfer is named by its   *)
(* POSITION (block height and place in the block), as the code's           *)
(* `block-extrinsic-event` reference does, so a replaced block can give an *)
(* old reference a new meaning.                                            *)
(***************************************************************************)
EXTENDS Integers, Sequences

CONSTANTS
    Transfers,     \* transfers somebody may sign; each is executed at most once
    MaxHeight,     \* bound: blocks the chain may have
    MaxPerBlock,   \* bound: transfers in one block
    MaxNow         \* bound: blocks ever produced, replaced ones included

ASSUME ChainConstants ==
    MaxHeight \in Nat /\ MaxPerBlock \in Nat /\ MaxNow \in Nat

VARIABLES
    best,   \* the best chain: a sequence of blocks [at: timestamp, pays: transfers]
    fin,    \* height of the finalized head
    now     \* wall clock, one tick per block produced

chainVars == <<best, fin, now>>

Heights == 1..MaxHeight
Refs == Heights \X (1..MaxPerBlock)
Blocks == [at : 0..MaxNow, pays : UNION {[1..k -> Transfers] : k \in 0..MaxPerBlock}]

ChainTypeOK ==
    /\ best \in Seq(Blocks) /\ Len(best) <= MaxHeight
    /\ fin \in 0..Len(best)
    /\ now \in 0..MaxNow

ChainInit == best = <<>> /\ fin = 0 /\ now = 0

OnChain(t) == \E n \in 1..Len(best) : \E i \in 1..Len(best[n].pays) : best[n].pays[i] = t

\* A block is produced; what it carries was not on the chain before.
NewBlock ==
    /\ Len(best) < MaxHeight /\ now < MaxNow
    /\ \E k \in 0..MaxPerBlock : \E pays \in [1..k -> {t \in Transfers : ~OnChain(t)}] :
         /\ \A i, j \in 1..k : pays[i] = pays[j] => i = j
         /\ best' = Append(best, [at |-> now + 1, pays |-> pays])
    /\ now' = now + 1
    /\ UNCHANGED fin

\* Blocks above the finalized head are abandoned.
Reorg ==
    /\ \E n \in fin..(Len(best) - 1) : best' = SubSeq(best, 1, n)
    /\ UNCHANGED <<fin, now>>

Finalize ==
    /\ fin < Len(best)
    /\ fin' = fin + 1
    /\ UNCHANGED <<best, now>>

Extant(r) == r[1] \in 1..Len(best) /\ r[2] \in 1..Len(best[r[1]].pays)
Finalized(r) == Extant(r) /\ r[1] <= fin
TransferAt(r) == best[r[1]].pays[r[2]]
TimeAt(r) == best[r[1]].at
============================================================================
