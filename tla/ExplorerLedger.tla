---------------------------- MODULE ExplorerLedger ----------------------------
(***************************************************************************)
(* What the explorer promises of the mapping storage it serves: it follows *)
(* the chain.  Consensus appends blocks, each with the ledger state after   *)
(* it; the explorer's committed storage moves from the state after one      *)
(* block to the state after the next, one block at a time, and is never   *)
(* anything else.  How it gets there (caches, replay, validation, cursor,  *)
(* retries) is left out: FinalizeBlock is shown to implement this module.  *)
(***************************************************************************)
EXTENDS Naturals, Sequences

CONSTANTS
    States,     \* the states of the mapping storage
    Genesis     \* the state before the first block

VARIABLES
    chain,      \* the ledger state after each sealed block
    done,       \* the number of blocks the explorer has committed
    store       \* the explorer's committed storage

vars == <<chain, done, store>>

Init ==
    /\ chain = <<>>
    /\ done = 0
    /\ store = Genesis

(* Consensus seals the next block.                                         *)
Seal ==
    /\ \E s \in States : chain' = Append(chain, s)
    /\ UNCHANGED <<done, store>>

(* The explorer commits the next block: its storage becomes the ledger     *)
(* state after that block.                                                 *)
Follow ==
    /\ done < Len(chain)
    /\ done' = done + 1
    /\ store' = chain[done + 1]
    /\ UNCHANGED chain

Next == Seal \/ Follow

Spec == Init /\ [][Next]_vars
=============================================================================
