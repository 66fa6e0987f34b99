---------------------------- MODULE LedgerProofs ----------------------------
(***************************************************************************)
(* FinalizeBlock implements ExplorerLedger, for every value of the          *)
(* constants: whatever faults, rollbacks, restarts and concurrent cache     *)
(* fills happen, the explorer's committed storage is the ledger state      *)
(* after the blocks it has committed, and it moves one block at a time.    *)
(*                                                                         *)
(* The argument: consensus records, for every confirmed transaction, the   *)
(* operations it agreed on and the state they lead to (ChainWF,            *)
(* PendingWF).  finalize_block applies operations through the cursor only  *)
(* after checking them one by one against those expected operations, so   *)
(* the cursor is always the consensus state after the validated prefix of  *)
(* the block (CursorInv), and committing it at the end of a block commits  *)
(* the block's post-state.                                                 *)
(***************************************************************************)
EXTENDS FinalizeBlockProofs

(* The state confirmed transaction j of block i starts from.               *)
TxPre(i, j) == IF j = 1 THEN LedgerAt(i - 1) ELSE blocks[i].txs[j - 1].post

(* Every sealed block is non-empty, each of its transactions leads from    *)
(* the state before it to its post-state by its expected operations, and  *)
(* the block's post-state is that of its last transaction.                 *)
ChainWF ==
    \A i \in 1..Len(blocks) :
        /\ blocks[i].txs # <<>>
        /\ blocks[i].post = blocks[i].txs[Len(blocks[i].txs)].post
        /\ \A j \in 1..Len(blocks[i].txs) :
               blocks[i].txs[j].post
                 = ExecuteOperations(TxPre(i, j), blocks[i].txs[j].expected)

(* The same for the block consensus is building, and the ledger is the     *)
(* post-state of its last transaction.                                     *)
PendingPre(j) == IF j = 1 THEN SealedState ELSE pending[j - 1].post

PendingWF ==
    /\ \A j \in 1..Len(pending) :
           pending[j].post = ExecuteOperations(PendingPre(j), pending[j].expected)
    /\ ledger = IF pending = <<>> THEN SealedState ELSE pending[Len(pending)].post

(* Committed storage is the ledger after the committed blocks, and the     *)
(* cursor the ledger after the transactions of the current block that      *)
(* have been validated.                                                    *)
CursorInv ==
    /\ storage = LedgerAt(height)
    /\ height < Len(blocks) => txi \in 1..Len(blocks[height + 1].txs) + 1
    /\ height = Len(blocks) => txi = 1
    /\ cursor = ExpectedPrefix

LedgerInv == ChainWF /\ PendingWF /\ CursorInv

LInv == IInv /\ LedgerInv

-----------------------------------------------------------------------------
(* Lemmas about the operators.                                             *)

(* Two operations that pass the pairwise checks of finalize_block are the  *)
(* same operation.                                                         *)
LEMMA OpMatchesEq ==
    ASSUME NEW e \in Op, NEW o \in Op, OpMatches(e, o)
    PROVE  e = o
<1>1. CASE e.type = "Init"
  <2>1. e \in InitOp /\ o \in InitOp
    BY <1>1 DEF OpMatches, Op, InitOp, UpdateOp
  <2>2. e = [type |-> e.type, m |-> e.m] /\ o = [type |-> o.type, m |-> o.m]
    BY <2>1 DEF InitOp
  <2> QED
    BY <2>2 DEF OpMatches
<1>2. CASE e.type = "Update"
  <2>1. e \in UpdateOp /\ o \in UpdateOp
    BY <1>2 DEF OpMatches, Op, InitOp, UpdateOp
  <2>2. /\ e = [type |-> e.type, m |-> e.m, k |-> e.k, v |-> e.v]
        /\ o = [type |-> o.type, m |-> o.m, k |-> o.k, v |-> o.v]
    BY <2>1 DEF UpdateOp
  <2> QED
    BY <1>2, <2>2 DEF OpMatches
<1> QED
  BY <1>1, <1>2 DEF Op, InitOp, UpdateOp

(* Lists of operations of equal length that match pairwise are equal.      *)
LEMMA MatchedOpsEq ==
    ASSUME NEW e \in Seq(Op), NEW o \in Seq(Op), Len(e) = Len(o),
           \A i \in 1..Len(e) : OpMatches(e[i], o[i])
    PROVE  e = o
<1>1. \A i \in 1..Len(e) : e[i] = o[i]
  BY OpMatchesEq
<1> QED
  BY <1>1

-----------------------------------------------------------------------------
(* The steps that keep the chain, the committed storage and the height.    *)

(* A step that leaves the cursor and the loop index alone, or rolls the    *)
(* cursor back to committed storage and restarts the block (Abort), keeps *)
(* LedgerInv.                                                              *)
LEMMA FrameStep ==
    ASSUME LInv,
           UNCHANGED <<blocks, pending, ledger, storage, height>>,
           \/ UNCHANGED <<cursor, txi>>
           \/ cursor' = storage /\ txi' = 1
    PROVE  LedgerInv'
<1>1. ChainWF' /\ PendingWF'
  BY DEF LInv, LedgerInv, ChainWF, TxPre, LedgerAt, PendingWF, PendingPre, SealedState
<1>2. CursorInv'
  BY DEF LInv, LedgerInv, CursorInv, ExpectedPrefix, LedgerAt, IInv, TypeOK
<1> QED
  BY <1>1, <1>2 DEF LedgerInv

-----------------------------------------------------------------------------
(* Consensus.                                                              *)

(* Appending a transaction that leads from the ledger to its post-state,   *)
(* which becomes the ledger, keeps the pending block well formed.          *)
LEMMA AppendPendingWF ==
    ASSUME NEW t, LInv,
           pending' = Append(pending, t),
           t.post = ExecuteOperations(ledger, t.expected),
           ledger' = t.post,
           blocks' = blocks
    PROVE  PendingWF'
<1>1. pending \in Seq(ConfirmedTx)
  BY DEF LInv, IInv, TypeOK
<1>2. SealedState' = SealedState
  BY DEF SealedState, LedgerAt
<1>3. ASSUME NEW j \in 1..Len(pending')
      PROVE  pending'[j].post = ExecuteOperations(PendingPre(j)', pending'[j].expected)
  <2>1. CASE j \in 1..Len(pending)
    BY <1>1, <1>2, <2>1 DEF LInv, LedgerInv, PendingWF, PendingPre
  <2>2. CASE j = Len(pending) + 1
    <3>1. PendingPre(j)' = ledger
      BY <1>1, <1>2, <2>2 DEF LInv, LedgerInv, PendingWF, PendingPre
    <3> QED
      BY <1>1, <2>2, <3>1
  <2> QED
    BY <1>1, <2>1, <2>2
<1>4. ledger' = IF pending' = <<>> THEN SealedState' ELSE pending'[Len(pending')].post
  BY <1>1
<1> QED
  BY <1>3, <1>4 DEF PendingWF

(* ProduceTx keeps LedgerInv.                                              *)
LEMMA ProduceTxLedger ==
    ASSUME LInv, NEW s \in TxShapes, ProduceTx(s)
    PROVE  LedgerInv'
<1>1. UNCHANGED <<blocks, storage, cursor, height, txi>>
  BY DEF ProduceTx
<1>2. PendingWF'
  <2>1. CASE s.kind = "deploy"
    <3> DEFINE rf == IF s.fee = PrivateFee THEN [ok |-> TRUE, ops |-> <<>>, at |-> 0]
                     ELSE Finalize(ledger, s.fee)
               acc == \A i \in 1..Len(s.maps) : ledger[s.maps[i]] = NotInit
               exp == IF acc THEN rf.ops \o InitOps(s.maps) ELSE rf.ops
               t == [shape |-> s, accepted |-> acc, expected |-> exp,
                     post |-> ExecuteOperations(ledger, exp)]
    <3>1. pending' = Append(pending, t) /\ ledger' = t.post
      BY <2>1 DEF ProduceTx, ProduceDeploy
    <3>2. t.post = ExecuteOperations(ledger, t.expected)
      BY DEF t
    <3>3. blocks' = blocks
      BY <1>1
    <3>4. PICK u : u = t
      OBVIOUS
    <3>5. /\ pending' = Append(pending, u)
          /\ u.post = ExecuteOperations(ledger, u.expected)
          /\ ledger' = u.post
      BY <3>1, <3>2, <3>4
    <3> QED
      BY <3>3, <3>5, AppendPendingWF
  <2>2. CASE s.kind # "deploy"
    <3> DEFINE r1 == IF s.exec = NoFuture THEN [ok |-> TRUE, ops |-> <<>>, at |-> 0]
                     ELSE Finalize(ledger, s.exec)
               mid == WriteOps(ledger, r1.ops)
               r2 == IF s.fee = PrivateFee THEN [ok |-> TRUE, ops |-> <<>>, at |-> 0]
                     ELSE Finalize(mid, s.fee)
               r3 == IF s.fee = PrivateFee THEN [ok |-> TRUE, ops |-> <<>>, at |-> 0]
                     ELSE Finalize(ledger, s.fee)
               acc == r1.ok /\ r2.ok
               exp == IF acc THEN r1.ops \o r2.ops ELSE r3.ops
               t == [shape |-> s, accepted |-> acc, expected |-> exp,
                     post |-> ExecuteOperations(ledger, exp)]
    <3>1. pending' = Append(pending, t) /\ ledger' = t.post
      BY <2>2 DEF ProduceTx, ProduceExecute
    <3>2. t.post = ExecuteOperations(ledger, t.expected)
      BY DEF t
    <3>3. blocks' = blocks
      BY <1>1
    <3>4. PICK u : u = t
      OBVIOUS
    <3>5. /\ pending' = Append(pending, u)
          /\ u.post = ExecuteOperations(ledger, u.expected)
          /\ ledger' = u.post
      BY <3>1, <3>2, <3>4
    <3> QED
      BY <3>3, <3>5, AppendPendingWF
  <2> QED
    BY <2>1, <2>2
<1>3. ChainWF' /\ CursorInv'
  BY <1>1 DEF LInv, LedgerInv, ChainWF, TxPre, LedgerAt, CursorInv, ExpectedPrefix
<1> QED
  BY <1>2, <1>3 DEF LedgerInv

(* SealBlock keeps LedgerInv: the sealed block is the pending one, whose   *)
(* first transaction starts from the state after the previous block.      *)
LEMMA SealBlockLedger ==
    ASSUME LInv, SealBlock
    PROVE  LedgerInv'
<1> DEFINE nb == [txs |-> pending, post |-> ledger]
<1>1. /\ blocks' = Append(blocks, nb)
      /\ pending' = <<>>
      /\ UNCHANGED <<ledger, storage, cursor, height, txi>>
      /\ pending # <<>>
  BY DEF SealBlock
<1>2. /\ blocks \in Seq(Block)
      /\ pending \in Seq(ConfirmedTx)
      /\ height \in 0..Len(blocks)
      /\ txi \in Nat \ {0}
  BY DEF LInv, IInv, TypeOK
<1>3. \A h \in 0..Len(blocks) : LedgerAt(h)' = LedgerAt(h)
  BY <1>1, <1>2 DEF LedgerAt
<1>4. PICK n \in Nat : n = Len(blocks)
  BY <1>2
<1>8. Len(blocks') = n + 1 /\ LedgerAt(n + 1)' = ledger
  BY <1>1, <1>2, <1>4 DEF LedgerAt
<1>5. ChainWF'
  <2> SUFFICES ASSUME NEW i \in 1..Len(blocks')
               PROVE  /\ blocks'[i].txs # <<>>
                      /\ blocks'[i].post = blocks'[i].txs[Len(blocks'[i].txs)].post
                      /\ \A j \in 1..Len(blocks'[i].txs) :
                             blocks'[i].txs[j].post
                               = ExecuteOperations(TxPre(i, j)', blocks'[i].txs[j].expected)
    BY DEF ChainWF
  <2>1. CASE i \in 1..Len(blocks)
    <3>1. blocks'[i] = blocks[i] /\ LedgerAt(i - 1)' = LedgerAt(i - 1)
      BY <1>1, <1>2, <1>3, <2>1
    <3>2. \A j \in 1..Len(blocks[i].txs) : TxPre(i, j)' = TxPre(i, j)
      BY <3>1 DEF TxPre
    <3> QED
      BY <2>1, <3>1, <3>2 DEF LInv, LedgerInv, ChainWF
  <2>2. CASE i = Len(blocks) + 1
    <3>1. blocks'[i] = nb
      BY <1>1, <1>2, <2>2
    <3>2. \A j \in 1..Len(pending) : TxPre(i, j)' = PendingPre(j)
      <4>1. LedgerAt(i - 1)' = SealedState
        BY <1>2, <1>3, <2>2 DEF SealedState
      <4> QED
        BY <1>1, <2>2, <3>1, <4>1 DEF TxPre, PendingPre
    <3>3. ledger = pending[Len(pending)].post
      BY <1>1 DEF LInv, LedgerInv, PendingWF
    <3> QED
      BY <1>1, <3>1, <3>2, <3>3 DEF LInv, LedgerInv, PendingWF
  <2> QED
    BY <1>1, <1>2, <2>1, <2>2
<1>6. PendingWF'
  <2>1. SealedState' = ledger
    BY <1>8 DEF SealedState
  <2> QED
    BY <1>1, <2>1 DEF PendingWF
<1>7. CursorInv'
  <2>1. storage' = LedgerAt(height)'
    BY <1>1, <1>2, <1>3 DEF LInv, LedgerInv, CursorInv
  <2>2. CASE height < Len(blocks)
    <3>1. blocks'[height + 1] = blocks[height + 1]
      BY <1>1, <1>2, <2>2
    <3> QED
      BY <1>1, <1>2, <2>1, <2>2, <3>1 DEF LInv, LedgerInv, CursorInv, ExpectedPrefix
  <2>3. CASE height = Len(blocks)
    <3>1. blocks'[height + 1] = nb /\ txi = 1
      BY <1>1, <1>2, <2>3 DEF LInv, LedgerInv, CursorInv
    <3> QED
      BY <1>1, <1>2, <2>1, <2>3, <3>1 DEF LInv, LedgerInv, CursorInv, ExpectedPrefix
  <2> QED
    BY <1>2, <2>2, <2>3
<1> QED
  BY <1>5, <1>6, <1>7 DEF LedgerInv

-----------------------------------------------------------------------------
(* The explorer.                                                           *)

(* Validate keeps LedgerInv: a mismatch rolls back; operations that pass   *)
(* the length and pairwise checks are the expected ones, so applying them  *)
(* to the cursor gives the transaction's consensus post-state.             *)
LEMMA ValidateLedger ==
    ASSUME LInv, Validate
    PROVE  LedgerInv'
<1> DEFINE e == CurTx.expected
<1>1. TypeOK /\ InBlock
  BY DEF LInv, IInv, Validate
<1>2. UNCHANGED <<blocks, pending, ledger, storage, height>>
  BY DEF Validate, chainVars
<1>3. CASE Abort(cache) \/ Abort(NothingLoaded)
  BY <1>2, <1>3, FrameStep DEF Abort
<1>4. CASE /\ Len(e) = Len(ops)
           /\ \A i \in 1..Len(e) : OpMatches(e[i], ops[i])
           /\ cursor' = ExecuteOperations(cursor, ops)
           /\ txi' = txi + 1
  <2>1. e \in Seq(Op) /\ ops \in Seq(Op)
    BY <1>1, CurTxType DEF ConfirmedTx, TypeOK
  <2>2. ops = e
    BY <1>4, <2>1, MatchedOpsEq
  <2>3. cursor = TxPre(height + 1, txi)
    BY <1>1 DEF LInv, LedgerInv, CursorInv, ExpectedPrefix, TxPre, TypeOK
  <2>4. CurTx.post = ExecuteOperations(TxPre(height + 1, txi), e)
    BY <1>1 DEF LInv, LedgerInv, ChainWF, CurTx, InBlock, TypeOK
  <2>5. cursor' = CurTx.post
    BY <1>4, <2>2, <2>3, <2>4
  <2>6. CursorInv'
    BY <1>1, <1>2, <1>4, <2>5 DEF LInv, LedgerInv, CursorInv, ExpectedPrefix, LedgerAt,
                                  CurTx, InBlock, TypeOK
  <2>7. ChainWF' /\ PendingWF'
    BY <1>2 DEF LInv, LedgerInv, ChainWF, TxPre, LedgerAt, PendingWF, PendingPre,
                SealedState
  <2> QED
    BY <2>6, <2>7 DEF LedgerInv
<1> QED
  BY <1>3, <1>4 DEF Validate

(* CommitBlock keeps LedgerInv: at the end of a block the cursor is the     *)
(* post-state of its last transaction, which is the block's post-state.    *)
LEMMA CommitBlockLedger ==
    ASSUME LInv, CommitBlock
    PROVE  LedgerInv'
<1>1. /\ pc = "next" /\ height < Len(blocks)
      /\ txi > Len(blocks[height + 1].txs)
      /\ storage' = cursor /\ height' = height + 1 /\ txi' = 1
      /\ UNCHANGED <<blocks, pending, ledger, cursor>>
  BY DEF CommitBlock, chainVars
<1>2. TypeOK
  BY DEF LInv, IInv
<1>3. blocks[height + 1].txs # <<>>
      /\ blocks[height + 1].post = blocks[height + 1].txs[Len(blocks[height + 1].txs)].post
  BY <1>1, <1>2 DEF LInv, LedgerInv, ChainWF, TypeOK
<1>4. blocks[height + 1].txs \in Seq(ConfirmedTx)
  <2>1. blocks[height + 1] \in Block
    BY <1>1, <1>2 DEF TypeOK
  <2> QED
    BY <2>1 DEF Block
<1>5. txi = Len(blocks[height + 1].txs) + 1 /\ txi # 1
  BY <1>1, <1>3, <1>4 DEF LInv, LedgerInv, CursorInv
<1>6. cursor = blocks[height + 1].post
  BY <1>3, <1>5 DEF LInv, LedgerInv, CursorInv, ExpectedPrefix
<1>7. CursorInv'
  <2>1. storage' = LedgerAt(height)'
    BY <1>1, <1>2, <1>6 DEF LedgerAt, TypeOK
  <2>2. height' < Len(blocks') => txi' \in 1..Len(blocks'[height' + 1].txs) + 1
    BY <1>1
  <2>3. height' = Len(blocks') => txi' = 1
    BY <1>1
  <2>4. cursor' = ExpectedPrefix'
    BY <1>1, <1>6, <2>1 DEF ExpectedPrefix, LedgerAt
  <2> QED
    BY <2>1, <2>2, <2>3, <2>4 DEF CursorInv
<1>8. ChainWF' /\ PendingWF'
  BY <1>1 DEF LInv, LedgerInv, ChainWF, TxPre, LedgerAt, PendingWF, PendingPre,
              SealedState
<1> QED
  BY <1>7, <1>8 DEF LedgerInv

(* The steps that replay a transaction, the faults and the reader either   *)
(* leave the cursor and the loop index alone or roll the block back.       *)
LEMMA OtherStepsFrame ==
    ASSUME \/ FinalizeDeploy \/ FinalizeExecute \/ DiagnoseReject \/ FinalizeFee
           \/ DbError \/ Restart \/ \E m \in Mappings : GetMappingValue(m)
           \/ MappingCacheReadReturns \/ UNCHANGED vars
    PROVE  /\ UNCHANGED <<blocks, pending, ledger, storage, height>>
           /\ \/ UNCHANGED <<cursor, txi>>
              \/ cursor' = storage /\ txi' = 1
<1>1. CASE FinalizeDeploy
  BY <1>1 DEF FinalizeDeploy, Abort, chainVars
<1>2. CASE FinalizeExecute
  BY <1>2 DEF FinalizeExecute, chainVars
<1>3. CASE DiagnoseReject
  BY <1>3 DEF DiagnoseReject, chainVars
<1>4. CASE FinalizeFee
  BY <1>4 DEF FinalizeFee, Abort, chainVars
<1>5. CASE DbError \/ Restart
  BY <1>5 DEF DbError, Restart, Abort, chainVars
<1>6. CASE \E m \in Mappings : GetMappingValue(m)
  BY <1>6 DEF GetMappingValue, chainVars
<1>7. CASE MappingCacheReadReturns \/ UNCHANGED vars
  BY <1>7 DEF MappingCacheReadReturns, chainVars, vars
<1> QED
  BY <1>1, <1>2, <1>3, <1>4, <1>5, <1>6, <1>7

(* Every step keeps the strengthened invariant.                            *)
LEMMA LInvStep == LInv /\ [Next]_vars => LInv'
<1> SUFFICES ASSUME LInv, [Next]_vars PROVE LInv'
  OBVIOUS
<1>1. IInv'
  BY IInvStep DEF LInv
<1>2. CASE \E s \in TxShapes : ProduceTx(s)
  BY <1>1, <1>2, ProduceTxLedger DEF LInv
<1>3. CASE SealBlock
  BY <1>1, <1>3, SealBlockLedger DEF LInv
<1>4. CASE Validate
  BY <1>1, <1>4, ValidateLedger DEF LInv
<1>5. CASE CommitBlock
  BY <1>1, <1>5, CommitBlockLedger DEF LInv
<1>6. CASE \/ FinalizeDeploy \/ FinalizeExecute \/ DiagnoseReject \/ FinalizeFee
           \/ DbError \/ Restart \/ \E m \in Mappings : GetMappingValue(m)
           \/ MappingCacheReadReturns \/ UNCHANGED vars
  BY <1>1, <1>6, OtherStepsFrame, FrameStep DEF LInv
<1> QED
  BY <1>2, <1>3, <1>4, <1>5, <1>6 DEF Next, Explorer

(* The initial state satisfies the strengthened invariant.                 *)
LEMMA LInvInit == Init => LInv
BY IInvInit DEF Init, LInv, LedgerInv, ChainWF, PendingWF, SealedState, LedgerAt,
                CursorInv, ExpectedPrefix

-----------------------------------------------------------------------------
(* The theorems.                                                           *)

(* The committed storage is always the consensus state after the blocks   *)
(* the explorer finalized, and between transactions the cursor is the      *)
(* consensus state after the validated prefix of the block: no database    *)
(* fault, rollback, retry, stale cache, concurrent get_mapping_value fill  *)
(* or restart gets an operation consensus did not agree on into storage,   *)
(* because finalize_block validates before execute_operations.             *)
THEOREM StoreMatchesLedgerHolds == Spec => []StoreMatchesLedger
<1>1. LInv => StoreMatchesLedger
  BY DEF LInv, LedgerInv, CursorInv, StoreMatchesLedger
<1> QED
  BY LInvInit, LInvStep, <1>1, PTL DEF Spec

(* The ledger the explorer follows: the post-states of the sealed blocks.  *)
Chain == [i \in 1..Len(blocks) |-> blocks[i].post]

(* Every step of FinalizeBlock is a step of ExplorerLedger, or leaves its   *)
(* chain, committed height and committed storage alone.                    *)
LEMMA RefinementStep ==
    ASSUME LInv, LInv', [Next]_vars
    PROVE  [Ledger!Next]_Ledger!vars
<1>1. blocks \in Seq(Block) /\ height \in 0..Len(blocks) /\ ledger \in Store
  BY DEF LInv, IInv, TypeOK
<1>2. CASE SealBlock
  <2>1. blocks' = Append(blocks, [txs |-> pending, post |-> ledger])
        /\ UNCHANGED <<storage, height>>
    BY <1>2 DEF SealBlock
  <2>2. Chain' = Append(Chain, ledger)
    BY <1>1, <2>1 DEF Chain
  <2>3. Ledger!Seal
    BY <1>1, <2>1, <2>2 DEF Ledger!Seal, Chain
  <2> QED
    BY <2>3 DEF Ledger!Next
<1>3. CASE CommitBlock
  <2>1. /\ height < Len(blocks) /\ height' = height + 1
        /\ UNCHANGED blocks
    BY <1>3 DEF CommitBlock, chainVars
  <2>2. storage' = blocks[height + 1].post
    BY <1>1, <2>1 DEF LInv, LedgerInv, CursorInv, LedgerAt
  <2>3. Ledger!Follow
    BY <1>1, <2>1, <2>2 DEF Ledger!Follow, Chain
  <2> QED
    BY <2>3 DEF Ledger!Next
<1>4. CASE ~SealBlock /\ ~CommitBlock
  <2>1. UNCHANGED <<blocks, storage, height>>
    BY <1>4 DEF Next, Explorer, ProduceTx, FinalizeDeploy, FinalizeExecute,
                DiagnoseReject, FinalizeFee, Validate, DbError, Restart,
                GetMappingValue, MappingCacheReadReturns, vars, chainVars
  <2> QED
    BY <2>1 DEF Ledger!vars
<1> QED
  BY <1>2, <1>3, <1>4

(* FinalizeBlock implements ExplorerLedger: the explorer's committed        *)
(* storage starts at the genesis state and only ever moves from the ledger *)
(* state after one block to the state after the next, through the faults,  *)
(* rollbacks, retries, restarts and concurrent cache fills of the model.   *)
THEOREM LedgerRefinement == Spec => FollowsLedger
<1>1. Init => Ledger!Init
  BY DEF Init, Ledger!Init
<1>2. LInv /\ LInv' /\ [Next]_vars => [Ledger!Next]_Ledger!vars
  BY RefinementStep
<1> QED
  BY LInvInit, LInvStep, <1>1, <1>2, PTL DEF Spec, FollowsLedger, Ledger!Spec
=============================================================================
