---------------------------- MODULE ReasonsProofs ----------------------------
(***************************************************************************)
(* The reject reasons finalize_block collects (src/interpreter/           *)
(* interpreter.py, finalize_execute, finalize_deploy and finalize_block): *)
(* every transaction consensus rejected gets one, for every value of the  *)
(* constants.                                                              *)
(***************************************************************************)
EXTENDS FinalizeBlockProofs

(* txi never runs past the transaction after the last of the block.       *)
TxiBound == height < Len(blocks) => txi <= Len(blocks[height + 1].txs) + 1

(* Between blocks, finalize_block has not started the next one.           *)
BetweenBlocks == height = Len(blocks) => txi = 1 /\ reasons = <<>>

(* Once a rejected transaction reaches its charged fee or validation, its *)
(* reject reason has been found: the replay failed, the deploy was       *)
(* rejected, or the fee diagnosis of line 200 ran.                        *)
PendingReason == pc \in {"fee", "validate"} /\ ~CurTx.accepted => reason.kind # "none"

Rest == TxiBound /\ BetweenBlocks /\ RejectedHaveReason /\ PendingReason

(* The inductive invariant: RejectedHaveReason with the position of txi   *)
(* in the block and the reason of the transaction in flight.              *)
RInv == IInv /\ Rest

-----------------------------------------------------------------------------
LEMMA RInvInit == Init => RInv
<1> SUFFICES ASSUME Init PROVE RInv
  OBVIOUS
<1>1. IInv
  BY IInvInit
<1> QED
  BY <1>1 DEF Init, RInv, Rest, TxiBound, BetweenBlocks, RejectedHaveReason, PendingReason

(* A sealed block is a block of confirmed transactions.                   *)
LEMMA SealedBlockType ==
    ASSUME TypeOK, NEW i \in 1..Len(blocks)
    PROVE  /\ blocks[i] \in Block
           /\ blocks[i].txs \in Seq(ConfirmedTx)
           /\ Len(blocks[i].txs) \in Nat
<1>1. blocks[i] \in Block
  BY DEF TypeOK
<1>2. blocks[i].txs \in Seq(ConfirmedTx)
  BY <1>1 DEF Block
<1> QED
  BY <1>1, <1>2, LenProperties

(* A step that leaves the block, the position in it and the transaction's *)
(* reason alone keeps the invariant.                                       *)
LEMMA FrameRest ==
    ASSUME RInv, IInv',
           UNCHANGED <<blocks, height, txi, reasons, pc, reason>>
    PROVE  Rest'
BY DEF RInv, Rest, TxiBound, BetweenBlocks, RejectedHaveReason, PendingReason, CurTx

(* A fault or restart resets finalize_block to the block's first          *)
(* transaction with no reasons collected.                                  *)
LEMMA AbortRest ==
    ASSUME RInv, IInv', NEW c, Abort(c), UNCHANGED <<blocks, height>>
    PROVE  Rest'
<1>1. txi' = 1 /\ reasons' = <<>> /\ pc' = "next"
  BY DEF Abort
<1>2. height < Len(blocks) => Len(blocks[height + 1].txs) \in Nat
  BY DEF RInv, IInv, TypeOK, Block
<1> QED
  BY <1>1, <1>2 DEF Rest, TxiBound, BetweenBlocks, RejectedHaveReason, PendingReason

(* Sealing a block appends it: the block being finalized keeps its        *)
(* transactions, and a block sealed while the explorer waited becomes the *)
(* one it starts on, from its first transaction.                          *)
LEMMA SealBlockRest ==
    ASSUME RInv, IInv', SealBlock
    PROVE  Rest'
<1>0. TypeOK /\ (pc # "next" => InBlock)
  BY DEF RInv, IInv
<1>1. /\ blocks' = Append(blocks, [txs |-> pending, post |-> ledger])
      /\ UNCHANGED <<height, txi, reasons, pc, reason>>
  BY DEF SealBlock, txVars
<1>2. Len(blocks') = Len(blocks) + 1
  BY <1>0, <1>1, AppendProperties DEF TypeOK
<1>3. height < Len(blocks) => blocks'[height + 1] = blocks[height + 1]
  BY <1>0, <1>1, AppendProperties DEF TypeOK
<1>4. CASE height < Len(blocks)
  <2>1. blocks'[height' + 1] = blocks[height + 1] /\ height' < Len(blocks')
    BY <1>0, <1>1, <1>2, <1>3, <1>4 DEF TypeOK
  <2>2. TxiBound' /\ RejectedHaveReason'
    BY <1>1, <1>4, <2>1 DEF RInv, Rest, TxiBound, RejectedHaveReason
  <2>3. BetweenBlocks'
    BY <2>1 DEF BetweenBlocks
  <2>4. PendingReason'
    BY <1>1, <2>1 DEF RInv, Rest, PendingReason, CurTx
  <2> QED
    BY <2>2, <2>3, <2>4 DEF Rest
<1>5. CASE height = Len(blocks)
  <2>1. txi = 1 /\ reasons = <<>> /\ pc = "next"
    BY <1>0, <1>5 DEF RInv, Rest, BetweenBlocks, InBlock
  <2>2. Len(blocks'[height + 1].txs) \in Nat
    BY <1>0, <1>1, <1>5, AppendProperties DEF TypeOK, Block
  <2> QED
    BY <1>1, <1>2, <1>5, <2>1, <2>2
       DEF Rest, TxiBound, BetweenBlocks, RejectedHaveReason, PendingReason
<1> QED
  BY <1>0, <1>4, <1>5 DEF TypeOK

(* finalize_block commits the block and starts on the next.               *)
LEMMA CommitBlockRest ==
    ASSUME RInv, IInv', CommitBlock
    PROVE  Rest'
<1>1. height' = height + 1 /\ txi' = 1 /\ reasons' = <<>> /\ pc' = "next"
      /\ UNCHANGED blocks
  BY DEF CommitBlock, chainVars, txVars
<1>2. height' < Len(blocks') => Len(blocks'[height' + 1].txs) \in Nat
  <2>1. TypeOK /\ height \in Nat
    BY DEF RInv, IInv, TypeOK
  <2>2. height' < Len(blocks') => height' + 1 \in 1..Len(blocks)
    BY <1>1, <2>1
  <2> QED
    BY <1>1, <2>1, <2>2, SealedBlockType
<1>3. TxiBound'
  BY <1>1, <1>2 DEF TxiBound
<1>4. BetweenBlocks' /\ PendingReason'
  BY <1>1 DEF BetweenBlocks, PendingReason
<1>5. RejectedHaveReason'
  BY <1>1 DEF RejectedHaveReason
<1> QED
  BY <1>3, <1>4, <1>5 DEF Rest

(* A step of finalize_execute or finalize_deploy that stays on the        *)
(* transaction keeps the invariant when it records the reason it found.  *)
LEMMA InFlightRest ==
    ASSUME RInv, IInv', UNCHANGED <<blocks, height, txi, reasons>>,
           pc' \in {"fee", "validate"} /\ ~CurTx.accepted => reason'.kind # "none"
    PROVE  Rest'
BY DEF RInv, Rest, TxiBound, BetweenBlocks, RejectedHaveReason, PendingReason, CurTx

(* finalize_deploy: a rejected deploy gets the unavailable-detail reason. *)
LEMMA FinalizeDeployRest ==
    ASSUME RInv, IInv', FinalizeDeploy
    PROVE  Rest'
<1> DEFINE s == CurTx.shape
           r == IF s.fee = PrivateFee
                THEN [ok |-> TRUE, ops |-> <<>>, at |-> 0, cache |-> cache,
                      local |-> NothingLoaded]
                ELSE RunFinalizer(s.fee, NothingLoaded, TRUE)
<1>0. UNCHANGED <<blocks, height>>
  BY DEF FinalizeDeploy, chainVars
<1>1. CASE r.ok
  <2>1. /\ reason' = IF CurTx.accepted THEN Why("none") ELSE Why("unavailable")
        /\ UNCHANGED <<txi, reasons>>
    BY <1>1 DEF FinalizeDeploy
  <2>2. ~CurTx.accepted => reason'.kind # "none"
    BY <2>1 DEF Why
  <2> QED
    BY <1>0, <2>1, <2>2, InFlightRest
<1>2. CASE ~r.ok
  BY <1>0, <1>2, AbortRest DEF FinalizeDeploy
<1> QED
  BY <1>1, <1>2

(* finalize_execute: a failed replay becomes an execute-error reason; a   *)
(* rejected execution whose replay succeeded goes on to the diagnosis.    *)
LEMMA FinalizeExecuteRest ==
    ASSUME RInv, IInv', FinalizeExecute
    PROVE  Rest'
<1> DEFINE s == CurTx.shape
           loc == IF CurTx.accepted THEN Alias ELSE NothingLoaded
           r == IF s.exec = NoFuture
                THEN [ok |-> TRUE, ops |-> <<>>, at |-> 0, cache |-> cache, local |-> loc]
                ELSE RunFinalizer(s.exec, loc, CurTx.accepted)
           rsn == IF r.ok THEN Why("none") ELSE [kind |-> "exec_error", at |-> r.at]
<1>1. /\ reason' = rsn
      /\ pc' = IF NeedsDiagnosis(CurTx, rsn) THEN "diagnose" ELSE "fee"
      /\ UNCHANGED <<blocks, height, txi, reasons>>
  BY DEF FinalizeExecute, chainVars
<1>2. rsn = Why("none") \/ rsn.kind = "exec_error"
  OBVIOUS
<1>3. pc' \in {"fee", "validate"} /\ ~CurTx.accepted => reason'.kind # "none"
  BY <1>1, <1>2 DEF NeedsDiagnosis, Why
<1> QED
  BY <1>1, <1>3, InFlightRest

(* The diagnosis of line 200 always names a reason: the fee error, or     *)
(* "unknown reason".                                                       *)
LEMMA DiagnoseRejectRest ==
    ASSUME RInv, IInv', DiagnoseReject
    PROVE  Rest'
<1>1. /\ reason' \in {Why("unknown"), Why("fee_error")}
      /\ UNCHANGED <<blocks, height, txi, reasons>>
  BY DEF DiagnoseReject, chainVars
<1>2. reason'.kind # "none"
  BY <1>1 DEF Why
<1> QED
  BY <1>1, <1>2, InFlightRest

(* The charged fee keeps the reason; its failure aborts the block.       *)
LEMMA FinalizeFeeRest ==
    ASSUME RInv, IInv', FinalizeFee
    PROVE  Rest'
<1> DEFINE s == CurTx.shape
           r == RunFinalizer(s.fee, local, TRUE)
<1>0. UNCHANGED <<blocks, height>> /\ pc = "fee"
  BY DEF FinalizeFee, chainVars
<1>1. pc = "fee" /\ ~CurTx.accepted => reason.kind # "none"
  BY DEF RInv, Rest, PendingReason
<1>2. CASE s.fee = PrivateFee \/ r.ok
  <2>1. UNCHANGED <<txi, reasons, reason>>
    BY <1>2 DEF FinalizeFee
  <2> QED
    BY <1>0, <1>1, <2>1, InFlightRest
<1>3. CASE s.fee # PrivateFee /\ ~r.ok
  BY <1>0, <1>3, AbortRest DEF FinalizeFee
<1> QED
  BY <1>2, <1>3

(* Validation appends the reason of the transaction it validated: the    *)
(* reasons stay one per transaction, in order, and a rejected one has     *)
(* its reason.                                                             *)
LEMMA ValidateRest ==
    ASSUME RInv, IInv', Validate
    PROVE  Rest'
<1>0. UNCHANGED <<blocks, height>>
  BY DEF Validate, chainVars
<1>1. CASE Abort(cache) \/ Abort(NothingLoaded)
  BY <1>0, <1>1, AbortRest
<1>2. CASE /\ reasons' = Append(reasons, reason)
           /\ txi' = txi + 1
           /\ pc' = "next"
  <2>1. TypeOK /\ InBlock /\ pc = "validate"
    BY DEF RInv, IInv, Validate
  <2>2. height < Len(blocks) /\ txi <= Len(blocks[height + 1].txs) /\ txi \in Nat
    BY <2>1 DEF InBlock, TypeOK
  <2>3. Len(reasons) = txi - 1
    BY <2>2 DEF RInv, Rest, RejectedHaveReason
  <2>4. ~CurTx.accepted => reason.kind # "none"
    BY <2>1 DEF RInv, Rest, PendingReason
  <2>5. reasons \in Seq(Reason)
    BY <2>1 DEF TypeOK
  <2>6. Len(reasons') = txi' - 1
    BY <1>2, <2>2, <2>3, <2>5, AppendProperties
  <2>7. \A i \in 1..Len(reasons') :
            ~blocks[height + 1].txs[i].accepted => reasons'[i].kind # "none"
    <3> SUFFICES ASSUME NEW i \in 1..Len(reasons'),
                        ~blocks[height + 1].txs[i].accepted
                 PROVE  reasons'[i].kind # "none"
      OBVIOUS
    <3>1. CASE i <= Len(reasons)
      <4>1. reasons'[i] = reasons[i]
        BY <1>2, <2>5, <3>1, AppendProperties
      <4> QED
        BY <2>2, <3>1, <4>1 DEF RInv, Rest, RejectedHaveReason
    <3>2. CASE i = txi
      <4>1. reasons'[i] = reason
        BY <1>2, <2>3, <2>5, <3>2, AppendProperties
      <4> QED
        BY <2>4, <3>2, <4>1 DEF CurTx
    <3> QED
      BY <2>2, <2>3, <2>5, <2>6, <3>1, <3>2, <1>2
  <2>8. TxiBound' /\ BetweenBlocks' /\ PendingReason'
    BY <1>0, <1>2, <2>2 DEF TxiBound, BetweenBlocks, PendingReason
  <2> QED
    BY <1>0, <2>2, <2>6, <2>7, <2>8 DEF Rest, RejectedHaveReason
<1> QED
  BY <1>1, <1>2 DEF Validate

-----------------------------------------------------------------------------
(* Every step of the consensus environment, the finalizer, the faults and *)
(* the reader keeps the inductive invariant.                               *)
LEMMA RInvStep == RInv /\ [Next]_vars => RInv'
<1> SUFFICES ASSUME RInv, [Next]_vars PROVE RInv'
  OBVIOUS
<1>0. IInv'
  BY IInvStep DEF RInv
<1> USE <1>0
<1> SUFFICES Rest'
  BY <1>0 DEF RInv
<1>1. CASE \E s \in TxShapes : ProduceTx(s)
  BY <1>1, FrameRest DEF ProduceTx, txVars
<1>2. CASE SealBlock
  BY <1>2, SealBlockRest
<1>3. CASE FinalizeDeploy
  BY <1>3, FinalizeDeployRest
<1>4. CASE FinalizeExecute
  BY <1>4, FinalizeExecuteRest
<1>5. CASE DiagnoseReject
  BY <1>5, DiagnoseRejectRest
<1>6. CASE FinalizeFee
  BY <1>6, FinalizeFeeRest
<1>7. CASE Validate
  BY <1>7, ValidateRest
<1>8. CASE CommitBlock
  BY <1>8, CommitBlockRest
<1>9. CASE DbError
  BY <1>9, AbortRest DEF DbError, chainVars
<1>10. CASE Restart
  BY <1>10, AbortRest DEF Restart, chainVars
<1>11. CASE \E m \in Mappings : GetMappingValue(m)
  BY <1>11, FrameRest DEF GetMappingValue, chainVars, txVars
<1>12. CASE MappingCacheReadReturns
  BY <1>12, FrameRest DEF MappingCacheReadReturns, chainVars, txVars
<1>13. CASE UNCHANGED vars
  BY <1>13, FrameRest DEF vars
<1> QED
  BY <1>1, <1>2, <1>3, <1>4, <1>5, <1>6, <1>7, <1>8, <1>9, <1>10, <1>11,
     <1>12, <1>13 DEF Next, Explorer

(* For every value of the constants, every transaction consensus rejected *)
(* that finalize_block has got past carries a reject reason, and the      *)
(* reasons are the block's, one per transaction and in order: through     *)
(* database faults, aborted fees, restarts and concurrent cache fills     *)
(* (finalize_deploy, finalize_execute with the fee diagnosis of line 200, *)
(* finalize_block's reject_reasons).                                       *)
THEOREM RejectedHaveReasonHolds == Spec => []RejectedHaveReason
<1>1. RInv => RejectedHaveReason
  BY DEF RInv, Rest
<1> QED
  BY RInvInit, RInvStep, <1>1, PTL DEF Spec
=============================================================================
