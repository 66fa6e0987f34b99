------------------------- MODULE FinalizeBlockProofs -------------------------
(***************************************************************************)
(* Proofs about FinalizeBlock that hold for every value of its constants.  *)
(***************************************************************************)
EXTENDS FinalizeBlock, SequenceTheorems, TLAPS

-----------------------------------------------------------------------------
(* Lemmas about the operators that apply finalize operations.             *)

(* The value an UpdateKeyValue run leaves in a key is a value of Val when *)
(* the value before it was.                                                *)
LEMMA LastValueType ==
    ASSUME NEW os \in Seq(Op), NEW m, NEW k, NEW old \in Val
    PROVE  LastValue(os, m, k, old) \in Val
<1> DEFINE I == UpdatesOf(os, m, k)
<1>1. CASE \E i \in I : \A j \in I : j <= i
  <2> DEFINE w == CHOOSE i \in I : \A j \in I : j <= i
  <2>1. w \in 1..Len(os) /\ os[w].type = "Update"
    BY <1>1 DEF UpdatesOf
  <2>2. os[w] \in UpdateOp
    BY <2>1 DEF Op, InitOp
  <2>3. os[w].v \in Val
    BY <2>2 DEF UpdateOp
  <2> QED
    BY <1>1, <2>3 DEF LastValue
<1>2. CASE ~\E i \in I : \A j \in I : j <= i
  BY <1>2 DEF LastValue
<1> QED
  BY <1>1, <1>2

(* WriteOps keeps every slot of a state in MapState or in what it was.    *)
LEMMA WriteOpsType ==
    ASSUME NEW S, NEW st \in [Mappings -> MapState \cup S], NEW os \in Seq(Op)
    PROVE  WriteOps(st, os) \in [Mappings -> MapState \cup S]
<1> SUFFICES ASSUME NEW m \in Mappings, st[m] \in MapState
             PROVE  [k \in Keys |-> LastValue(os, m, k, st[m][k])] \in MapState
  BY DEF WriteOps
<1>1. \A k \in Keys : LastValue(os, m, k, st[m][k]) \in Val
  BY LastValueType DEF MapState
<1> QED
  BY <1>1 DEF MapState

(* execute_operations maps a store to a store.                             *)
LEMMA ExecuteOperationsType ==
    ASSUME NEW st \in Store, NEW os \in Seq(Op)
    PROVE  ExecuteOperations(st, os) \in Store
<1> DEFINE init == [m \in Mappings |->
                       IF \E i \in 1..Len(os) : os[i].type = "Init" /\ os[i].m = m
                       THEN EmptyMap ELSE st[m]]
<1>1. EmptyMap \in MapState
  BY BoundsAssumption DEF EmptyMap, MapState, Val
<1>2. init \in [Mappings -> MapState \cup {NotInit}]
  BY <1>1 DEF Store
<1> QED
  BY <1>2, WriteOpsType DEF ExecuteOperations, Store
(* One InitializeMapping per declared mapping is a sequence of operations. *)
LEMMA InitOpsType ==
    ASSUME NEW maps \in Seq(Mappings)
    PROVE  InitOps(maps) \in Seq(Op)
BY DEF InitOps, Op, InitOp

-----------------------------------------------------------------------------
(* The inductive invariant: the type invariant, and a transaction is being *)
(* finalized only while the explorer is inside a sealed block.             *)
IInv ==
    /\ TypeOK
    /\ pc # "next" => InBlock

(* What one call of execute_finalizer returns in the model.               *)
FinResult == [ok : BOOLEAN, ops : Seq(Op), at : Nat, cache : Local,
              local : Local \cup {Alias}]

(* execute_finalizer reads a store: the local cache over the shared cache *)
(* over committed storage.                                                 *)
LEMMA ViewType ==
    ASSUME TypeOK, NEW loc \in Local \cup {Alias}
    PROVE  View(loc) \in Store
BY SentinelAssumption DEF View, TypeOK, Local, Store

(* execute_finalizer returns typed operations and leaves typed caches.    *)
LEMMA RunFinalizerType ==
    ASSUME TypeOK, NEW p \in Programs, NEW loc \in Local \cup {Alias},
           NEW allow \in BOOLEAN
    PROVE  RunFinalizer(p, loc, allow) \in FinResult
<1> DEFINE r == Finalize(View(loc), p)
<1>1. r \in Result
  BY ViewType, FinalizeAssumption
<1>2. Loaded(p) \in Local
  BY DEF Loaded, TypeOK, Local, Store
<1>3. WriteOps(Loaded(p), r.ops) \in Local
  BY <1>1, <1>2, WriteOpsType DEF Result, Local
<1>4. WriteOps(View(loc), r.ops) \in Store
  BY <1>1, ViewType, WriteOpsType DEF Result, Store
<1>5. loc # Alias =>
        [m \in Mappings |-> IF WritesTo(r.ops, m) THEN WriteOps(View(loc), r.ops)[m]
                            ELSE loc[m]] \in Local
  BY <1>4 DEF Store, Local
<1> QED
  BY <1>1, <1>2, <1>3, <1>5 DEF RunFinalizer, FinResult, Result
(* The transaction being finalized is a confirmed transaction of a typed  *)
(* shape.                                                                  *)
LEMMA CurTxType ==
    ASSUME TypeOK, InBlock
    PROVE  /\ CurTx \in ConfirmedTx
           /\ CurTx.shape \in TxShapes
           /\ CurTx.shape.fee \in Programs \cup {PrivateFee}
<1>1. blocks[height + 1] \in Block
  BY DEF TypeOK, InBlock
<1>2. CurTx \in ConfirmedTx
  BY <1>1 DEF InBlock, CurTx, Block, TypeOK
<1> QED
  BY <1>2, ShapeAssumption DEF ConfirmedTx

(* A fault leaves the transaction variables reset and the caches typed.   *)
LEMMA AbortType ==
    ASSUME TypeOK, NEW c \in Local, Abort(c)
    PROVE  /\ cache' \in Local /\ cursor' \in Store /\ txi' \in Nat \ {0}
           /\ pc' = "next" /\ local' \in Local /\ ops' \in Seq(Op)
           /\ reason' \in Reason /\ reasons' \in Seq(Reason)
BY DEF Abort, TypeOK, NothingLoaded, Local, Why, Reason

(* A cache with nothing loaded is a cache.                               *)
LEMMA NothingLoadedType == NothingLoaded \in Local
BY DEF NothingLoaded, Local
-----------------------------------------------------------------------------
(* Each action preserves the inductive invariant.                         *)

LEMMA ProduceExecuteType ==
    ASSUME TypeOK, NEW s \in TxShapes, s.kind = "execute",
           Runs(SealedState, s.exec), Runs(SealedState, s.fee), ProduceExecute(s)
    PROVE  pending' \in Seq(ConfirmedTx) /\ ledger' \in Store
<1>1. s.exec \in Programs \cup {NoFuture} /\ s.fee \in Programs \cup {PrivateFee}
  BY ShapeAssumption
<1> DEFINE r1 == IF s.exec = NoFuture THEN [ok |-> TRUE, ops |-> <<>>, at |-> 0]
                 ELSE Finalize(ledger, s.exec)
           mid == WriteOps(ledger, r1.ops)
           r2 == IF s.fee = PrivateFee THEN [ok |-> TRUE, ops |-> <<>>, at |-> 0]
                 ELSE Finalize(mid, s.fee)
           r3 == IF s.fee = PrivateFee THEN [ok |-> TRUE, ops |-> <<>>, at |-> 0]
                 ELSE Finalize(ledger, s.fee)
           exp == IF r1.ok /\ r2.ok THEN r1.ops \o r2.ops ELSE r3.ops
<1>2. r1 \in Result
  BY <1>1, FinalizeAssumption DEF TypeOK, Result
<1>3. mid \in Store
  BY <1>2, WriteOpsType DEF TypeOK, Result, Store
<1>4. r2 \in Result /\ r3 \in Result
  BY <1>1, <1>3, FinalizeAssumption DEF TypeOK, Result
<1>5. exp \in Seq(Op)
  BY <1>2, <1>4 DEF Result
<1>6. ExecuteOperations(ledger, exp) \in Store
  BY <1>5, ExecuteOperationsType DEF TypeOK
<1>7. [shape |-> s, accepted |-> r1.ok /\ r2.ok, expected |-> exp,
       post |-> ExecuteOperations(ledger, exp)] \in ConfirmedTx
  BY <1>5, <1>6 DEF ConfirmedTx
<1> QED
  BY <1>6, <1>7 DEF ProduceExecute, TypeOK

LEMMA ProduceDeployType ==
    ASSUME TypeOK, NEW s \in TxShapes, s.kind = "deploy",
           Runs(SealedState, s.fee), ProduceDeploy(s)
    PROVE  pending' \in Seq(ConfirmedTx) /\ ledger' \in Store
<1>1. s.fee \in Programs \cup {PrivateFee} /\ s.maps \in Seq(Mappings)
  BY ShapeAssumption
<1> DEFINE rf == IF s.fee = PrivateFee THEN [ok |-> TRUE, ops |-> <<>>, at |-> 0]
                 ELSE Finalize(ledger, s.fee)
           acc == \A i \in 1..Len(s.maps) : ledger[s.maps[i]] = NotInit
           exp == IF acc THEN rf.ops \o InitOps(s.maps) ELSE rf.ops
<1>2. rf \in Result
  BY <1>1, FinalizeAssumption DEF TypeOK, Result
<1>3. exp \in Seq(Op)
  BY <1>1, <1>2, InitOpsType DEF Result
<1>4. ExecuteOperations(ledger, exp) \in Store
  BY <1>3, ExecuteOperationsType DEF TypeOK
<1>5. [shape |-> s, accepted |-> acc, expected |-> exp,
       post |-> ExecuteOperations(ledger, exp)] \in ConfirmedTx
  BY <1>3, <1>4 DEF ConfirmedTx
<1>6. /\ pending' = Append(pending, [shape |-> s, accepted |-> acc, expected |-> exp,
                                       post |-> ExecuteOperations(ledger, exp)])
      /\ ledger' = ExecuteOperations(ledger, exp)
  BY DEF ProduceDeploy
<1> QED
  BY <1>4, <1>5, <1>6, AppendProperties DEF TypeOK

LEMMA ProduceTxInv ==
    ASSUME IInv, NEW s \in TxShapes, ProduceTx(s)
    PROVE  IInv'
<1>1. s.kind = "deploy" \/ s.kind = "execute"
  BY ShapeAssumption
<1>2. pending' \in Seq(ConfirmedTx) /\ ledger' \in Store
  BY <1>1, ProduceExecuteType, ProduceDeployType DEF ProduceTx, IInv
<1> QED
  BY <1>2 DEF ProduceTx, IInv, TypeOK, InBlock, txVars, readerVars

LEMMA SealBlockInv ==
    ASSUME IInv, SealBlock
    PROVE  IInv'
<1>1. [txs |-> pending, post |-> ledger] \in Block
  BY DEF IInv, TypeOK, Block
<1>2. blocks' \in Seq(Block) /\ Len(blocks') = Len(blocks) + 1
  BY <1>1 DEF SealBlock, IInv, TypeOK
<1>3. InBlock => blocks'[height + 1] = blocks[height + 1]
  BY DEF SealBlock, InBlock, IInv, TypeOK
<1> QED
  BY <1>2, <1>3 DEF SealBlock, IInv, TypeOK, InBlock, txVars, readerVars
LEMMA FinalizeDeployInv ==
    ASSUME IInv, FinalizeDeploy
    PROVE  IInv'
<1> DEFINE s == CurTx.shape
           r == IF s.fee = PrivateFee
                THEN [ok |-> TRUE, ops |-> <<>>, at |-> 0, cache |-> cache,
                      local |-> NothingLoaded]
                ELSE RunFinalizer(s.fee, NothingLoaded, TRUE)
<1>0. TypeOK /\ InBlock
  BY DEF IInv, FinalizeDeploy
<1>1. s \in TxShapes /\ s.kind = "deploy" /\ s.fee \in Programs \cup {PrivateFee}
  BY <1>0, CurTxType DEF FinalizeDeploy
<1>2. s.maps \in Seq(Mappings)
  BY <1>1, ShapeAssumption
<1>3. r \in FinResult
  <2>1. CASE s.fee = PrivateFee
    BY <2>1, <1>0, NothingLoadedType DEF TypeOK, FinResult
  <2>2. CASE s.fee \in Programs
    BY <2>2, <1>0, NothingLoadedType, RunFinalizerType, ShapeAssumption
  <2> QED
    BY <1>1, <2>1, <2>2
<1>5. CASE r.ok
  <2>1. /\ ops' = IF CurTx.accepted THEN r.ops \o InitOps(s.maps) ELSE r.ops
        /\ reason' \in {Why("none"), Why("unavailable")}
        /\ cache' = r.cache /\ local' = r.local /\ pc' = "validate"
        /\ UNCHANGED <<cursor, txi, reasons>>
    BY <1>5 DEF FinalizeDeploy
  <2>2. ops' \in Seq(Op)
    BY <2>1, <1>2, <1>3, InitOpsType, ConcatProperties DEF FinResult
  <2>3. InBlock'
    BY <1>0, <2>1 DEF FinalizeDeploy, InBlock, chainVars, readerVars
  <2>4. reason' \in Reason
    BY <2>1 DEF Why, Reason
  <2>5. TypeOK'
    BY <1>0, <2>1, <2>2, <2>4, <1>3 DEF FinalizeDeploy, TypeOK, FinResult, chainVars, readerVars
  <2> QED
    BY <2>3, <2>5 DEF IInv
<1>6. CASE ~r.ok
  <2>1. Abort(r.cache)
    BY <1>6 DEF FinalizeDeploy
  <2> QED
    BY <1>0, <2>1, <1>3, AbortType DEF FinalizeDeploy, IInv, TypeOK, FinResult, chainVars, readerVars
<1> QED
  BY <1>5, <1>6

LEMMA FinalizeExecuteInv ==
    ASSUME IInv, FinalizeExecute
    PROVE  IInv'
<1> DEFINE s == CurTx.shape
           loc == IF CurTx.accepted THEN Alias ELSE NothingLoaded
           r == IF s.exec = NoFuture
                THEN [ok |-> TRUE, ops |-> <<>>, at |-> 0, cache |-> cache, local |-> loc]
                ELSE RunFinalizer(s.exec, loc, CurTx.accepted)
<1>0. TypeOK /\ InBlock
  BY DEF IInv, FinalizeExecute
<1>1. s \in TxShapes /\ s.kind = "execute" /\ CurTx.accepted \in BOOLEAN
  BY <1>0, CurTxType DEF FinalizeExecute, ConfirmedTx
<1>2. s.exec \in Programs \cup {NoFuture}
  BY <1>1, ShapeAssumption
<1>3. loc \in Local \cup {Alias}
  BY NothingLoadedType
<1>4. r \in FinResult
  <2>1. CASE s.exec = NoFuture
    BY <2>1, <1>0, <1>3 DEF TypeOK, FinResult
  <2>2. CASE s.exec \in Programs
    BY <2>2, <1>0, <1>1, <1>3, RunFinalizerType, ShapeAssumption
  <2> QED
    BY <1>2, <2>1, <2>2
<1>5. /\ ops' = IF r.ok THEN r.ops ELSE <<>>
      /\ reason' = IF r.ok THEN Why("none") ELSE [kind |-> "exec_error", at |-> r.at]
      /\ cache' = r.cache /\ local' = r.local /\ pc' \in {"diagnose", "fee"}
  BY DEF FinalizeExecute
<1>6. InBlock'
  BY <1>0 DEF FinalizeExecute, InBlock, chainVars, readerVars
<1> QED
  BY <1>0, <1>4, <1>5, <1>6 DEF FinalizeExecute, IInv, TypeOK, FinResult, chainVars, Why, Reason, readerVars
LEMMA DiagnoseRejectInv ==
    ASSUME IInv, DiagnoseReject
    PROVE  IInv'
<1> DEFINE s == CurTx.shape
           r == IF s.fee = PrivateFee
                THEN [ok |-> TRUE, ops |-> <<>>, at |-> 0, cache |-> cache, local |-> local]
                ELSE RunFinalizer(s.fee, local, FALSE)
<1>0. TypeOK /\ InBlock
  BY DEF IInv, DiagnoseReject
<1>1. s.fee \in Programs \cup {PrivateFee}
  BY <1>0, CurTxType
<1>2. r \in FinResult
  <2>1. CASE s.fee = PrivateFee
    BY <2>1, <1>0 DEF TypeOK, FinResult
  <2>2. CASE s.fee \in Programs
    BY <2>2, <1>0, RunFinalizerType, ShapeAssumption DEF TypeOK
  <2> QED
    BY <1>1, <2>1, <2>2
<1>3. /\ cache' = r.cache /\ local' = r.local
      /\ reason' \in {Why("unknown"), Why("fee_error")}
      /\ ops' = <<>> /\ pc' = "fee"
  BY DEF DiagnoseReject
<1>4. reason' \in Reason
  BY <1>3 DEF Why, Reason
<1>5. InBlock'
  BY <1>0 DEF DiagnoseReject, InBlock, chainVars, readerVars
<1>6. UNCHANGED <<blocks, pending, ledger, storage, cursor, height, txi, reasons,
                  dbErrors, restarts, rd, reads>>
  BY DEF DiagnoseReject, chainVars, readerVars
<1>7. cache' \in Local /\ local' \in Local \cup {Alias} /\ ops' \in Seq(Op)
  <2>1. r.cache \in Local /\ r.local \in Local \cup {Alias}
    BY <1>2 DEF FinResult
  <2>2. cache' \in Local /\ local' \in Local \cup {Alias}
    BY <2>1, <1>3, Zenon
  <2>3. ops' \in Seq(Op)
    BY <1>3
  <2> QED
    BY <2>2, <2>3
<1>8. TypeOK'
  BY <1>0, <1>3, <1>4, <1>6, <1>7 DEF TypeOK
<1> QED
  BY <1>5, <1>8 DEF IInv

LEMMA FinalizeFeeInv ==
    ASSUME IInv, FinalizeFee
    PROVE  IInv'
<1> DEFINE s == CurTx.shape
           r == RunFinalizer(s.fee, local, TRUE)
<1>0. TypeOK /\ InBlock
  BY DEF IInv, FinalizeFee
<1>1. s.fee \in Programs \cup {PrivateFee}
  BY <1>0, CurTxType
<1>2. CASE s.fee = PrivateFee
  <2>1. pc' = "validate" /\ UNCHANGED <<cache, local, ops, reason, cursor, txi, reasons>>
    BY <1>2 DEF FinalizeFee
  <2> QED
    BY <1>0, <2>1 DEF FinalizeFee, IInv, TypeOK, InBlock, chainVars, readerVars
<1>3. CASE s.fee \in Programs
  <2>1. r \in FinResult
    BY <1>3, <1>0, RunFinalizerType DEF TypeOK
  <2>2. s.fee # PrivateFee
    BY <1>3, ShapeAssumption
  <2>3. CASE r.ok
    <3>1. /\ ops' = ops \o r.ops /\ cache' = r.cache /\ local' = r.local
          /\ pc' = "validate" /\ UNCHANGED <<reason, cursor, txi, reasons>>
      BY <2>2, <2>3 DEF FinalizeFee
    <3>2. ops' \in Seq(Op)
      BY <1>0, <2>1, <3>1, ConcatProperties DEF TypeOK, FinResult
    <3>3. InBlock'
      BY <1>0, <3>1 DEF FinalizeFee, InBlock, chainVars, readerVars
    <3>4. TypeOK'
      BY <1>0, <2>1, <3>1, <3>2 DEF FinalizeFee, TypeOK, FinResult, chainVars, readerVars
    <3> QED
      BY <3>3, <3>4 DEF IInv
  <2>4. CASE ~r.ok
    <3>1. Abort(r.cache)
      BY <2>2, <2>4 DEF FinalizeFee
    <3> QED
      BY <1>0, <2>1, <3>1, AbortType DEF FinalizeFee, IInv, TypeOK, FinResult, chainVars, readerVars
  <2> QED
    BY <2>3, <2>4
<1> QED
  BY <1>1, <1>2, <1>3
LEMMA ValidateInv ==
    ASSUME IInv, Validate
    PROVE  IInv'
<1> DEFINE e == CurTx.expected
<1>0. TypeOK /\ InBlock
  BY DEF IInv, Validate
<1>1. UNCHANGED <<blocks, pending, ledger, storage, height, dbErrors, restarts, rd, reads>>
  BY DEF Validate, chainVars, readerVars
<1>2. CASE Abort(cache) \/ Abort(NothingLoaded)
  BY <1>0, <1>1, <1>2, AbortType, NothingLoadedType DEF IInv, TypeOK
<1>3. CASE /\ cursor' = ExecuteOperations(cursor, ops)
           /\ reasons' = Append(reasons, reason)
           /\ txi' = txi + 1
           /\ pc' = "next"
           /\ local' = NothingLoaded
           /\ ops' = <<>>
           /\ reason' = Why("none")
           /\ UNCHANGED cache
  <2>1. cursor' \in Store
    BY <1>0, <1>3, ExecuteOperationsType DEF TypeOK
  <2>2. reasons' \in Seq(Reason)
    BY <1>0, <1>3, AppendProperties DEF TypeOK
  <2>3. reason' \in Reason /\ local' \in Local
    BY <1>3, NothingLoadedType DEF Why, Reason
  <2> QED
    BY <1>0, <1>1, <1>3, <2>1, <2>2, <2>3 DEF IInv, TypeOK
<1> QED
  BY <1>2, <1>3 DEF Validate

LEMMA CommitBlockInv ==
    ASSUME IInv, CommitBlock
    PROVE  IInv'
BY DEF IInv, CommitBlock, TypeOK, chainVars, txVars, readerVars

LEMMA DbErrorInv ==
    ASSUME IInv, DbError
    PROVE  IInv'
<1>1. Abort(cache) /\ dbErrors' = dbErrors + 1 /\ dbErrors < MaxDbErrors
  BY DEF DbError
<1>2. UNCHANGED <<blocks, pending, ledger, storage, height, restarts, rd, reads>>
  BY DEF DbError, chainVars, readerVars
<1> QED
  BY <1>1, <1>2, AbortType, BoundsAssumption DEF IInv, TypeOK

LEMMA RestartInv ==
    ASSUME IInv, Restart
    PROVE  IInv'
<1>1. Abort(NothingLoaded) /\ restarts' = restarts + 1 /\ restarts < MaxRestarts
  BY DEF Restart
<1>2. UNCHANGED <<blocks, pending, ledger, storage, height, dbErrors, reads>>
     /\ rd' = ReadIdle
  BY DEF Restart, chainVars
<1> QED
  BY <1>1, <1>2, AbortType, NothingLoadedType, BoundsAssumption DEF IInv, TypeOK, ReaderState

(* get_mapping_value starts: it only records the read it awaits.          *)
LEMMA GetMappingValueInv ==
    ASSUME IInv, NEW m \in Mappings, GetMappingValue(m)
    PROVE  IInv'
<1>1. storage[m] \in MapState \cup {NotInit}
  BY DEF IInv, TypeOK, Store
<1>2. rd' \in ReaderState /\ reads' \in 0..MaxReads
  BY <1>1, BoundsAssumption DEF GetMappingValue, ReaderState, IInv, TypeOK
<1> QED
  BY <1>2 DEF GetMappingValue, IInv, TypeOK, InBlock, CurTx, chainVars, txVars

(* The read returns: the slot it fills holds a committed mapping.        *)
LEMMA MappingCacheReadReturnsInv ==
    ASSUME IInv, MappingCacheReadReturns
    PROVE  IInv'
<1>1. rd \in [pc : {"load"}, m : Mappings, snap : MapState \cup {NotInit}]
  BY DEF MappingCacheReadReturns, IInv, TypeOK, ReaderState, ReadIdle
<1>2. cache' \in Local
  BY <1>1 DEF MappingCacheReadReturns, IInv, TypeOK, Local
<1>3. rd' \in ReaderState
  BY DEF MappingCacheReadReturns, ReaderState
<1> QED
  BY <1>2, <1>3 DEF MappingCacheReadReturns, IInv, TypeOK, InBlock, CurTx, chainVars, txVars

-----------------------------------------------------------------------------
(* The initial state satisfies the inductive invariant.                    *)
LEMMA IInvInit == Init => IInv
BY StoreAssumption, NothingLoadedType, BoundsAssumption
   DEF Init, IInv, TypeOK, Why, Reason, ReaderState

(* Every step of the system, of the consensus environment, the finalizer, *)
(* the faults and the reader, keeps the inductive invariant.               *)
LEMMA IInvStep == IInv /\ [Next]_vars => IInv'
<1> SUFFICES ASSUME IInv, [Next]_vars PROVE IInv'
  OBVIOUS
<1>1. CASE \E s \in TxShapes : ProduceTx(s)
  BY <1>1, ProduceTxInv
<1>2. CASE SealBlock
  BY <1>2, SealBlockInv
<1>3. CASE FinalizeDeploy
  BY <1>3, FinalizeDeployInv
<1>4. CASE FinalizeExecute
  BY <1>4, FinalizeExecuteInv
<1>5. CASE DiagnoseReject
  BY <1>5, DiagnoseRejectInv
<1>6. CASE FinalizeFee
  BY <1>6, FinalizeFeeInv
<1>7. CASE Validate
  BY <1>7, ValidateInv
<1>8. CASE CommitBlock
  BY <1>8, CommitBlockInv
<1>9. CASE DbError
  BY <1>9, DbErrorInv
<1>10. CASE Restart
  BY <1>10, RestartInv
<1>11. CASE \E m \in Mappings : GetMappingValue(m)
  BY <1>11, GetMappingValueInv
<1>12. CASE MappingCacheReadReturns
  BY <1>12, MappingCacheReadReturnsInv
<1>13. CASE UNCHANGED vars
  BY <1>13 DEF IInv, TypeOK, InBlock, CurTx, vars
<1> QED
  BY <1>1, <1>2, <1>3, <1>4, <1>5, <1>6, <1>7, <1>8, <1>9, <1>10, <1>11,
     <1>12, <1>13
     DEF Next, Explorer

(* The type invariant holds in every reachable state: every state of the  *)
(* stores, the caches and the finalize pipeline that finalize_block,       *)
(* finalize_execute, finalize_deploy and execute_operations can produce,   *)
(* through faults, rollbacks and restarts included, is well formed.        *)
THEOREM TypeCorrect == Spec => []TypeOK
<1>1. IInv => TypeOK
  BY DEF IInv
<1> QED
  BY IInvInit, IInvStep, <1>1, PTL DEF Spec
=============================================================================
