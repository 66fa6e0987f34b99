---------------------------- MODULE FinalizeBlock ----------------------------
(***************************************************************************)
(* The block finalizer of src/interpreter/interpreter.py together with the *)
(* transaction finalizer it calls, the operation applier and the           *)
(* process-wide mapping cache, driven by a consensus environment that      *)
(* produces confirmed blocks.                                              *)
(*                                                                         *)
(* Consensus (ProduceTx, SealBlock) executes every transaction against the *)
(* ledger state and records the finalize operations it agreed on: these    *)
(* are the "expected" operations of a confirmed transaction.  The explorer *)
(* (everything else) replays each transaction against its own view: the    *)
(* shared cache global_mapping_cache, a transaction-local cache, and the   *)
(* committed storage it loads from on a cache miss.  It validates its      *)
(* "actual" operations against the expected ones, applies them through    *)
(* the block's database cursor, and the caller commits the cursor at the   *)
(* end of the block or rolls it back and retries the block on a fault.     *)
(*                                                                         *)
(* The finalize-scope interpreter (interpreter/finalizer.py, not part of   *)
(* this source tree) is the constant operator Finalize: deterministic, it  *)
(* maps a view of the mappings and a program to the operations produced   *)
(* before it stopped, whether it succeeded, and where it failed.           *)
(***************************************************************************)
EXTENDS Integers, Sequences

CONSTANTS
    Mappings,       \* mapping ids (hashes of program id and mapping name)
    Keys,           \* key ids of a mapping
    MaxValue,       \* values of a mapping are 0..MaxValue
    Programs,       \* finalize programs: the scopes of one call, in async order
    TxShapes,       \* the transactions users may submit
    InitStore,      \* the mappings initialised by init_builtin_program
    Finalize(_, _), \* the finalize-scope interpreter
    NotInit,        \* a mapping that has not been initialised
    Unloaded,       \* a cache slot with nothing loaded
    Alias,          \* the local cache is the shared cache itself
    NoFuture,       \* an execution whose root transition returns no future
    PrivateFee,     \* a fee paid by fee_private, which has no finalize scope
    MaxBlocks, MaxTxs, MaxDbErrors, MaxRestarts, MaxReads

Val == 0..MaxValue
MapState == [Keys -> Val]
Store == [Mappings -> MapState \cup {NotInit}]
EmptyMap == [k \in Keys |-> 0]

(* Finalize operations: FinalizeOperation.Type.InitializeMapping and       *)
(* UpdateKeyValue; ids stand for the content they hash.                    *)
InitOp == [type : {"Init"}, m : Mappings]
UpdateOp == [type : {"Update"}, m : Mappings, k : Keys, v : Val]
Op == InitOp \cup UpdateOp

Result == [ok : BOOLEAN, ops : Seq(Op), at : Nat]

ASSUME BoundsAssumption ==
    /\ MaxValue \in Nat
    /\ {MaxBlocks, MaxTxs, MaxDbErrors, MaxRestarts, MaxReads} \subseteq Nat

ASSUME SentinelAssumption ==
    /\ NotInit \notin MapState
    /\ Unloaded \notin MapState \cup {NotInit}
    /\ Alias \notin [Mappings -> MapState \cup {NotInit, Unloaded}]

ASSUME StoreAssumption == InitStore \in Store

ASSUME ProgramAssumption ==
    \A p \in Programs : p \in Seq([m : Mappings, k : Keys, d : Int, w : BOOLEAN])

ASSUME ShapeAssumption ==
    /\ NoFuture \notin Programs
    /\ PrivateFee \notin Programs
    /\ TxShapes \subseteq
         [kind : {"deploy"}, fee : Programs \cup {PrivateFee}, maps : Seq(Mappings)]
         \cup
         [kind : {"execute"}, exec : Programs \cup {NoFuture},
          fee : Programs \cup {PrivateFee}]

ASSUME FinalizeAssumption ==
    \A v \in Store, p \in Programs : Finalize(v, p) \in Result

(* reject reasons: none, "(detailed reason not available)", "unknown      *)
(* reason", a fee error, or an execute error at transition #at.            *)
Reason == [kind : {"none", "unavailable", "unknown", "fee_error", "exec_error"},
           at : Nat]
Why(k) == [kind |-> k, at |-> 0]
ConfirmedTx == [shape : TxShapes, accepted : BOOLEAN,
                expected : Seq(Op), post : Store]
Block == [txs : Seq(ConfirmedTx), post : Store]
Local == [Mappings -> MapState \cup {NotInit, Unloaded}]

(* A get_mapping_value call: idle, or awaiting mapping_cache_read of m,    *)
(* which returned the committed mapping snap.                              *)
ReadIdle == [pc |-> "idle"]
ReaderState == {ReadIdle} \cup [pc : {"load"}, m : Mappings, snap : MapState \cup {NotInit}]

VARIABLES
    blocks,     \* the sealed confirmed blocks
    pending,    \* the confirmed transactions of the block being built
    ledger,     \* consensus state after the last confirmed transaction
    storage,    \* committed mapping storage of the explorer's database
    cursor,     \* storage as seen through the block's uncommitted cursor
    cache,      \* global_mapping_cache
    height,     \* number of blocks the explorer has finalized and committed
    txi,        \* index of the next transaction of the block being finalized
    pc,         \* the next step of finalize_block for transaction txi
    local,      \* local_mapping_cache of the transaction being finalized
    ops,        \* its actual operations so far
    reason,     \* its reject reason so far
    reasons,    \* reject_reasons of the block so far
    dbErrors,   \* database faults so far
    restarts,   \* process restarts so far
    rd,         \* the get_mapping_value call in progress
    reads       \* get_mapping_value calls so far

chainVars == <<blocks, pending, ledger>>
txVars == <<pc, local, ops, reason>>
readerVars == <<rd, reads>>
vars == <<blocks, pending, ledger, storage, cursor, cache, height, txi,
          pc, local, ops, reason, reasons, dbErrors, restarts, rd, reads>>

-----------------------------------------------------------------------------
(* Applying operations.  A later UpdateKeyValue of a key wins over an      *)
(* earlier one; InitializeMapping creates the mapping empty.               *)

UpdatesOf(os, m, k) ==
    {i \in 1..Len(os) : os[i].type = "Update" /\ os[i].m = m /\ os[i].k = k}

LastValue(os, m, k, old) ==
    LET I == UpdatesOf(os, m, k) IN
    IF \E i \in I : \A j \in I : j <= i
    THEN os[CHOOSE i \in I : \A j \in I : j <= i].v
    ELSE old

WritesTo(os, m) == \E i \in 1..Len(os) : os[i].type = "Update" /\ os[i].m = m

WriteOps(st, os) ==
    [m \in Mappings |->
        IF st[m] \in MapState
        THEN [k \in Keys |-> LastValue(os, m, k, st[m][k])]
        ELSE st[m]]

(* execute_operations: initialize_mapping, then update_mapping_key_value.  *)
ExecuteOperations(st, os) ==
    WriteOps([m \in Mappings |->
                 IF \E i \in 1..Len(os) : os[i].type = "Init" /\ os[i].m = m
                 THEN EmptyMap ELSE st[m]], os)

(* Mutant: the whole declaration list instead of its i-th mapping.        *)
InitOpsWholeList(maps) == [i \in 1..Len(maps) |-> [type |-> "Init", m |-> maps]]

(* One InitializeMapping per declared mapping, in declaration order.      *)
InitOps(maps) == [i \in 1..Len(maps) |-> [type |-> "Init", m |-> maps[i]]]

-----------------------------------------------------------------------------
(* Consensus: the ledger state after h blocks, and the state new           *)
(* executions may refer to (programs deployed in earlier blocks).          *)

LedgerAt(h) == IF h = 0 THEN InitStore ELSE blocks[h].post

SealedState == LedgerAt(Len(blocks))

Touched(p) == {p[i].m : i \in 1..Len(p)}

Runs(st, p) == p \in Programs => Touched(p) \subseteq {m \in Mappings : st[m] # NotInit}

(* The finalize of an execution, then of its fee, against the ledger;      *)
(* a failure of either rejects the execution, and then only the fee runs.  *)
ProduceExecute(s) ==
    LET r1 == IF s.exec = NoFuture THEN [ok |-> TRUE, ops |-> <<>>, at |-> 0]
              ELSE Finalize(ledger, s.exec)
        mid == WriteOps(ledger, r1.ops)
        r2 == IF s.fee = PrivateFee THEN [ok |-> TRUE, ops |-> <<>>, at |-> 0]
              ELSE Finalize(mid, s.fee)
        r3 == IF s.fee = PrivateFee THEN [ok |-> TRUE, ops |-> <<>>, at |-> 0]
              ELSE Finalize(ledger, s.fee)
        acc == r1.ok /\ r2.ok
        exp == IF acc THEN r1.ops \o r2.ops ELSE r3.ops
    IN /\ acc \/ r3.ok
       /\ pending' = Append(pending, [shape |-> s, accepted |-> acc,
                                      expected |-> exp,
                                      post |-> ExecuteOperations(ledger, exp)])
       /\ ledger' = ExecuteOperations(ledger, exp)

(* A deployment pays its fee first; it is accepted when none of the        *)
(* mappings it declares exists yet.                                        *)
ProduceDeploy(s) ==
    LET rf == IF s.fee = PrivateFee THEN [ok |-> TRUE, ops |-> <<>>, at |-> 0]
              ELSE Finalize(ledger, s.fee)
        acc == \A i \in 1..Len(s.maps) : ledger[s.maps[i]] = NotInit
        exp == IF acc THEN rf.ops \o InitOps(s.maps) ELSE rf.ops
    IN /\ rf.ok
       /\ pending' = Append(pending, [shape |-> s, accepted |-> acc,
                                      expected |-> exp,
                                      post |-> ExecuteOperations(ledger, exp)])
       /\ ledger' = ExecuteOperations(ledger, exp)

ProduceTx(s) ==
    /\ Len(blocks) < MaxBlocks
    /\ Len(pending) < MaxTxs
    /\ Runs(SealedState, s.fee)
    /\ IF s.kind = "deploy" THEN ProduceDeploy(s)
       ELSE Runs(SealedState, s.exec) /\ ProduceExecute(s)
    /\ UNCHANGED <<blocks, storage, cursor, cache, height, txi, txVars,
                   reasons, dbErrors, restarts, readerVars>>

SealBlock ==
    /\ pending # <<>>
    /\ blocks' = Append(blocks, [txs |-> pending, post |-> ledger])
    /\ pending' = <<>>
    /\ UNCHANGED <<ledger, storage, cursor, cache, height, txi, txVars,
                   reasons, dbErrors, restarts, readerVars>>

-----------------------------------------------------------------------------
(* The explorer.  CurTx is confirmed_transaction of finalize_block's loop. *)

InBlock == height < Len(blocks) /\ txi <= Len(blocks[height + 1].txs)
CurTx == blocks[height + 1].txs[txi]
ExpectedPrefix == IF txi = 1 THEN storage ELSE blocks[height + 1].txs[txi - 1].post

(* One call of execute_finalizer.  It reads the local cache first, then    *)
(* the shared cache, loading a missing mapping from committed storage      *)
(* (mapping_cache_read); it writes the local cache, and the shared one     *)
(* when allow_state_change holds or the local cache is the shared one.     *)
View(loc) ==
    [m \in Mappings |->
        IF loc # Alias /\ loc[m] # Unloaded THEN loc[m]
        ELSE IF cache[m] # Unloaded THEN cache[m] ELSE storage[m]]

Loaded(p) ==
    [m \in Mappings |->
        IF m \in Touched(p) /\ cache[m] = Unloaded THEN storage[m] ELSE cache[m]]

RunFinalizer(p, loc, allow) ==
    LET r == Finalize(View(loc), p) IN
    [ok |-> r.ok, ops |-> r.ops, at |-> r.at,
     cache |-> IF allow THEN WriteOps(Loaded(p), r.ops) ELSE Loaded(p),
     local |-> IF loc = Alias THEN Alias
               ELSE [m \in Mappings |->
                        IF WritesTo(r.ops, m) THEN WriteOps(View(loc), r.ops)[m]
                        ELSE loc[m]]]

NothingLoaded == [m \in Mappings |-> Unloaded]

(* A fault propagates out of finalize_block; the caller rolls the cursor   *)
(* back and finalizes the block again from its first transaction.          *)
Abort(c) ==
    /\ cache' = c
    /\ cursor' = storage
    /\ txi' = 1
    /\ pc' = "next"
    /\ local' = NothingLoaded
    /\ ops' = <<>>
    /\ reason' = Why("none")
    /\ reasons' = <<>>

(* finalize_deploy, with _execute_public_fee for a public fee.            *)
FinalizeDeploy ==
    /\ pc = "next" /\ InBlock /\ CurTx.shape.kind = "deploy"
    /\ LET s == CurTx.shape
           r == IF s.fee = PrivateFee
                THEN [ok |-> TRUE, ops |-> <<>>, at |-> 0, cache |-> cache,
                      local |-> NothingLoaded]
                ELSE RunFinalizer(s.fee, NothingLoaded, TRUE)
       IN IF r.ok
          THEN /\ ops' = IF CurTx.accepted THEN r.ops \o InitOps(s.maps) ELSE r.ops
               /\ reason' = IF CurTx.accepted THEN Why("none") ELSE Why("unavailable")
               /\ cache' = r.cache
               /\ local' = r.local
               /\ pc' = "validate"
               /\ UNCHANGED <<cursor, txi, reasons>>
          ELSE Abort(r.cache)
    /\ UNCHANGED <<chainVars, storage, height, dbErrors, restarts, readerVars>>

(* Mutant: the diagnosis is run only when the replay already failed.     *)
NeedsDiagnosisOnFailure(tx, rsn) == ~tx.accepted /\ rsn # Why("none")

(* Line 200: only a RejectedExecute whose replay found no reason goes on  *)
(* to diagnose the rejection through its fee.                              *)
NeedsDiagnosis(tx, rsn) == ~tx.accepted /\ rsn = Why("none")

(* finalize_execute up to its except clause: the execution's future runs  *)
(* in async order; an ExecuteError becomes the reject reason.              *)
FinalizeExecute ==
    /\ pc = "next" /\ InBlock /\ CurTx.shape.kind = "execute"
    /\ LET s == CurTx.shape
           loc == IF CurTx.accepted THEN Alias ELSE NothingLoaded
           r == IF s.exec = NoFuture
                THEN [ok |-> TRUE, ops |-> <<>>, at |-> 0, cache |-> cache, local |-> loc]
                ELSE RunFinalizer(s.exec, loc, CurTx.accepted)
           rsn == IF r.ok THEN Why("none") ELSE [kind |-> "exec_error", at |-> r.at]
       IN /\ ops' = IF r.ok THEN r.ops ELSE <<>>
          /\ reason' = rsn
          /\ cache' = r.cache
          /\ local' = r.local
          /\ pc' = IF NeedsDiagnosis(CurTx, rsn) THEN "diagnose" ELSE "fee"
    /\ UNCHANGED <<chainVars, storage, cursor, height, txi, reasons, dbErrors, restarts, readerVars>>

(* A rejected execution whose replay succeeded: run its fee without state *)
(* change to find out why it was rejected; drop the operations.            *)
DiagnoseReject ==
    /\ pc = "diagnose"
    /\ LET s == CurTx.shape
           r == IF s.fee = PrivateFee
                THEN [ok |-> TRUE, ops |-> <<>>, at |-> 0, cache |-> cache, local |-> local]
                ELSE RunFinalizer(s.fee, local, FALSE)
       IN /\ cache' = r.cache
          /\ local' = r.local
          /\ reason' = IF r.ok THEN Why("unknown") ELSE Why("fee_error")
    /\ ops' = <<>>
    /\ pc' = "fee"
    /\ UNCHANGED <<chainVars, storage, cursor, height, txi, reasons, dbErrors, restarts, readerVars>>

(* The fee of an execution, with state change permitted; its failure is   *)
(* not caught.                                                             *)
FinalizeFee ==
    /\ pc = "fee"
    /\ LET s == CurTx.shape
           r == RunFinalizer(s.fee, local, TRUE)
       IN IF s.fee = PrivateFee
          THEN pc' = "validate" /\ UNCHANGED <<cache, local, ops, reason, cursor, txi, reasons>>
          ELSE IF r.ok
          THEN /\ ops' = ops \o r.ops
               /\ cache' = r.cache
               /\ local' = r.local
               /\ pc' = "validate"
               /\ UNCHANGED <<reason, cursor, txi, reasons>>
          ELSE Abort(r.cache)
    /\ UNCHANGED <<chainVars, storage, height, dbErrors, restarts, readerVars>>

(* Mutant: the value id of an UpdateKeyValue is not compared.            *)
OpMatchesNoValue(e, o) ==
    /\ e.type = o.type
    /\ e.m = o.m
    /\ e.type = "Update" => e.k = o.k

(* The checks of finalize_block on one pair of operations.                *)
OpMatches(e, o) ==
    /\ e.type = o.type
    /\ e.m = o.m
    /\ e.type = "Update" => (e.k = o.k /\ e.v = o.v)

(* Mutant: execute_operations applies the updates but skips the          *)
(* InitializeMapping operations.                                           *)
ValidateSkipsInit ==
    /\ pc = "validate"
    /\ LET e == CurTx.expected IN
       \/ /\ Len(e) # Len(ops)
          /\ Abort(cache)
       \/ /\ Len(e) = Len(ops)
          /\ \E i \in 1..Len(e) : ~OpMatches(e[i], ops[i])
          /\ Abort(NothingLoaded)
       \/ /\ Len(e) = Len(ops)
          /\ \A i \in 1..Len(e) : OpMatches(e[i], ops[i])
          /\ cursor' = WriteOps(cursor, ops)
          /\ reasons' = Append(reasons, reason)
          /\ txi' = txi + 1
          /\ pc' = "next"
          /\ local' = NothingLoaded
          /\ ops' = <<>>
          /\ reason' = Why("none")
          /\ UNCHANGED cache
    /\ UNCHANGED <<chainVars, storage, height, dbErrors, restarts, readerVars>>

(* Length check, then the pairwise checks (a mismatch clears the shared   *)
(* cache), then execute_operations through the cursor.                     *)
Validate ==
    /\ pc = "validate"
    /\ LET e == CurTx.expected IN
       \/ /\ Len(e) # Len(ops)
          /\ Abort(cache)
       \/ /\ Len(e) = Len(ops)
          /\ \E i \in 1..Len(e) : ~OpMatches(e[i], ops[i])
          /\ Abort(NothingLoaded)
       \/ /\ Len(e) = Len(ops)
          /\ \A i \in 1..Len(e) : OpMatches(e[i], ops[i])
          /\ cursor' = ExecuteOperations(cursor, ops)
          /\ reasons' = Append(reasons, reason)
          /\ txi' = txi + 1
          /\ pc' = "next"
          /\ local' = NothingLoaded
          /\ ops' = <<>>
          /\ reason' = Why("none")
          /\ UNCHANGED cache
    /\ UNCHANGED <<chainVars, storage, height, dbErrors, restarts, readerVars>>

(* The caller commits the block's cursor once finalize_block returns.     *)
CommitBlock ==
    /\ pc = "next"
    /\ height < Len(blocks)
    /\ txi > Len(blocks[height + 1].txs)
    /\ storage' = cursor
    /\ height' = height + 1
    /\ txi' = 1
    /\ reasons' = <<>>
    /\ UNCHANGED <<chainVars, cursor, cache, txVars, dbErrors, restarts, readerVars>>

(* A database call fails (get_program, call_graph, mapping_cache_read,    *)
(* or a write of execute_operations): the exception propagates.            *)
DbError ==
    /\ dbErrors < MaxDbErrors
    /\ InBlock
    /\ \/ pc = "next" /\ CurTx.shape.kind = "deploy" /\ CurTx.shape.fee # PrivateFee
       \/ pc = "next" /\ CurTx.shape.kind = "execute" /\ CurTx.shape.exec # NoFuture
       \/ pc \in {"diagnose", "fee"} /\ CurTx.shape.fee # PrivateFee
       \/ pc = "validate" /\ ops # <<>>
    /\ dbErrors' = dbErrors + 1
    /\ Abort(cache)
    /\ UNCHANGED <<chainVars, storage, height, restarts, readerVars>>

(* The process restarts: committed storage survives, memory and the        *)
(* coroutines in flight do not.                                            *)
Restart ==
    /\ restarts < MaxRestarts
    /\ restarts' = restarts + 1
    /\ Abort(NothingLoaded)
    /\ rd' = ReadIdle
    /\ UNCHANGED <<chainVars, storage, height, dbErrors, reads>>

(* get_mapping_value, a coroutine of the same process: a mapping missing   *)
(* from global_mapping_cache is read from committed storage               *)
(* (mapping_cache_read); the rest of the call only reads.                  *)
GetMappingValue(m) ==
    /\ rd = ReadIdle
    /\ reads < MaxReads
    /\ reads' = reads + 1
    /\ rd' = IF cache[m] = Unloaded
             THEN [pc |-> "load", m |-> m, snap |-> storage[m]]
             ELSE ReadIdle
    /\ UNCHANGED <<chainVars, storage, cursor, cache, height, txi, txVars,
                   reasons, dbErrors, restarts>>

(* The read returns and its result is assigned to the cache slot, whatever *)
(* the block finalizer stored there during the await.                      *)
MappingCacheReadReturns ==
    /\ rd.pc = "load"
    /\ cache' = [cache EXCEPT ![rd.m] = rd.snap]
    /\ rd' = ReadIdle
    /\ UNCHANGED <<chainVars, storage, cursor, height, txi, txVars,
                   reasons, dbErrors, restarts, reads>>

-----------------------------------------------------------------------------
Init ==
    /\ blocks = <<>>
    /\ pending = <<>>
    /\ ledger = InitStore
    /\ storage = InitStore
    /\ cursor = InitStore
    /\ cache = NothingLoaded
    /\ height = 0
    /\ txi = 1
    /\ pc = "next"
    /\ local = NothingLoaded
    /\ ops = <<>>
    /\ reason = Why("none")
    /\ reasons = <<>>
    /\ dbErrors = 0
    /\ restarts = 0
    /\ rd = ReadIdle
    /\ reads = 0

Explorer ==
    \/ FinalizeDeploy \/ FinalizeExecute \/ DiagnoseReject \/ FinalizeFee
    \/ Validate \/ CommitBlock

Next ==
    \/ \E s \in TxShapes : ProduceTx(s)
    \/ SealBlock
    \/ Explorer
    \/ DbError
    \/ Restart
    \/ \E m \in Mappings : GetMappingValue(m)
    \/ MappingCacheReadReturns

Spec == Init /\ [][Next]_vars

FairSpec == Spec /\ WF_vars(Explorer)

(* The abstract ledger the explorer's storage follows: the post-state of   *)
(* each sealed block, the committed height, and the committed storage.     *)
Ledger == INSTANCE ExplorerLedger
              WITH States <- Store, Genesis <- InitStore,
                   chain <- [i \in 1..Len(blocks) |-> blocks[i].post],
                   done <- height, store <- storage

-----------------------------------------------------------------------------
TypeOK ==
    /\ blocks \in Seq(Block)
    /\ pending \in Seq(ConfirmedTx)
    /\ ledger \in Store
    /\ storage \in Store
    /\ cursor \in Store
    /\ cache \in Local
    /\ height \in 0..Len(blocks)
    /\ txi \in Nat \ {0}
    /\ pc \in {"next", "diagnose", "fee", "validate"}
    /\ local \in Local \cup {Alias}
    /\ ops \in Seq(Op)
    /\ reason \in Reason
    /\ reasons \in Seq(Reason)
    /\ dbErrors \in 0..MaxDbErrors
    /\ restarts \in 0..MaxRestarts
    /\ rd \in ReaderState
    /\ reads \in 0..MaxReads

(* The explorer's committed storage is the consensus state after the      *)
(* blocks it has finalized, and its cursor the consensus state after the  *)
(* transactions of the current block it has validated: no fault, retry,   *)
(* stale cache or restart lets an operation that consensus did not agree  *)
(* on reach the database (finalize_block validates before                 *)
(* execute_operations).                                                    *)
StoreMatchesLedger ==
    /\ storage = LedgerAt(height)
    /\ pc = "next" /\ InBlock => cursor = ExpectedPrefix

(* Between transactions, every mapping loaded in global_mapping_cache     *)
(* holds what the cursor holds: the spec's "the process-wide cache must    *)
(* reflect exactly the committed storage state".                           *)
CacheCoherent ==
    pc = "next" => \A m \in Mappings : cache[m] \in {Unloaded, cursor[m]}

(* The fee of a rejected execution is charged on the state consensus     *)
(* charged it on, the state before the execution: the writes the rejected *)
(* execution made into local_mapping_cache (line 189) and those of the    *)
(* diagnostic fee run (line 206) are not seen by the fee run of line 223. *)
RejectedFeeReadsLedger ==
    pc = "fee" /\ ~CurTx.accepted /\ CurTx.shape.fee # PrivateFee =>
        \A m \in Touched(CurTx.shape.fee) : View(local)[m] = cursor[m]

(* Every transaction consensus accepted gets no reject reason.            *)
AcceptedHaveNoReason ==
    height < Len(blocks) =>
        \A i \in 1..Len(reasons) :
            blocks[height + 1].txs[i].accepted => reasons[i].kind = "none"

(* Every transaction consensus rejected gets a reject reason, whichever   *)
(* path found it: the unavailable-detail reason of a rejected deploy, the  *)
(* execute error of a failed replay, or, when the replay succeeded, the    *)
(* fee diagnosis of line 200 (fee error or unknown reason).  The reasons  *)
(* finalize_block has collected are those of the block's leading          *)
(* transactions, one each and in order, through aborts and retries.       *)
RejectedHaveReason ==
    height < Len(blocks) =>
        /\ Len(reasons) = txi - 1
        /\ \A i \in 1..Len(reasons) :
               ~blocks[height + 1].txs[i].accepted => reasons[i].kind # "none"

(* Every block consensus sealed is eventually finalized by the explorer.  *)
CatchesUp == \A h \in 0..MaxBlocks - 1 : (Len(blocks) > h) ~> (height > h)

(* The finalizer implements the abstract ledger: through database faults,  *)
(* rollbacks, retries, restarts and concurrent cache fills, committed      *)
(* storage only ever moves from the ledger state after one block to the    *)
(* ledger state after the next (CommitBlock after Validate), and no other  *)
(* step of the process or of the reader touches it.                         *)
FollowsLedger == Ledger!Spec
=============================================================================
