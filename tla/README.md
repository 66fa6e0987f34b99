# Formal models of the aleo-explorer finalize engine and chain pages

This directory holds TLA+ models of the part of the explorer that replays the
finalize stage of every confirmed block (`src/interpreter/interpreter.py`), and
of the chain pages of the web API (`src/webapi/chain_routes.py`). It also holds
the TLC configurations that check them, and TLAPS proofs about them.
`PROJECT.json` lists the components, runs, mutants, map from definitions to
source lines, findings, hazards and theorems.

## The system

The explorer follows an Aleo chain. For every block it calls `finalize_block`,
which for each confirmed transaction:

1. replays the transaction's finalize logic. `finalize_deploy` runs the public
   fee and emits one `InitializeMapping` per declared mapping.
   `finalize_execute` first builds the async order of the execution's finalize
   scopes (`build_async_order` / `_trace_execution`). It then runs them through
   the external finalizer (`execute_finalizer`, in `interpreter/finalizer.py`,
   which is not part of this source tree), and then runs the fee;
2. compares the *actual* operations of the replay with the *expected*
   operations consensus recorded: first their number (line 240), then each pair
   (lines 246-267; a pair mismatch clears `global_mapping_cache`);
3. writes the operations through the block's database cursor
   (`execute_operations`) and records the reject reason.

The caller commits the cursor when the block is done, or rolls it back and
retries the block when an exception comes out of `finalize_block`.

Finalizers read mappings through two caches:
- the process-wide `global_mapping_cache`, which survives across blocks and
  retries and is lost only on a restart;
- a transaction-local cache.

An accepted execution uses the shared cache as its local cache and may change
state. A rejected execution gets a fresh `{}` local cache and may not change
shared state. The fee step always runs with `allow_state_change=True` on the
same local cache.

`get_mapping_value` (lines 304-329) is a coroutine of the same process that
reads through the shared cache. On a miss it awaits `mapping_cache_read` of
committed storage and then stores the result in `global_mapping_cache`. It can
run while a block is being finalized.

The HTTP handlers (`src/api`, `src/webapi`) only read the database, which the
indexer keeps extending while a request is served. The configuration and the
logging helpers do not touch shared state.

## Modules

| Module | Models | Kind |
|---|---|---|
| `FinalizeBlock` | the block finalizer, the transaction finalizer, `execute_operations`, both caches, the caller's commit/rollback/retry, database faults, restarts, the concurrent `get_mapping_value` reader; a consensus environment that produces blocks | state machine |
| `ExplorerLedger` | what the explorer promises of its storage: it follows the chain one block at a time | abstract specification |
| `MCFinalizeBlock` | a small instance: one credits mapping with a payer and a receiver key, one mapping a deployment declares, and a tiny finalize interpreter | TLC instance |
| `FinalizeBlockProofs` | TLAPS proof of the type invariant of `FinalizeBlock` | proofs |
| `LedgerProofs` | TLAPS proofs that `StoreMatchesLedger` always holds and that `FinalizeBlock` implements `ExplorerLedger` | proofs |
| `ReasonsProofs` | TLAPS proof that every rejected transaction `finalize_block` has validated carries a reject reason, one per transaction and in order | proofs |
| `ChainRoutes` | `blocks_route`, `validators_route` and `index_update_route`, against an indexer that keeps adding blocks | state machine |
| `ChainRoutesProofs` | TLAPS proofs of the type invariant, `RecentBlocksAfterLast` and both page partitions of `ChainRoutes` | proofs |
| `MCChainRoutes` | pages -1..3, `last_block` values -1, 0, 5, 15, validator counts around the page size of 50, up to 22 blocks | TLC instance |
| `AsyncOrder` | `build_async_order` and `_trace_execution` as recursive operators, and the spec's Async Execution Order as a reference | pure algorithm |
| `MCAsyncOrder` | 816 programs of four functions for `AsyncOrder` | TLC instance |

### FinalizeBlock: state and actions against the code

State:

| Variable | Code |
|---|---|
| `storage` | committed mapping storage |
| `cursor` | the storage as the block's uncommitted cursor sees it |
| `cache` | `global_mapping_cache` (`Unloaded` = mapping not loaded) |
| `local` | `local_mapping_cache` of the current transaction (`Alias` when it *is* the shared cache) |
| `ops`, `reason` | `operations` and `reject_reason` of the current transaction |
| `reasons` | `reject_reasons` of the block |
| `height`, `txi`, `pc` | the block being finalized, the loop index, and where in the loop body it is |
| `rd`, `reads` | the `get_mapping_value` call in flight (idle, or awaiting `mapping_cache_read` with the mapping it read), and the number of calls so far |
| `blocks`, `pending`, `ledger` | the consensus environment: sealed blocks, the block being built, the ledger state |

Consensus (`ProduceTx`, `SealBlock`) executes each transaction with the same
`Finalize` operator against the ledger and records its expected operations. An
execution is accepted when its finalize and its fee both succeed; otherwise only
the fee, run on the pre-state, counts. A deployment is accepted when none of its
mappings exist.

| Action | Code |
|---|---|
| `FinalizeDeploy` | `finalize_deploy` + `_execute_public_fee` (lines 18-67) |
| `FinalizeExecute` | `finalize_execute` up to its `except ExecuteError` (144-199); the async order is abstracted into the program |
| `DiagnoseReject` | lines 200-217: the fee of a rejected execute, run without state change to find a reason |
| `FinalizeFee` | lines 219-224: the fee with state change; its failure is not caught |
| `Validate` | lines 240-270: length check, pairwise checks (`OpMatches`), `execute_operations`, append the reason |
| `CommitBlock` | the caller's commit of the cursor at the end of a block (from the spec) |
| `DbError` | a database call inside the current step raises: the caller rolls the cursor back and retries the block, and the shared cache keeps whatever it holds (from the spec) |
| `Restart` | the process restarts: the cache, the cursor and a reader in flight are lost, storage survives (from the spec) |
| `GetMappingValue(m)` | `get_mapping_value` up to its await (304-307): a mapping missing from the shared cache is read from committed storage |
| `MappingCacheReadReturns` | line 308: the await returns and the mapping read before it is stored in the shared cache, whatever the slot holds by then |

Abstractions:
- Mapping, key and value ids stand for the hashed content.
- Operations are `Init` and `Update` (the model's programs never remove a
  key).
- `Finalize(view, program)` is a constant operator. It is deterministic, as spec
  §5 requires of the finalizer adapter, and returns the operations, success, and
  the failing transition.
- How `execute_finalizer` uses the caches is taken from the spec and is marked
  `spec_modelled` in the map:
  - `View`: local first, then shared, then storage on a miss;
  - `Loaded`: a miss fills the shared cache;
  - `RunFinalizer`: writes go to the local cache, and to the shared cache when
    state change is allowed.

### AsyncOrder

A program gives, per function:
- the callees of its call instructions;
- the operands of its `async` instruction: which call's future, or a plain
  input;
- the awaited parameter of each `await` command;
- whether the function has a finalizer.

`FutureMap` is the loop over instructions with `call_index` (lines 92-106).
`FinalizeMap` is the `async` operand mapping (107-111). `AwaitFrom` is the
await loop with its depth-first recursion (113-126). `BuildAsyncOrder` is lines
129-142. The static call graph (`Program.call_graph`, in `aleo_types`) is taken
from spec §4.1 step 1: one node per call of a function that has a finalizer,
indexed by the callee's position in the transition list, where callees come
before their caller.

### ExplorerLedger and the refinement

`ExplorerLedger` is the promise the explorer makes to readers of its database.
It has three variables:
- `chain`: the ledger state after each sealed block;
- `done`: the number of blocks committed;
- `store`: the committed storage.

`Seal` appends a state to `chain`. `Follow` sets `store` to the state after the
next block and increments `done`. `FinalizeBlock` defines
`Ledger == INSTANCE ExplorerLedger` with this mapping:
- `chain` is the `post` of each sealed block;
- `done` is `height`;
- `store` is `storage`.

`FollowsLedger == Ledger!Spec` is the refinement property. `SealBlock` maps to
`Seal` and `CommitBlock` to `Follow`. Every other step, faults and the reader
included, is a stutter.

### ChainRoutes

The database is modelled by two values:
- `latest`, the latest height, or `NoBlock` (-1) when there is none;
- `nval`, the validator count at that height.

A block is its height, and a validator is its position in the stake order.
`NewBlock` is the indexer committing the next block with some validator count.
The database reads come from the names of the `db` calls, because the `db`
package is outside this tree:
- `get_recent_blocks_fast(n)` returns the `n` newest blocks;
- `get_blocks_range_fast(s, e)` returns the heights in `(e, s]`;
- `get_validators_range_at_height` returns the positions in `[s, e)`.

`blocks_route` and `validators_route` read one height and then ranges fixed by
it. They are therefore operators of the database state, `BlocksRoute(q)` and
`ValidatorsRoute(q)`, with all their early returns. A query parameter is an
integer or one of two model values:
- `NoParam`: the parameter is absent;
- `BadParam`: `int()` cannot parse it.

`index_update_route` awaits the database twice. It is split at those awaits
into three actions, which the indexer can interleave with:
- `IndexSummary`: parameter checks, then `get_summary` (lines 36-47);
- `IndexHeight`: `get_latest_height` and `block_count` (49-56);
- `IndexFetch`: `get_recent_blocks_fast(block_count)` (57-59).

A client may send any integer as `?p=`. The model's finite set `Pages` stands
for them, and `PagesAssumption` requires it to contain every page either route
can accept: `1..ceil((MaxHeight + 1) / 20)`, and `1..(n \div 50 + 1)` for every
validator count `n`. The page partitions say nothing about a page that no
client could send.

## Runs

| Run | Cfg | Expect | What it shows |
|---|---|---|---|
| finalize_safety | `MCFinalizeBlock.cfg` | pass | `TypeOK` and `StoreMatchesLedger`: through one database fault, one restart and one concurrent `get_mapping_value` call, committed storage equals the consensus state of the finalized blocks, and between transactions the cursor equals the consensus state after the validated prefix. Replay against a stale cache can fail or abort a block, but it never gets a wrong operation into the database, because validation comes before `execute_operations`. `RejectedHaveReason`: every rejected transaction finalize_block has got past has a reject reason, and the reasons are one per transaction, in order. |
| accepted_no_faults | `MCAcceptedNoFaults.cfg` | pass | Without database faults or a concurrent reader: `FollowsLedger`: the finalizer implements `ExplorerLedger`. |
| accepted_reason_stale | `MCAcceptedReason.cfg` | violation | One concurrent `get_mapping_value` call, and no database fault, is enough for an accepted transaction to be recorded with a reject reason: see findings 1 and 6. |
| cache_coherent | `MCCacheCoherent.cfg` | violation | Between transactions the shared cache can differ from the cursor. |
| rejected_fee | `MCRejectedFee.cfg` | violation | The charged fee of a rejected execution sees the execution's writes. |
| catches_up | `MCCatchesUp.cfg` | violation | Under weak fairness of the explorer, with no fault, reader or restart, a block is retried forever after a rejected execution's fee fails (finding 4). |
| async_order | `MCAsyncOrder.cfg` | pass | When `build_async_order` returns, its order is the spec's depth-first await order, for all 816 programs. |
| async_wellformed | `MCAsyncWellFormed.cfg` | violation | The tracer raises on a well-formed program. |
| chain_routes | `MCChainRoutes.cfg` | pass | `BlockPagesPartition`: once there is more than the genesis block, every block is on exactly one accepted page, and no accepted page is empty. `ValidatorPagesPartition`: every validator is on exactly one page. `RecentBlocksAfterLast`: a live update returns at most ten blocks, all after `last_block`, whatever the indexer does meanwhile. |
| blocks_genesis | `MCEveryBlockListed.cfg` | violation | With only the genesis block, no page lists it (finding 7). |
| validator_pages | `MCValidatorPagesNonEmpty.cfg` | violation | With 50 or 100 validators, the last accepted page is empty (finding 8). |
| recent_blocks_race | `MCRecentBlocksFollowLast.cfg` | violation | A live update can skip blocks after `last_block` (finding 9). |

### Bounds

`MCFinalizeBlock` bounds:
- two blocks of up to two transactions;
- values 0..2;
- at most one database fault, one restart and one `get_mapping_value` call.

`MCCatchesUp.cfg` uses the wider instance of `MCFinalizeBlock`: one block of
up to three transactions, values 0..3, a payer holding 3, no fault, reader or
restart, and two shapes (a payment with a public fee, and `AssertTwoProg`,
which asserts the receiver can still be paid 2). Three transactions are the
fewest that reach the loop of finding 4: two accepted ones write the shared
cache, and a rejected payment then spends the fee's balance.

`MCFinalizeBlock.cfg` and `MCAcceptedReason.cfg` add the shape that runs
`PaidProg`, an execution that asserts the receiver was paid. Replayed against
an older mapping, it fails where consensus accepted it. The other runs leave it
out, because it adds states and no control path to them.

The payer's balance of 2 allows exactly one payment plus fee, so the instance
contains:
- accepted and rejected executions, including a rejected one whose fee fails
  after the execution;
- a deployment before and after its mapping exists;
- private and public fees;
- an assertion-only execution, accepted before the payment and rejected after
  it.

Every action and every branch of every action fires in the passing runs (TLC
coverage). Larger values add no control path.

`MCChainRoutes` bounds:
- up to 22 blocks, so that there is a second page of 20 blocks and a count of
  blocks after `last_block` above the cap of ten;
- validator counts 0, 1, 49, 50, 51 and 100: empty, one, and either side of the
  page size of 50;
- pages -1..3 and `last_block` values -1, 0, 5 and 15, plus the absent and
  unparsable parameter. This covers every early return, and both a
  `last_block` behind the database and one ahead of it.

`MCAsyncOrder`:
- the root calls up to three of `A`, `B` and `X` (without a finalizer);
- `A` calls nothing, `B`, or `X` then `B`;
- every permutation of the awaits is tried, plus an await of a plain input.

This covers nesting, awaits out of static order, repeated callees, and the
three error exits.

### Fairness

`CatchesUp` is checked under `WF_vars(Explorer)`. Block processing is a loop
that keeps running while blocks are available. The consensus environment,
database faults and restarts get no fairness: they may or may not happen.
The `get_mapping_value` reader gets no fairness either: nothing in the tree
calls it. `ChainRoutes` checks only safety. Deadlock checking is off for
`MCFinalizeBlock`: the chain stops when `MaxBlocks`
is reached or the payer is out of funds, and the explorer then idles.

## Findings

1. **Accepted transaction recorded as rejected** (interpreter.py:191).
   - The `except ExecuteError` of `finalize_execute` catches failures of
     accepted executions too.
   - Whenever the shared cache differs from the cursor, an accepted execution
     whose finalize only asserts can fail on replay. This happens after a
     concurrent `get_mapping_value` fill (finding 6, the trace of
     `accepted_reason_stale`), after a database fault, and with neither: after
     the aborted fee of finding 4, which leaves the cache ahead of the
     rolled-back cursor.
   - Its empty operation list matches the empty expected list, so the block
     commits with a reject reason for an accepted transaction.
2. **The cache is cleared only on a pairwise mismatch** (line 266). It is not
   cleared on the length mismatch (244), an uncaught fee error (223) or a
   database exception. Spec §3 and §8 require a re-fetch after any mismatch.
3. **The fee of a rejected execution reuses its local cache** (lines 189, 206,
   223), so the fee is replayed on the rejected execution's writes.
4. **A rejected execution's fee can wedge block processing** (223).
   - The comment at line 221 says the charged fee is bound to succeed. It is
     replayed on the rejected execution's writes (finding 3), and fails when
     they spent its balance: the case the comment at line 202 names.
   - The `ExecuteError` is not caught. The abort rolls back the cursor but
     leaves the block's earlier writes in the shared cache (finding 2).
   - The retry replays the first accepted payment on that ahead cache. It
     fails, and its own fee fails at line 223 again. The block is retried
     forever, with no database fault, reader or restart (`catches_up`).
5. **`call_index` counts calls without a finalizer** (100). The spec's call
   graph lists only calls with a finalizer, so a later call is matched to the
   wrong node: an `IndexError` or "call analysis failed".

   This depends on the call graph listing only calls with a finalizer, as spec
   §4.1 says. `Program.call_graph` is outside this tree.
6. **`get_mapping_value` overwrites the block's cache writes** (line 308).
   - It finds a mapping missing, awaits the committed mapping, and then
     assigns it, whatever the slot holds by then.
   - In between, the block's earlier transactions may have loaded and updated
     that mapping in the shared cache. Their writes are replaced by the older
     committed value.
   - The run `accepted_reason_stale` shows a later accepted `PaidProg` then
     failing on replay, with no database fault.
   - Spec §5 forbids writing the shared cache from a concurrent read path.
   - `StoreMatchesLedger` still holds, because validation stops a wrong
     operation from reaching storage.
7. **The genesis block is never listed** (chain_routes.py:122).
   `not total_blocks` is also true for height 0, so with only the genesis
   block `blocks_route` answers 500. The next line counts the genesis block.
8. **One validator page too many** (chain_routes.py:150).
   `total_validators // 50 + 1` is one too many when the count is a multiple
   of 50. The route accepts that page and answers an empty list.
9. **A live update can skip blocks** (chain_routes.py:57).
   - `block_count` is computed from one height and then used for a later read
     of the newest blocks.
   - If the indexer commits blocks in between, the answer starts above
     `last_block + 1`.
   - A client that continues from the newest block it got never sees the
     skipped blocks.

## Proofs

All the theorems hold for every value of the constants. They assume the named
`ASSUME`s of `FinalizeBlock`:
- the bounds are naturals;
- the sentinels lie outside the value sets;
- the initial store, the programs and the shapes are well typed;
- `Finalize` returns a `Result` on every store and program.

`FinalizeBlockProofs` proves `THEOREM TypeCorrect == Spec => []TypeOK`.
`TypeOK` alone is not inductive: `DiagnoseReject`, `FinalizeFee` and
`Validate` read `CurTx` without checking that a block is in progress. The
inductive invariant `IInv` adds `pc # "next" => InBlock`. The proof has three
parts:
- `IInvInit`: `Init => IInv`;
- `IInvStep`: `IInv /\ [Next]_vars => IInv'`, with one lemma per action;
- `IInv => TypeOK`.

It rests on these lemmas:
- `LastValueType`, `WriteOpsType`, `ExecuteOperationsType`: applying
  operations keeps a store a store;
- `RunFinalizerType`: the finalizer returns typed results and caches;
- `CurTxType`, `AbortType`.

`LedgerProofs` proves two theorems:
- `StoreMatchesLedgerHolds == Spec => []StoreMatchesLedger`;
- `LedgerRefinement == Spec => FollowsLedger`.

They hold through database faults, rollbacks, restarts and concurrent
`get_mapping_value` fills.

`StoreMatchesLedger` is not inductive either: it speaks of the consensus
chain without saying how the chain was built. The inductive invariant `LInv`
adds three things to `IInv`:
- `ChainWF`: every sealed block is non-empty; each transaction's `post` is its
  expected operations applied to the state before it; the block's `post` is
  that of its last transaction;
- `PendingWF`: the same for the block being built, and the ledger is the
  `post` of its last transaction;
- `CursorInv`: committed storage is the ledger at `height`; `txi` stays within
  the block, and is 1 between blocks; the cursor is the state after the
  validated prefix, in every phase of the loop.

The argument rests on three facts:
- `OpMatchesEq` and `MatchedOpsEq`: operations that pass the length and
  pairwise checks of `finalize_block` are the expected ones, so `Validate`
  moves the cursor to the transaction's `post`;
- `FrameStep`: the replay steps, the faults and the reader either leave the
  cursor and `txi` alone or roll the block back to committed storage;
- `CommitBlockLedger`: at the end of a block the cursor is the block's `post`.

The refinement uses the same invariant. `RefinementStep` shows that
`SealBlock` is `Ledger!Seal`, that `CommitBlock` is `Ledger!Follow`, and that
every other step leaves `chain`, `done` and `store` alone.

`ReasonsProofs` proves `RejectedHaveReasonHolds == Spec =>
[]RejectedHaveReason`: `reject_reasons` holds one entry per validated
transaction of the current block, and every rejected one has a reason. The
reason is found on one of three paths: a rejected deploy's unavailable-detail
reason, the execute error of a failed replay, or the fee diagnosis of line 200
when the replay succeeded. The property is not inductive: it says nothing of
the transaction in flight. The inductive invariant adds to `IInv`:
- `TxiBound`: `txi` runs at most one past the block's last transaction;
- `BetweenBlocks`: between blocks `txi = 1` and no reasons are collected;
- `PendingReason`: a rejected transaction at its charged fee or at validation
  already has its reason.

`FinalizeExecute` sends a rejected execution whose replay found no reason to
the diagnosis (`NeedsDiagnosis`), which always names one. `Validate` appends
it at position `txi`. An abort, a restart and `CommitBlock` reset the
collected reasons. TLC checked the invariant on the `finalize_safety` instance
and on the wider instance of `catches_up` before it was proved.

The model avoids recursion so that it stays provable. "Last write wins" is
written in closed form, `LastValue`, and the finalize interpreter is a constant
operator.

`ChainRoutesProofs` proves four theorems about the chain routes. They assume
`BoundsAssumption` (the bounds are naturals, the parameters integers, the two
sentinels not integers) and `PagesAssumption` (see ChainRoutes above):
- `ChainTypeCorrect == Spec => []TypeOK`;
- `RecentBlocksAfterLastHolds == Spec => []RecentBlocksAfterLast`;
- `BlockPagesPartitionHolds == Spec => []BlockPagesPartition`;
- `ValidatorPagesPartitionHolds == Spec => []ValidatorPagesPartition`.

`RecentBlocksAfterLast` is not inductive. While `index_update_route` awaits
the recent blocks, nothing in it says that `block_count` still fits after
`last_block`. The inductive invariant `RInv` adds `FetchBound`: in the
`"fetch"` phase, `last_block + block_count <= latest`. `IndexHeight`
establishes it (`block_count <= latest - last_block`), and `NewBlock` keeps it
because the indexer only raises `latest`. `IndexFetch` then returns heights
above `latest - block_count >= last_block`. Those heights lie in an interval of
`block_count <= 10` integers (`RecentBlocksCard`, from `FS_Interval` and
`FS_Subset`). TLC checked `RInv` on the `chain_routes` instance before it was
proved.

The page partitions need only `TypeOK` and arithmetic:
- `BlockPage`: on an integer page `p`, block `h` is listed iff
  `p = (latest - h) \div 20 + 1`;
- `BlockPageStart`: an accepted page lists its first block
  `latest - 20(p - 1)`;
- `ValidatorPage`: validator `i` is listed iff `p = i \div 50 + 1`.

So the set of pages that list a block or a validator is a singleton. Its page
is one the client may send by `PagesAssumption`.

Only model-checked:
- `AcceptedHaveNoReason` is no theorem: it is false. An attempt to prove it
  for the fault-free, reader-free model found no inductive strengthening, and
  TLC then showed why on the wider instance of `MCCatchesUp.cfg` checked as an
  invariant: the aborted fee of finding 4 leaves the cache ahead and a retried
  accepted execution is recorded with a reason. The property stays as the
  violation run `accepted_reason_stale` and left the passing run.
- The liveness property `CatchesUp`, which needs fairness and `ENABLED`, out
  of TLAPS' reach.
- Everything about `AsyncOrder`, whose operators are recursive: tlapm cannot
  reason about `RECURSIVE` operators or induct over data.
- The violation runs of `ChainRoutes` (`EveryBlockListed`,
  `ValidatorPagesNonEmpty`, `RecentBlocksFollowLast`): they record
  disagreements, not theorems.

## Not modelled

- `mapping_routes.py`. Its paging hands a count and a cursor to
  `get_mapping_key_value`, whose behaviour lives in the `db` package outside
  this tree.
- `recent_blocks_route` and `block_route`. They are a single database read with
  no arithmetic or interleaving.
- `load_input_from_arguments`, a pure conversion.
- `preview_finalize_execution` and its route: throw-away caches, no state
  change.
- `RemoveKeyValue`.
- Configuration (pledge settings) and logging.

## Plan

1. Model the mapping routes once the `db` package's paging semantics are
   available.
