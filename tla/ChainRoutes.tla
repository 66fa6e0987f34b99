----------------------------- MODULE ChainRoutes -----------------------------
(***************************************************************************)
(* The chain pages of the web API, src/webapi/chain_routes.py: the paged   *)
(* block list (blocks_route), the paged validator list (validators_route) *)
(* and the live-update poll of the index page (index_update_route).       *)
(*                                                                         *)
(* The handlers only read the database, which the indexer keeps extending *)
(* with new blocks while a request is served.  The database is a latest   *)
(* height and the validator count at that height; a block is its height,  *)
(* a validator its position in the stake-ordered validator list.  The     *)
(* paged handlers read one height and then ranges fixed by it, so they are *)
(* operators of the database state; index_update_route awaits the latest   *)
(* height and then the recent blocks, and is split at those awaits.       *)
(***************************************************************************)
EXTENDS Integers, FiniteSetsExt

CONSTANTS
    MaxHeight,          \* the highest block the indexer writes in a run
    ValidatorCounts,    \* the validator counts a block may carry
    Pages,              \* the integer page numbers (?p=) a client may send
    LastBlocks,         \* the integer last_block parameters a client may send
    NoParam,            \* a query parameter that is absent
    BadParam            \* a query parameter that int() cannot parse

ASSUME BoundsAssumption ==
    /\ MaxHeight \in Nat
    /\ ValidatorCounts \subseteq Nat
    /\ Pages \subseteq Int
    /\ LastBlocks \subseteq Int
    /\ NoParam \notin Int /\ BadParam \notin Int /\ NoParam # BadParam

(* get_latest_height() returns None: the database holds no block yet.     *)
NoBlock == -1

VARIABLES
    latest,     \* the latest block height in the database, or NoBlock
    nval,       \* the validator count at the latest height
    poll        \* the index_update_route request being served

vars == <<latest, nval, poll>>

-----------------------------------------------------------------------------
(* The database reads the handlers make (db.Database, outside this tree):  *)
(* get_recent_blocks_fast(n) the n newest blocks, get_blocks_range_fast    *)
(* (start, end) the heights in (end, start], get_validators_range_at_height*)
(* (h, start, end) the validators at positions [start, end).               *)
RecentBlocks(n) == {h \in 0..latest : h > latest - n}
BlocksRange(start, end) == {h \in 0..latest : end < h /\ h <= start}
ValidatorsRange(start, end) == {i \in 0..(nval - 1) : start <= i /\ i < end}

Err(code) == [status |-> code, items |-> {}]
Ok(items) == [status |-> 200, items |-> items]

(* The ?p= parameter: absent means page 1, unparsable is rejected.         *)
PageOf(q) == IF q = NoParam THEN 1 ELSE q

(* math.ceil(total_blocks / 20) on integers.                               *)
CeilDiv(a, b) == (a + b - 1) \div b

(* A client may send any page number: the pages of the model include at   *)
(* least every page blocks_route or validators_route can accept.          *)
ASSUME PagesAssumption ==
    /\ 1..CeilDiv(MaxHeight + 1, 20) \subseteq Pages
    /\ \A n \in ValidatorCounts : 1..(n \div 50 + 1) \subseteq Pages

(* Mutant: the page count rounds down, as total_blocks // 20 would.       *)
BlocksRouteFloorPages(q) ==
    IF q = BadParam THEN Err(400)
    ELSE IF latest \in {NoBlock, 0} THEN Err(500)
    ELSE LET total == latest + 1
             page == PageOf(q)
         IN IF page < 1 \/ page > total \div 20 THEN Err(400)
            ELSE LET start == total - 1 - 20 * (page - 1)
                 IN Ok(BlocksRange(start, start - 20))

(* blocks_route: twenty blocks per page, newest first.  `not total_blocks` *)
(* is true for None and for a latest height of 0.                          *)
BlocksRoute(q) ==
    IF q = BadParam THEN Err(400)
    ELSE IF latest \in {NoBlock, 0} THEN Err(500)
    ELSE LET total == latest + 1
             pages == CeilDiv(total, 20)
             page == PageOf(q)
         IN IF page < 1 \/ page > pages THEN Err(400)
            ELSE LET start == total - 1 - 20 * (page - 1)
                 IN Ok(BlocksRange(start, start - 20))

(* Mutant: the first validator of a page is 50 * page.                    *)
ValidatorsRoutePageStart(q) ==
    IF q = BadParam THEN Err(400)
    ELSE IF latest = NoBlock THEN Err(500)
    ELSE IF nval = 0 THEN Err(500)
    ELSE LET pages == (nval \div 50) + 1
             page == PageOf(q)
         IN IF page < 1 \/ page > pages THEN Err(400)
            ELSE Ok(ValidatorsRange(50 * page, 50 * page + 50))

(* validators_route: fifty validators per page at the latest height.       *)
ValidatorsRoute(q) ==
    IF q = BadParam THEN Err(400)
    ELSE IF latest = NoBlock THEN Err(500)
    ELSE IF nval = 0 THEN Err(500)
    ELSE LET pages == (nval \div 50) + 1
             page == PageOf(q)
         IN IF page < 1 \/ page > pages THEN Err(400)
            ELSE Ok(ValidatorsRange(50 * (page - 1), 50 * (page - 1) + 50))

-----------------------------------------------------------------------------
(* index_update_route.  poll.pc is "done" when the last request has been   *)
(* answered, "height" while it awaits get_latest_height() and "fetch"      *)
(* while it awaits get_recent_blocks_fast(count).                          *)
Idle == [pc |-> "done", last |-> 0, height |-> NoBlock, count |-> 0,
         status |-> 200, blocks |-> {}]

Answer(status, blocks) ==
    poll' = [poll EXCEPT !.pc = "done", !.status = status, !.blocks = blocks]

(* get_summary: its get_latest_block() has no block to read the height of *)
(* when the database is empty, and the handler answers with an error.      *)
SummaryFails == latest = NoBlock

(* Lines 36-47: the parameter checks, then get_summary.                    *)
IndexSummary(l) ==
    /\ poll.pc = "done"
    /\ IF l = BadParam \/ l = NoParam \/ l < 0
       THEN poll' = [Idle EXCEPT !.status = 400]
       ELSE IF SummaryFails
       THEN poll' = [Idle EXCEPT !.last = l, !.status = 500]
       ELSE poll' = [Idle EXCEPT !.pc = "height", !.last = l]
    /\ UNCHANGED <<latest, nval>>

(* Mutant: block_count is not capped at ten.                              *)
IndexHeightNoCap ==
    /\ poll.pc = "height"
    /\ LET count == latest - poll.last IN
       IF count < 0
       THEN Answer(200, {})
       ELSE poll' = [poll EXCEPT !.pc = "fetch", !.height = latest, !.count = count]
    /\ UNCHANGED <<latest, nval>>

(* Mutant: block_count counts last_block itself.                          *)
IndexHeightCountsLast ==
    /\ poll.pc = "height"
    /\ LET count == latest - poll.last + 1 IN
       IF count < 0
       THEN Answer(200, {})
       ELSE poll' = [poll EXCEPT !.pc = "fetch", !.height = latest,
                                 !.count = IF count > 10 THEN 10 ELSE count]
    /\ UNCHANGED <<latest, nval>>

(* Lines 49-56: block_count is the number of blocks after last_block,     *)
(* capped at ten; a client ahead of the database gets only the summary.   *)
IndexHeight ==
    /\ poll.pc = "height"
    /\ LET count == latest - poll.last IN
       IF count < 0
       THEN Answer(200, {})
       ELSE poll' = [poll EXCEPT !.pc = "fetch", !.height = latest,
                                 !.count = IF count > 10 THEN 10 ELSE count]
    /\ UNCHANGED <<latest, nval>>

(* Lines 57-59: the count newest blocks of the database as it is now.     *)
IndexFetch ==
    /\ poll.pc = "fetch"
    /\ Answer(200, RecentBlocks(poll.count))
    /\ UNCHANGED <<latest, nval>>

(* The indexer commits the next block, with its validator count.          *)
NewBlock ==
    /\ latest < MaxHeight
    /\ latest' = latest + 1
    /\ nval' \in ValidatorCounts
    /\ UNCHANGED poll

Init ==
    /\ latest = NoBlock
    /\ nval = 0
    /\ poll = Idle

Next ==
    \/ NewBlock
    \/ \E l \in LastBlocks \cup {NoParam, BadParam} : IndexSummary(l)
    \/ IndexHeight
    \/ IndexFetch

Spec == Init /\ [][Next]_vars

-----------------------------------------------------------------------------
(* Every variable holds a value of its type: the poll is a record of the   *)
(* request's local variables, its block_count never above ten.            *)
TypeOK ==
    /\ latest \in {NoBlock} \cup 0..MaxHeight
    /\ nval \in {0} \cup ValidatorCounts
    /\ poll \in [pc : {"done", "height", "fetch"}, last : Int,
                 height : {NoBlock} \cup 0..MaxHeight, count : 0..10,
                 status : {200, 400, 500}, blocks : SUBSET (0..MaxHeight)]

(* The block pages partition the chain: once the database holds more than *)
(* the genesis block, every block is listed on exactly one page the route  *)
(* accepts, and no accepted page is empty (page count, start offset and    *)
(* range bounds of blocks_route agree).                                    *)
BlockPagesPartition ==
    latest >= 1 =>
        /\ \A h \in 0..latest :
               Cardinality({p \in Pages : h \in BlocksRoute(p).items}) = 1
        /\ \A p \in Pages : BlocksRoute(p).status = 200 => BlocksRoute(p).items # {}

(* Every block in the database, the genesis block included, is listed on *)
(* some page of blocks_route.                                              *)
EveryBlockListed ==
    \A h \in 0..latest : \E p \in Pages : h \in BlocksRoute(p).items

(* The validator pages partition the validators of the latest block:      *)
(* every validator is listed on exactly one page validators_route accepts. *)
ValidatorPagesPartition ==
    latest # NoBlock =>
        \A i \in 0..(nval - 1) :
            Cardinality({p \in Pages : i \in ValidatorsRoute(p).items}) = 1

(* Every page validators_route accepts lists at least one validator.      *)
ValidatorPagesNonEmpty ==
    \A p \in Pages : ValidatorsRoute(p).status = 200 => ValidatorsRoute(p).items # {}

(* A live update never repeats what the client has: every recent block it  *)
(* returns lies after last_block, and there are at most ten, however many  *)
(* blocks the indexer commits while the handler awaits the database.       *)
RecentBlocksAfterLast ==
    poll.pc = "done" =>
        /\ \A h \in poll.blocks : h > poll.last
        /\ Cardinality(poll.blocks) <= 10

(* A live update that is not capped at ten blocks holds every block from   *)
(* last_block + 1 to the newest it returns, so a client that continues     *)
(* from the newest block it got misses none.                               *)
RecentBlocksFollowLast ==
    poll.pc = "done" /\ poll.blocks # {} /\ poll.height - poll.last <= 10 =>
        poll.last + 1..Max(poll.blocks) \subseteq poll.blocks
=============================================================================
