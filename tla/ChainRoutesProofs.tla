-------------------------- MODULE ChainRoutesProofs --------------------------
(***************************************************************************)
(* Proofs about the chain pages of the web API, for every value of the     *)
(* constants: the block and validator pages partition what they list, and *)
(* the live update of the index page returns at most ten blocks, all after *)
(* the client's last_block, however the indexer interleaves with it.       *)
(***************************************************************************)
EXTENDS ChainRoutes, FiniteSetTheorems, TLAPS

(* What index_update_route keeps between its two awaits: the count it     *)
(* asks for leaves last_block at or below the newest block minus count,    *)
(* and the indexer only ever raises the newest block.                     *)
FetchBound == poll.pc = "fetch" => poll.last + poll.count <= latest

RInv == TypeOK /\ FetchBound /\ RecentBlocksAfterLast

PollType == [pc : {"done", "height", "fetch"}, last : Int,
             height : {NoBlock} \cup 0..MaxHeight, count : 0..10,
             status : {200, 400, 500}, blocks : SUBSET (0..MaxHeight)]

-----------------------------------------------------------------------------
(* The recent blocks of the database are finite and number at most the    *)
(* count asked for.                                                        *)
LEMMA RecentBlocksCard ==
    ASSUME NEW l \in Int, NEW n \in 0..10
    PROVE  /\ IsFiniteSet({h \in 0..l : h > l - n})
           /\ Cardinality({h \in 0..l : h > l - n}) <= 10
<1> DEFINE R == {h \in 0..l : h > l - n}
           I == (l - n + 1)..l
<1>1. R \subseteq I
  OBVIOUS
<1>2. IsFiniteSet(I) /\ Cardinality(I) <= 10
  BY FS_Interval
<1>3. IsFiniteSet(R) /\ Cardinality(R) <= Cardinality(I)
  BY <1>1, <1>2, FS_Subset
<1>4. Cardinality(R) \in Nat /\ Cardinality(I) \in Nat
  BY <1>2, <1>3, FS_CardinalityType
<1> QED
  BY <1>2, <1>3, <1>4

(* A poll record is the record of its six fields.                         *)
LEMMA PollFields ==
    ASSUME NEW r \in PollType
    PROVE  r = [pc |-> r.pc, last |-> r.last, height |-> r.height,
                count |-> r.count, status |-> r.status, blocks |-> r.blocks]
  BY DEF PollType

LEMMA RInvInit == Init => RInv
<1> SUFFICES ASSUME Init PROVE RInv
  OBVIOUS
<1>1. TypeOK
  BY BoundsAssumption DEF Init, TypeOK, Idle, NoBlock
<1>2. Cardinality(poll.blocks) <= 10
  BY FS_EmptySet DEF Init, Idle
<1> QED
  BY <1>1, <1>2 DEF Init, Idle, FetchBound, RecentBlocksAfterLast, RInv

LEMMA RInvStep == RInv /\ [Next]_vars => RInv'
<1> SUFFICES ASSUME RInv, [Next]_vars PROVE RInv'
  OBVIOUS
<1> USE BoundsAssumption
<1>0. poll \in PollType /\ latest \in {NoBlock} \cup 0..MaxHeight
  BY DEF RInv, TypeOK, PollType
(* A request step leaves the database alone; it keeps the invariant when   *)
(* the new poll record keeps it.                                           *)
<1>1. ASSUME UNCHANGED <<latest, nval>>, poll' \in PollType,
             poll'.pc = "fetch" => poll'.last + poll'.count <= latest,
             poll'.pc = "done" => /\ \A h \in poll'.blocks : h > poll'.last
                                  /\ Cardinality(poll'.blocks) <= 10
      PROVE  RInv'
  BY <1>1 DEF RInv, TypeOK, PollType, FetchBound, RecentBlocksAfterLast
<1>2. Cardinality({}) <= 10
  BY FS_EmptySet
<1>3. Idle \in PollType
  BY DEF Idle, PollType, NoBlock
<1>4. CASE NewBlock
  BY <1>4 DEF NewBlock, RInv, TypeOK, FetchBound, RecentBlocksAfterLast, NoBlock
<1>5. ASSUME NEW l \in LastBlocks \cup {NoParam, BadParam}, IndexSummary(l)
      PROVE  RInv'
  <2>1. UNCHANGED <<latest, nval>>
    BY <1>5 DEF IndexSummary
  <2>0. ~(l = BadParam \/ l = NoParam \/ l < 0) => l \in Int
    OBVIOUS
  <2>2. CASE l = BadParam \/ l = NoParam \/ l < 0
    <3>1. poll' = [Idle EXCEPT !.status = 400]
      BY <1>5, <2>2 DEF IndexSummary
    <3>2. poll' \in PollType /\ poll'.pc = "done" /\ poll'.blocks = {}
      BY <1>3, <3>1 DEF Idle, PollType
    <3> QED
      BY <1>1, <1>2, <2>1, <3>2
  <2>3. CASE ~(l = BadParam \/ l = NoParam \/ l < 0) /\ SummaryFails
    <3>1. poll' = [Idle EXCEPT !.last = l, !.status = 500]
      BY <1>5, <2>3 DEF IndexSummary
    <3>2. poll' = [pc |-> "done", last |-> l, height |-> NoBlock, count |-> 0,
                   status |-> 500, blocks |-> {}]
      BY <3>1 DEF Idle
    <3>3. poll' \in PollType /\ poll'.pc = "done" /\ poll'.blocks = {}
      <4>1. l \in Int
        BY <2>0, <2>3
      <4>2. [pc |-> "done", last |-> l, height |-> NoBlock, count |-> 0,
             status |-> 500, blocks |-> {}] \in PollType
        BY <4>1 DEF PollType
      <4> QED
        BY <3>2, <4>2
    <3> QED
      BY <1>1, <1>2, <2>1, <3>3
  <2>4. CASE ~(l = BadParam \/ l = NoParam \/ l < 0) /\ ~SummaryFails
    <3>1. poll' = [Idle EXCEPT !.pc = "height", !.last = l]
      BY <1>5, <2>4 DEF IndexSummary
    <3>2. poll' = [pc |-> "height", last |-> l, height |-> NoBlock, count |-> 0,
                   status |-> 200, blocks |-> {}]
      BY <3>1 DEF Idle
    <3>3. poll' \in PollType /\ poll'.pc = "height"
      <4>1. l \in Int
        BY <2>0, <2>4
      <4>2. [pc |-> "height", last |-> l, height |-> NoBlock, count |-> 0,
             status |-> 200, blocks |-> {}] \in PollType
        BY <4>1 DEF PollType
      <4> QED
        BY <3>2, <4>2
    <3> QED
      BY <1>1, <2>1, <3>3
  <2> QED
    BY <2>2, <2>3, <2>4
<1>6. CASE IndexHeight
  <2>1. UNCHANGED <<latest, nval>>
    BY <1>6 DEF IndexHeight
  <2>2. CASE latest - poll.last < 0
    <3>1. poll' = [poll EXCEPT !.pc = "done", !.status = 200, !.blocks = {}]
      BY <1>6, <2>2 DEF IndexHeight, Answer
    <3>2. poll' \in PollType /\ poll'.pc = "done" /\ poll'.blocks = {}
      BY <1>0, <3>1 DEF PollType
    <3> QED
      BY <1>1, <1>2, <2>1, <3>2
  <2>3. CASE ~(latest - poll.last < 0)
    <3> DEFINE c == IF latest - poll.last > 10 THEN 10 ELSE latest - poll.last
    <3>1. poll' = [poll EXCEPT !.pc = "fetch", !.height = latest, !.count = c]
      BY <1>6, <2>3 DEF IndexHeight
    <3>2. c \in 0..10 /\ poll.last + c <= latest
      BY <1>0, <2>3 DEF PollType, NoBlock
    <3>3. poll' = [pc |-> "fetch", last |-> poll.last, height |-> latest,
                   count |-> c, status |-> poll.status, blocks |-> poll.blocks]
      <4>1. poll = [pc |-> poll.pc, last |-> poll.last, height |-> poll.height,
                    count |-> poll.count, status |-> poll.status,
                    blocks |-> poll.blocks]
        BY <1>0, PollFields
      <4> QED
        BY <3>1, <4>1
    <3>4. poll' \in PollType /\ poll'.pc = "fetch"
          /\ poll'.last + poll'.count <= latest
      <4>1. poll.last \in Int /\ poll.status \in {200, 400, 500}
            /\ poll.blocks \in SUBSET (0..MaxHeight)
        BY <1>0 DEF PollType
      <4>2. latest \in {NoBlock} \cup 0..MaxHeight
        BY <1>0
      <4>3. [pc |-> "fetch", last |-> poll.last, height |-> latest,
             count |-> c, status |-> poll.status, blocks |-> poll.blocks]
            \in PollType
        BY <3>2, <4>1, <4>2 DEF PollType
      <4> QED
        BY <3>2, <3>3, <4>3
    <3> QED
      BY <1>1, <2>1, <3>4
  <2> QED
    BY <2>2, <2>3
<1>7. CASE IndexFetch
  <2> DEFINE R == {h \in 0..latest : h > latest - poll.count}
  <2>1. UNCHANGED <<latest, nval>> /\ poll.pc = "fetch"
    BY <1>7 DEF IndexFetch
  <2>2. poll' = [poll EXCEPT !.pc = "done", !.status = 200, !.blocks = R]
    BY <1>7 DEF IndexFetch, Answer, RecentBlocks
  <2>3. latest \in Int /\ poll.count \in 0..10
    BY <1>0 DEF PollType, NoBlock
  <2>4. Cardinality(R) <= 10
    BY <2>3, RecentBlocksCard
  <2>5. \A h \in R : h > poll.last
    <3>1. poll.last + poll.count <= latest
      BY <2>1 DEF RInv, FetchBound
    <3> QED
      BY <1>0, <2>3, <3>1 DEF PollType
  <2>6. poll' \in PollType
    <3>1. poll' = [pc |-> "done", last |-> poll.last, height |-> poll.height,
                   count |-> poll.count, status |-> 200, blocks |-> R]
      <4>1. poll = [pc |-> poll.pc, last |-> poll.last, height |-> poll.height,
                    count |-> poll.count, status |-> poll.status,
                    blocks |-> poll.blocks]
        BY <1>0, PollFields
      <4> QED
        BY <2>2, <4>1
    <3>2. /\ poll.last \in Int /\ poll.height \in {NoBlock} \cup 0..MaxHeight
          /\ R \in SUBSET (0..MaxHeight)
      BY <1>0 DEF PollType, NoBlock
    <3>3. [pc |-> "done", last |-> poll.last, height |-> poll.height,
           count |-> poll.count, status |-> 200, blocks |-> R] \in PollType
      BY <2>3, <3>2 DEF PollType
    <3> QED
      BY <3>1, <3>3
  <2> QED
    BY <1>1, <2>1, <2>2, <2>4, <2>5, <2>6
<1>8. CASE UNCHANGED vars
  BY <1>8 DEF vars, RInv, TypeOK, FetchBound, RecentBlocksAfterLast
<1> QED
  BY <1>4, <1>5, <1>6, <1>7, <1>8 DEF Next

(* Every reachable state has well-typed variables.                         *)
THEOREM ChainTypeCorrect == Spec => []TypeOK
<1>1. RInv => TypeOK
  BY DEF RInv
<1> QED
  BY RInvInit, RInvStep, <1>1, PTL DEF Spec

(* index_update_route answers every live update with at most ten blocks,  *)
(* all after the client's last_block, whatever the indexer commits between *)
(* the handler's reads of the latest height and of the recent blocks.      *)
THEOREM RecentBlocksAfterLastHolds == Spec => []RecentBlocksAfterLast
<1>1. RInv => RecentBlocksAfterLast
  BY DEF RInv
<1> QED
  BY RInvInit, RInvStep, <1>1, PTL DEF Spec

-----------------------------------------------------------------------------
(* blocks_route on an integer page once the chain has more than genesis:   *)
(* page p lists the heights latest - 20p < h <= latest - 20(p - 1).        *)
LEMMA BlockPage ==
    ASSUME latest \in Nat, latest >= 1, NEW p \in Int, NEW h \in 0..latest
    PROVE  h \in BlocksRoute(p).items <=> p = (latest - h) \div 20 + 1
<1>1. BlocksRoute(p) =
        IF p < 1 \/ p > (latest + 20) \div 20 THEN Err(400)
        ELSE Ok(BlocksRange(latest - 20 * (p - 1), latest - 20 * (p - 1) - 20))
  BY BoundsAssumption DEF BlocksRoute, PageOf, CeilDiv, NoBlock
<1>2. h \in BlocksRoute(p).items <=>
        /\ 1 <= p /\ p <= (latest + 20) \div 20
        /\ latest - 20 * p < h /\ h <= latest - 20 * (p - 1)
  BY <1>1 DEF Err, Ok, BlocksRange
<1>3. (/\ 1 <= p /\ p <= (latest + 20) \div 20
       /\ latest - 20 * p < h /\ h <= latest - 20 * (p - 1))
      <=> p = (latest - h) \div 20 + 1
  OBVIOUS
<1> QED
  BY <1>2, <1>3

(* On an accepted page, its first block latest - 20(p - 1) is a block.    *)
LEMMA BlockPageStart ==
    ASSUME latest \in Nat, latest >= 1, NEW p \in Int,
           BlocksRoute(p).status = 200
    PROVE  latest - 20 * (p - 1) \in BlocksRoute(p).items
<1>1. BlocksRoute(p) =
        IF p < 1 \/ p > (latest + 20) \div 20 THEN Err(400)
        ELSE Ok(BlocksRange(latest - 20 * (p - 1), latest - 20 * (p - 1) - 20))
  BY BoundsAssumption DEF BlocksRoute, PageOf, CeilDiv, NoBlock
<1>2. 1 <= p /\ p <= (latest + 20) \div 20
  BY <1>1 DEF Err
<1>3. latest - 20 * (p - 1) \in 0..latest
  BY <1>2
<1> QED
  BY <1>1, <1>2, <1>3 DEF Ok, BlocksRange

(* Block h is on page (latest - h) \div 20 + 1 and on no other, and that   *)
(* page is one a client may send.                                          *)
LEMMA BlockPagesPartitionInv == TypeOK => BlockPagesPartition
<1> SUFFICES ASSUME TypeOK, latest >= 1
             PROVE  /\ \A h \in 0..latest :
                        Cardinality({p \in Pages : h \in BlocksRoute(p).items}) = 1
                    /\ \A p \in Pages : BlocksRoute(p).status = 200 =>
                                           BlocksRoute(p).items # {}
  BY DEF BlockPagesPartition
<1>1. latest \in Nat /\ latest <= MaxHeight
  BY BoundsAssumption DEF TypeOK, NoBlock
<1>2. ASSUME NEW h \in 0..latest
      PROVE  Cardinality({p \in Pages : h \in BlocksRoute(p).items}) = 1
  <2> DEFINE p0 == (latest - h) \div 20 + 1
  <2>1. p0 \in 1..CeilDiv(MaxHeight + 1, 20)
    BY <1>1, BoundsAssumption DEF CeilDiv
  <2>2. p0 \in Pages
    BY <2>1, PagesAssumption
  <2>3. {p \in Pages : h \in BlocksRoute(p).items} = {p0}
    BY <1>1, <2>2, BlockPage, BoundsAssumption
  <2> QED
    BY <2>3, FS_Singleton
<1>3. ASSUME NEW p \in Pages, BlocksRoute(p).status = 200
      PROVE  BlocksRoute(p).items # {}
  BY <1>1, <1>3, BlockPageStart, BoundsAssumption
<1> QED
  BY <1>2, <1>3

(* blocks_route pages the chain: once it holds more than the genesis       *)
(* block, every block is listed on exactly one accepted page and no        *)
(* accepted page is empty, for any chain length and any set of pages that  *)
(* includes the ones the route accepts.                                    *)
THEOREM BlockPagesPartitionHolds == Spec => []BlockPagesPartition
BY ChainTypeCorrect, BlockPagesPartitionInv, PTL

-----------------------------------------------------------------------------
(* validators_route on an integer page: page p lists the validators at     *)
(* positions 50(p - 1) to 50p - 1.                                         *)
LEMMA ValidatorPage ==
    ASSUME latest # NoBlock, nval \in Nat, NEW p \in Int, NEW i \in 0..(nval - 1)
    PROVE  i \in ValidatorsRoute(p).items <=> p = i \div 50 + 1
<1>1. ValidatorsRoute(p) =
        IF p < 1 \/ p > nval \div 50 + 1 THEN Err(400)
        ELSE Ok(ValidatorsRange(50 * (p - 1), 50 * (p - 1) + 50))
  BY BoundsAssumption DEF ValidatorsRoute, PageOf
<1>2. i \in ValidatorsRoute(p).items <=>
        /\ 1 <= p /\ p <= nval \div 50 + 1
        /\ 50 * (p - 1) <= i /\ i < 50 * (p - 1) + 50
  BY <1>1 DEF Err, Ok, ValidatorsRange
<1>3. (/\ 1 <= p /\ p <= nval \div 50 + 1
       /\ 50 * (p - 1) <= i /\ i < 50 * (p - 1) + 50)
      <=> p = i \div 50 + 1
  OBVIOUS
<1> QED
  BY <1>2, <1>3

(* Validator i is on page i \div 50 + 1 and on no other.                  *)
LEMMA ValidatorPagesPartitionInv == TypeOK => ValidatorPagesPartition
<1> SUFFICES ASSUME TypeOK, latest # NoBlock, NEW i \in 0..(nval - 1)
             PROVE  Cardinality({p \in Pages : i \in ValidatorsRoute(p).items}) = 1
  BY DEF ValidatorPagesPartition
<1>1. nval \in ValidatorCounts /\ nval \in Nat
  BY BoundsAssumption DEF TypeOK
<1> DEFINE p0 == i \div 50 + 1
<1>2. p0 \in 1..(nval \div 50 + 1)
  BY <1>1
<1>3. p0 \in Pages
  BY <1>1, <1>2, PagesAssumption
<1>4. {p \in Pages : i \in ValidatorsRoute(p).items} = {p0}
  BY <1>1, <1>3, ValidatorPage, BoundsAssumption
<1> QED
  BY <1>4, FS_Singleton

(* validators_route pages the validators of the latest block: each one is *)
(* listed on exactly one accepted page, for any validator count.          *)
THEOREM ValidatorPagesPartitionHolds == Spec => []ValidatorPagesPartition
BY ChainTypeCorrect, ValidatorPagesPartitionInv, PTL
=============================================================================
