----------------------------- MODULE MsgBufPool -----------------------------
(***************************************************************************)
(* MsgBufPool: heap memory for message buffers, as many at a time as its   *)
(* statistics allow. The pool keeps no list of its buffers; all that it    *)
(* knows is the number in ItemsInUse, which its mutex mut_ protects. Each  *)
(* operation is one critical section of mut_ and one action here, for      *)
(* MsgBroker to compose.                                                   *)
(***************************************************************************)
EXTENDS Naturals, FiniteSets

CONSTANTS
  Bufs,         \* addresses the heap hands out
  NumItems,     \* Stats::NumItems
  CounterLimit  \* number of values of a size_t, where its counters wrap

ASSUME BufsAssumption == IsFiniteSet(Bufs)
ASSUME NumItemsAssumption == NumItems \in Nat /\ NumItems <= Cardinality(Bufs)
ASSUME CounterLimitAssumption == CounterLimit \in Nat /\ NumItems < CounterLimit

VARIABLES
  heap,         \* the buffers that are allocated and not deleted
  ItemsInUse, WaterMark, AllocCount, ReleaseCount   \* Stats

poolVars == <<heap, ItemsInUse, WaterMark, AllocCount, ReleaseCount>>

Counter == 0 .. CounterLimit - 1

\* Unsigned ++ and --.
Incr(n) == IF n = CounterLimit - 1 THEN 0 ELSE n + 1
Decr(n) == IF n = 0 THEN CounterLimit - 1 ELSE n - 1

PoolTypeOK ==
  /\ heap \subseteq Bufs
  /\ ItemsInUse \in Counter
  /\ WaterMark \in Counter
  /\ AllocCount \in Counter
  /\ ReleaseCount \in Counter

PoolInit ==
  /\ heap = {}
  /\ ItemsInUse = 0
  /\ WaterMark = 0
  /\ AllocCount = 0
  /\ ReleaseCount = 0

\* Off by one: as mem_avail, letting one more buffer out than there are.
mem_avail_closed == ItemsInUse <= NumItems

mem_avail == ItemsInUse < NumItems

\* allocate: new[] returns an address that is not in use.
Allocate(b) ==
  /\ mem_avail
  /\ b \in Bufs \ heap
  /\ heap' = heap \cup {b}
  /\ AllocCount' = Incr(AllocCount)
  /\ ItemsInUse' = Incr(ItemsInUse)
  /\ WaterMark' = IF ItemsInUse' > WaterMark THEN Incr(WaterMark) ELSE WaterMark
  /\ UNCHANGED ReleaseCount

\* Both forms of release. The pool asks neither for the reference count nor
\* whether the buffer is its own.
PoolRelease(b) ==
  /\ heap' = heap \ {b}
  /\ ReleaseCount' = Incr(ReleaseCount)
  /\ ItemsInUse' = Decr(ItemsInUse)
  /\ UNCHANGED <<WaterMark, AllocCount>>

=============================================================================
