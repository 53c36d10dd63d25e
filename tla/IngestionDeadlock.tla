---------------------------- MODULE IngestionDeadlock ----------------------------
(***************************************************************************)
(* Overlapping runs and what they wait for: pooled connections and the     *)
(* rows of each other.  For any number of runs, any pool and any feeds.    *)
(***************************************************************************)
EXTENDS IngestionProofs, FiniteSetTheorems, WellFoundedInduction

(***************************************************************************)
(* A set of sets of runs has a smallest member, which contains no other.   *)
(* The two arguments below about the wait-for graph start from it.         *)
(***************************************************************************)
LEMMA SmallestSet ==
    ASSUME NEW T \in SUBSET (SUBSET Runs), T # {}
    PROVE  \E C \in T : \A D \in T : D \subseteq C => D = C
  <1> DEFINE R == StrictSubsetOrdering(Runs)
  <1>1. FiniteSubsetsOf(Runs) = SUBSET Runs
    BY RunsAssumption, FS_FiniteSubsetsOfFinite
  <1>2. IsWellFoundedOn(R, SUBSET Runs)
    BY <1>1, FS_StrictSubsetOrderingWellFounded
  <1> HIDE DEF R
  <1>3. PICK C \in T : \A D \in T : ~(<<D, C>> \in R)
    BY <1>2, WFMin
  <1>4. ASSUME NEW D \in T, D \subseteq C, D # C PROVE FALSE
    <2>1. <<D, C>> \in (SUBSET Runs) \X (SUBSET Runs)
      OBVIOUS
    <2>2. <<D, C>> \in R
      BY <1>4, <2>1 DEF R, StrictSubsetOrdering
    <2> QED
      BY <1>3, <2>2
  <1> QED
    BY <1>4

\* A blocked run waits for a transaction that is open and holds the row.
LEMMA BlockedHolder ==
    ASSUME NEW r \in Runs, Blocked(r)
    PROVE  /\ Holder(r) \in Runs \ {r}
           /\ CurrentEntry(r).station \in Locked(Holder(r))
           /\ run[Holder(r)].tx = "open"
  <1>1. \E q \in Runs \ {r} : CurrentEntry(r).station \in Locked(q)
    BY DEF Blocked, LockedByOther
  <1>2. /\ Holder(r) \in Runs \ {r}
        /\ CurrentEntry(r).station \in Locked(Holder(r))
    BY <1>1 DEF Holder
  <1> QED
    BY <1>2 DEF Locked

\* Runs that are blocked by one another only are on a cycle somewhere: a
\* smallest set that is closed under "waits for" is one.
LEMMA BlockedRunsHaveACycle ==
    ASSUME NEW B \in SUBSET Runs, B # {},
           \A p \in B : Blocked(p) /\ Holder(p) \in B
    PROVE  \E r \in B : OnWaitCycle(r)
  <1> DEFINE T == {C \in SUBSET B : C # {} /\ \A p \in C : Holder(p) \in C}
  <1>1. B \in T /\ T \in SUBSET (SUBSET Runs)
    OBVIOUS
  <1>2. PICK C \in T : \A D \in T : D \subseteq C => D = C
    <2> HIDE DEF T
    <2> QED
      BY <1>1, SmallestSet
  <1>3. C \in SUBSET B /\ C # {} /\ \A p \in C : Holder(p) \in C
    BY <1>2
  <1> DEFINE D == {Holder(p) : p \in C}
  <1>4. D \in T /\ D \subseteq C
    BY <1>3
  <1>5. D = C
    <2> HIDE DEF D, T
    <2> QED
      BY <1>2, <1>4
  <1>6. PICK r \in C : TRUE
    BY <1>3
  <1>7. OnWaitCycle(r)
    BY <1>3, <1>5, <1>6 DEF OnWaitCycle, WaitCycle
  <1> QED
    BY <1>3, <1>7

\* The runs in flight are never all waiting (the pool of store.go New, the
\* transaction of UpsertStations, the row locks of PostgreSQL).
THEOREM RunsAreNeverStuck == Spec => []SomeRunGoesOn
  <1>1. ShapeInv => SomeRunGoesOn
    <2> SUFFICES ASSUME ShapeInv, NEW a \in Runs, Active(a),
                        \A r \in Runs : Active(r) => Waits(r)
                 PROVE  FALSE
      BY DEF SomeRunGoesOn
    <2> DEFINE H == {r \in Runs : run[r].tx # "none"}
    <2>1. ASSUME NEW q \in H PROVE Blocked(q) /\ ~OnWaitCycle(q)
      <3>1. run[q].phase = "upsert"
        BY DEF ShapeInv, RunShape, RunShapeOf
      <3> QED
        BY <3>1 DEF Active, Waits
    <2>2. H # {}
      <3>1. CASE Blocked(a)
        BY <3>1 DEF Blocked
      <3>2. CASE ~Blocked(a)
        <4>1. ~(Cardinality(H) < MaxOpenConns)
          BY <3>2 DEF Waits, FreeConn, InUse
        <4>2. H # {}
          BY <4>1, FS_EmptySet, IngestionAssumption
        <4> QED
          BY <4>2
      <3> QED
        BY <3>1, <3>2
    <2>3. \A q \in H : Blocked(q) /\ Holder(q) \in H
      BY <2>1, BlockedHolder
    <2>4. \E q \in H : OnWaitCycle(q)
      <3> HIDE DEF H
      <3>1. H \in SUBSET Runs
        BY DEF H
      <3> QED
        BY <2>2, <2>3, <3>1, BlockedRunsHaveACycle
    <2> QED
      BY <2>1, <2>4
  <1> QED
    BY <1>1, ShapeInvariant, PTL

-------------------------------------------------------------------------------
(* What a deadlock takes                                                   *)

\* No number grows all the way round a cycle of runs that wait.
LEMMA NoClimbingCycle ==
    ASSUME NEW C \in SUBSET Runs, C # {}, NEW height \in [C -> Nat],
           \A p \in C : Holder(p) \in C /\ height[p] < height[Holder(p)]
    PROVE  FALSE
  <1> DEFINE Ahead(p) == {q \in C : height[p] < height[q]}
             T == {Ahead(p) : p \in C}
  <1>1. T # {} /\ T \in SUBSET (SUBSET Runs)
    <2>1. \A p \in C : Ahead(p) \in SUBSET Runs
      OBVIOUS
    <2> HIDE DEF Ahead
    <2> QED
      BY <2>1
  <1>2. PICK U \in T : \A D \in T : D \subseteq U => D = U
    <2> HIDE DEF T
    <2> QED
      BY <1>1, SmallestSet
  <1>3. PICK p \in C : U = Ahead(p)
    OBVIOUS
  <1> DEFINE q == Holder(p)
  <1>4. q \in C /\ q \in Ahead(p)
    OBVIOUS
  <1>5. Ahead(q) \subseteq Ahead(p)
    BY <1>4
  <1>6. Ahead(q) \in T /\ q \notin Ahead(q)
    BY <1>4
  <1> QED
    <2> HIDE DEF T, Ahead
    <2> QED
      BY <1>2, <1>3, <1>4, <1>5, <1>6

\* The loop of a run that is blocked is at an entry of its batch, whose station
\* it has not upserted before: no run waits for a row that it holds itself.
LEMMA BlockedAtNewStation ==
    ASSUME ShapeInv, SafeInv, NEW r \in Runs, Blocked(r)
    PROVE  /\ run[r].next \in DOMAIN Batch(r)
           /\ \A i \in DOMAIN Batch(r) :
                 /\ Batch(r)[i].station \in Stations
                 /\ i \in Nat
                 /\ i < run[r].next
                       => Batch(r)[i].station # CurrentEntry(r).station
  <1> DEFINE b == Batch(r)
             n == run[r].next
  <1>1. /\ WellFormed(run[r]) /\ run[r].phase = "upsert" /\ n <= Len(b)
        /\ run[r].tx = "open"
    BY WellFormedRuns DEF Blocked, InLoop
  <1>2. run[r].feed \in 1..Len(published)
    BY <1>1 DEF WellFormed, RunState, FeedNo, ShapeInv, TypeOK
  <1>3. /\ DOMAIN b = 1..Len(b) /\ Len(b) \in Nat
        /\ \A i \in 1..Len(b) : b[i].station \in Stations
    BY <1>2, PublishedBatch DEF Batch, ShapeInv, TypeOK
  <1>4. n \in 1..Len(b)
    BY <1>1, <1>3 DEF WellFormed, Batch
  <1>5. CurrentEntry(r).station \notin Locked(r)
    <2>1. /\ Holder(r) \in Runs \ {r}
          /\ CurrentEntry(r).station \in Locked(Holder(r))
      BY BlockedHolder
    <2> QED
      BY <2>1 DEF SafeInv, RowsLockedOnce
  <1>6. ASSUME NEW i \in 1..Len(b), i < n
        PROVE  b[i].station # CurrentEntry(r).station
    <2>1. i \in 1..(n - 1)
      <3> HIDE DEF n
      <3> QED
        BY <1>3, <1>4, <1>6
    <2> QED
      BY <1>1, <1>5, <2>1 DEF Locked, StationsIn
  <1> QED
    BY <1>3, <1>4, <1>6

\* The row a run waits for is that of an entry its holder has been through.
LEMMA HolderBeenThrough ==
    ASSUME ShapeInv, SafeInv, NEW r \in Runs, Blocked(r), Blocked(Holder(r))
    PROVE  \E i \in DOMAIN Batch(Holder(r)) :
              /\ i < run[Holder(r)].next
              /\ Batch(Holder(r))[i].station = CurrentEntry(r).station
  <1> DEFINE q == Holder(r)
             n == run[q].next
  <1>1. /\ q \in Runs
        /\ CurrentEntry(r).station \in StationsIn(Batch(q), n - 1)
    BY BlockedHolder DEF Locked
  <1>2. n \in DOMAIN Batch(q) /\ \A i \in DOMAIN Batch(q) : i \in Nat
    BY <1>1, BlockedAtNewStation
  <1>3. PICK i \in 1..(n - 1) : CurrentEntry(r).station = Batch(q)[i].station
    BY <1>1 DEF StationsIn
  <1>4. DOMAIN Batch(q) = 1..Len(Batch(q)) /\ Len(Batch(q)) \in Nat
    <2>1. WellFormed(run[q]) /\ run[q].phase = "upsert"
      BY <1>1, WellFormedRuns DEF Blocked, InLoop
    <2>2. run[q].feed \in 1..Len(published)
      BY <2>1 DEF WellFormed, RunState, FeedNo, ShapeInv, TypeOK
    <2> QED
      BY <2>2, PublishedBatch DEF Batch, ShapeInv, TypeOK
  <1>5. i \in DOMAIN Batch(q) /\ i < n
    <2> HIDE DEF n, q
    <2> QED
      BY <1>2, <1>3, <1>4
  <1> QED
    BY <1>3, <1>5

\* Runs of one feed never deadlock: each waits for one that is further on in it
\* (the slice of parser.go Parse, the loop of store.go UpsertStations).
THEOREM OneFeedNoDeadlock == Spec => []DeadlockNeedsTwoFeeds
  <1>1. ShapeInv /\ SafeInv => DeadlockNeedsTwoFeeds
    <2> SUFFICES ASSUME ShapeInv, SafeInv, NEW C \in (SUBSET Runs) \ {{}},
                        WaitCycle(C), \A p, q \in C : run[p].feed = run[q].feed
                 PROVE  FALSE
      BY DEF DeadlockNeedsTwoFeeds
    <2>1. ASSUME NEW p \in C
          PROVE  /\ Blocked(p) /\ Holder(p) \in C
                 /\ run[p].next \in Nat
      <3>1. Blocked(p) /\ Holder(p) \in C
        BY DEF WaitCycle
      <3> QED
        BY <3>1, BlockedAtNewStation
    <2>2. ASSUME NEW p \in C PROVE run[p].next < run[Holder(p)].next
      <3> DEFINE q == Holder(p)
      <3>1. /\ Blocked(p) /\ Blocked(q) /\ p \in Runs /\ q \in Runs
            /\ run[p].next \in Nat /\ run[q].next \in Nat
        BY <2>1
      <3>2. Batch(q) = Batch(p)
        BY <2>1 DEF Batch
      <3>3. PICK i \in DOMAIN Batch(p) :
                 i < run[q].next /\ Batch(p)[i].station = CurrentEntry(p).station
        BY <3>1, <3>2, HolderBeenThrough
      <3>4. i \in Nat /\ ~(i < run[p].next)
        BY <3>1, <3>3, BlockedAtNewStation
      <3> QED
        BY <3>1, <3>3, <3>4
    <2> DEFINE height == [p \in C |-> run[p].next]
    <2>3. height \in [C -> Nat]
      BY <2>1
    <2>4. \A p \in C : Holder(p) \in C /\ height[p] < height[Holder(p)]
      BY <2>1, <2>2
    <2> HIDE DEF height
    <2> QED
      BY <2>3, <2>4, NoClimbingCycle
  <1> QED
    BY <1>1, SafetyInvariant, PTL

\* A batch in which each station that is new comes after all those before it,
\* in the order given by rank.
NewOnesInOrder(b, rank) ==
    \A i, j \in DOMAIN b :
        i < j /\ (\A k \in DOMAIN b : k < j => b[k].station # b[j].station)
            => rank[b[i].station] < rank[b[j].station]

\* Of any runs that have deadlocked, and whatever the feeds: no order of the
\* stations is that of all their batches.  To upsert the stations in one order
\* would be enough against deadlocks; UpsertStations takes them as they come.
NoCommonOrder ==
    \A cycle \in (SUBSET Runs) \ {{}} :
        WaitCycle(cycle) =>
            ~ \E rank \in [Stations -> Nat] :
                 \A p \in cycle : NewOnesInOrder(Batch(p), rank)

THEOREM DeadlocksHaveNoOrder == Spec => []NoCommonOrder
  <1>1. ShapeInv /\ SafeInv => NoCommonOrder
    <2> SUFFICES ASSUME ShapeInv, SafeInv, NEW C \in (SUBSET Runs) \ {{}},
                        WaitCycle(C), NEW rank \in [Stations -> Nat],
                        \A p \in C : NewOnesInOrder(Batch(p), rank)
                 PROVE  FALSE
      BY DEF NoCommonOrder
    <2> DEFINE height == [p \in C |-> rank[CurrentEntry(p).station]]
    <2>1. ASSUME NEW p \in C
          PROVE  /\ Blocked(p) /\ Holder(p) \in C
                 /\ CurrentEntry(p).station \in Stations
      <3>1. Blocked(p) /\ Holder(p) \in C
        BY DEF WaitCycle
      <3> QED
        BY <3>1, BlockedAtNewStation DEF CurrentEntry
    <2>2. ASSUME NEW p \in C
          PROVE  rank[CurrentEntry(p).station] < rank[CurrentEntry(Holder(p)).station]
      <3> DEFINE q == Holder(p)
                 n == run[q].next
                 b == Batch(q)
      <3>1. Blocked(p) /\ Blocked(q) /\ p \in Runs /\ q \in Runs /\ q \in C
        BY <2>1
      <3>2. /\ n \in DOMAIN b
            /\ \A k \in DOMAIN b : k < n => b[k].station # b[n].station
        BY <3>1, BlockedAtNewStation DEF CurrentEntry
      <3>3. PICK i \in DOMAIN b : i < n /\ b[i].station = CurrentEntry(p).station
        BY <3>1, HolderBeenThrough
      <3>4. rank[b[i].station] < rank[b[n].station]
        <4>1. NewOnesInOrder(b, rank)
          BY <3>1
        <4> HIDE DEF n, b
        <4> QED
          BY <3>2, <3>3, <4>1 DEF NewOnesInOrder
      <3> QED
        BY <3>3, <3>4 DEF CurrentEntry
    <2>3. height \in [C -> Nat]
      BY <2>1
    <2>4. \A p \in C : Holder(p) \in C /\ height[p] < height[Holder(p)]
      BY <2>1, <2>2
    <2> HIDE DEF height
    <2> QED
      BY <2>3, <2>4, NoClimbingCycle
  <1> QED
    BY <1>1, SafetyInvariant, PTL
===============================================================================
