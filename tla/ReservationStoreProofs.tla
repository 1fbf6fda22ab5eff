------------------------ MODULE ReservationStoreProofs ------------------------
(***************************************************************************)
(* What the reservation store guarantees for every catalogue of pools and  *)
(* every finite set of reservations.  The capacity argument counts GPUs as *)
(* set elements: a new row adds the block {id} \X (1..n) to the GPUs held  *)
(* in its pool, and every other call leaves a subset of the GPUs that were *)
(* held by rows that passed the check.                                     *)
(***************************************************************************)
EXTENDS ReservationStore, FiniteSetTheorems, WellFoundedInduction, TLAPS

-----------------------------------------------------------------------------
(* Type correctness *)

\* A configured pool has a natural number of GPUs.
LEMMA TotalGpusNat ==
    ASSUME NEW p \in Pools
    PROVE  TotalGpus(p) \in Nat
BY CatalogueAssumption DEF TotalGpus, IsGpuPool

\* Every step keeps the table well typed.
LEMMA StoreTypeStep ==
    ASSUME StoreTypeOK, [OverlappedNext]_storeVars
    PROVE  StoreTypeOK'
<1> USE DEF StoreTypeOK, CapacityReservation, Statuses, ActiveReservationStatuses
<1>1. ASSUME NEW id \in ReservationIds, NEW p \in Pools, NEW n \in GpuCounts,
             Reserve(id, p, n)
      PROVE  StoreTypeOK'
  <2>1. CASE ReserveNew(id, p, n)
    BY <2>1 DEF ReserveNew
  <2>2. CASE ReserveExisting(id) \/ ReserveFull(id, p, n)
    BY <2>2 DEF ReserveExisting, ReserveFull, storeVars
  <2> QED BY <1>1, <2>1, <2>2 DEF Reserve
<1>2. ASSUME NEW id \in ReservationIds, MarkActive(id)
      PROVE  StoreTypeOK'
  <2>1. reservations[id] \in CapacityReservation
    BY <1>2 DEF MarkActive, Present, NoRow
  <2> QED BY <1>2, <2>1 DEF MarkActive
<1>3. ASSUME NEW id \in ReservationIds, Release(id)
      PROVE  StoreTypeOK'
  <2>1. reservations[id] \in CapacityReservation
    BY <1>3 DEF Release, Present, NoRow
  <2> QED BY <1>3, <2>1 DEF Release
<1>4. CASE Restart
  BY <1>4 DEF Restart, EmptyTable
<1>5. CASE UNCHANGED storeVars
  BY <1>5 DEF storeVars
<1>6. ASSUME NEW id \in ReservationIds, NEW p \in Pools, NEW n \in GpuCounts,
             Overwrite(id, p, n)
      PROVE  StoreTypeOK'
  BY <1>6 DEF Overwrite
<1> QED BY <1>1, <1>2, <1>3, <1>4, <1>5, <1>6 DEF StoreNext, OverlappedNext

\* Type correctness of the store: rows stay well formed and every row has one
\* of the statuses that the CHECK of gpu_reservations admits.
THEOREM StoreTypeCorrect == OverlappedStoreSpec => []StoreTypeOK
<1>1. StoreInit => StoreTypeOK
  BY DEF StoreInit, EmptyTable, StoreTypeOK
<1>2. StoreTypeOK /\ [OverlappedNext]_storeVars => StoreTypeOK'
  BY StoreTypeStep
<1> QED BY <1>1, <1>2, PTL DEF OverlappedStoreSpec

\* A store of atomic calls is one whose reserves never overlap.
LEMMA AtomicIsOverlapped == StoreSpec => OverlappedStoreSpec
<1>1. [StoreNext]_storeVars => [OverlappedNext]_storeVars
  BY DEF OverlappedNext
<1> QED BY <1>1, PTL DEF StoreSpec, OverlappedStoreSpec

-----------------------------------------------------------------------------
(* Counting GPUs *)

\* The GPUs any rows hold in a pool are finitely many.
LEMMA UnitsFinite ==
    ASSUME NEW S, S \subseteq ReservationIds \X GpuCounts
    PROVE  IsFiniteSet(S) /\ Cardinality(S) \in Nat
<1>1. IsFiniteSet(GpuCounts)
  BY StoreAssumption, FS_Interval DEF GpuCounts
<1>2. IsFiniteSet(ReservationIds \X GpuCounts)
  BY <1>1, StoreAssumption, FS_Product
<1> QED BY <1>2, FS_Subset, FS_CardinalityType

\* A subset of a set of GPUs has no more of them.
LEMMA FewerUnits ==
    ASSUME NEW S, S \subseteq ReservationIds \X GpuCounts,
           NEW T \in SUBSET S
    PROVE  Cardinality(T) <= Cardinality(S)
BY UnitsFinite, FS_Subset

\* The block of GPUs one row holds.
LEMMA BlockSize ==
    ASSUME NEW id \in ReservationIds, NEW n \in GpuCounts
    PROVE  /\ {id} \X (1..n) \subseteq ReservationIds \X GpuCounts
           /\ Cardinality({id} \X (1..n)) = n
<1>1. n \in Nat /\ n >= 1
  BY StoreAssumption DEF GpuCounts
<1>2. IsFiniteSet(1..n) /\ Cardinality(1..n) = n
  BY <1>1, FS_Interval
<1>3. IsFiniteSet({id}) /\ Cardinality({id}) = 1
  BY FS_Singleton
<1>4. Cardinality({id} \X (1..n)) = 1 * n
  BY <1>2, <1>3, FS_Product
<1> QED BY <1>1, <1>4, StoreAssumption DEF GpuCounts

\* A pool fits GPUs and a block when their numbers add up to no more than its
\* total.
LEMMA BlockFits ==
    ASSUME NEW p \in Pools, NEW id \in ReservationIds, NEW n \in GpuCounts,
           NEW U, U \subseteq ReservationIds \X GpuCounts,
           TotalGpus(p) - Cardinality(U) >= n,
           NEW S, S \subseteq U \cup ({id} \X (1..n))
    PROVE  Cardinality(S) <= TotalGpus(p)
<1> DEFINE Block == {id} \X (1..n)
<1>1. /\ IsFiniteSet(U) /\ Cardinality(U) \in Nat
      /\ IsFiniteSet(Block) /\ Cardinality(Block) = n
      /\ Block \subseteq ReservationIds \X GpuCounts
  BY UnitsFinite, BlockSize
<1>2. Cardinality(U \cup Block) = Cardinality(U) + n - Cardinality(U \cap Block)
  BY <1>1, FS_Union
<1>3. Cardinality(U \cap Block) \in Nat
  BY <1>1, UnitsFinite
<1>4. Cardinality(S) <= Cardinality(U \cup Block)
  BY <1>1, FewerUnits
<1>5. Cardinality(S) \in Nat
  BY <1>1, UnitsFinite
<1>6. TotalGpus(p) \in Nat /\ n \in Nat
  BY TotalGpusNat, StoreAssumption DEF GpuCounts
<1> QED BY <1>1, <1>2, <1>3, <1>4, <1>5, <1>6

-----------------------------------------------------------------------------
(* What each call does to the GPUs held in a pool *)

\* Writing a reserved row adds its block to its pool and to no other.
LEMMA WriteUnits ==
    ASSUME StoreTypeOK,
           NEW id \in ReservationIds, NEW p \in Pools, NEW n \in GpuCounts,
           reservations' = [reservations EXCEPT
               ![id] = [pool_id |-> p, gpu_count |-> n, status |-> "RESERVED"]],
           reactivated' = reactivated \ {id},
           NEW q \in Pools
    PROVE  /\ q # p => /\ HeldUnits(q)' \subseteq HeldUnits(q)
                       /\ CheckedUnits(q)' \subseteq CheckedUnits(q)
           /\ HeldUnits(p)' \subseteq HeldUnits(p) \cup ({id} \X (1..n))
           /\ CheckedUnits(p)' \subseteq CheckedUnits(p) \cup ({id} \X (1..n))
<1>1. \A i \in ReservationIds :
          reservations'[i] =
              IF i = id THEN [pool_id |-> p, gpu_count |-> n, status |-> "RESERVED"]
              ELSE reservations[i]
  BY DEF StoreTypeOK
<1>2. q # p => HeldUnits(q)' \subseteq HeldUnits(q)
  BY <1>1 DEF HeldUnits, HeldInPool, Held
<1>3. HeldUnits(p)' \subseteq HeldUnits(p) \cup ({id} \X (1..n))
  BY <1>1, StoreAssumption DEF HeldUnits, HeldInPool, Held, GpuCounts
<1>4. \A r \in Pools : \A u \in HeldUnits(r)' : r = p \/ u[1] # id
  BY <1>1 DEF HeldUnits, HeldInPool
<1>5. q # p => CheckedUnits(q)' \subseteq CheckedUnits(q)
  BY <1>2, <1>4 DEF CheckedUnits
<1>6. ASSUME NEW u \in CheckedUnits(p)', u \notin {id} \X (1..n)
      PROVE  u \in CheckedUnits(p)
  <2>1. u \in HeldUnits(p)' /\ u \in HeldUnits(p) /\ u[1] \notin reactivated'
    BY <1>3, <1>6 DEF CheckedUnits
  <2>2. u[1] = id => u \in {id} \X (1..n)
    BY <1>1, <2>1, StoreAssumption DEF HeldUnits, GpuCounts
  <2> QED BY <1>6, <2>1, <2>2 DEF CheckedUnits
<1> QED BY <1>2, <1>3, <1>5, <1>6

\* mark_active adds no checked GPU, and no GPU at all when the row is held.
LEMMA MarkActiveUnits ==
    ASSUME StoreTypeOK, NEW id \in ReservationIds, MarkActive(id), NEW q \in Pools
    PROVE  /\ CheckedUnits(q)' \subseteq CheckedUnits(q)
           /\ Held(id) => HeldUnits(q)' \subseteq HeldUnits(q)
<1>1. /\ \A i \in ReservationIds \ {id} : reservations'[i] = reservations[i]
      /\ reservations'[id] = [reservations[id] EXCEPT !.status = "ACTIVE"]
      /\ reservations[id] \in CapacityReservation
  BY DEF MarkActive, StoreTypeOK, Present, NoRow
<1>2. /\ reservations'[id].pool_id = reservations[id].pool_id
      /\ reservations'[id].gpu_count = reservations[id].gpu_count
  BY <1>1 DEF CapacityReservation
<1>3. CASE Held(id)
  <2>1. reactivated' = reactivated
    BY <1>3 DEF MarkActive
  <2>2. HeldUnits(q)' \subseteq HeldUnits(q)
    BY <1>1, <1>2, <1>3 DEF HeldUnits, HeldInPool, Held
  <2> QED BY <2>1, <2>2 DEF CheckedUnits
<1>4. CASE ~Held(id)
  <2>1. reactivated' = reactivated \cup {id}
    BY <1>4 DEF MarkActive
  <2>2. CheckedUnits(q)' \subseteq CheckedUnits(q)
    BY <1>1, <2>1 DEF CheckedUnits, HeldUnits, HeldInPool, Held
  <2> QED BY <1>4, <2>2
<1> QED BY <1>3, <1>4

\* release only ever frees GPUs.
LEMMA ReleaseUnits ==
    ASSUME StoreTypeOK, NEW id \in ReservationIds, Release(id), NEW q \in Pools
    PROVE  /\ CheckedUnits(q)' \subseteq CheckedUnits(q)
           /\ HeldUnits(q)' \subseteq HeldUnits(q)
<1>1. /\ \A i \in ReservationIds \ {id} : reservations'[i] = reservations[i]
      /\ reservations'[id].status = "RELEASED"
      /\ reactivated' = reactivated \ {id}
  BY DEF Release, StoreTypeOK, CapacityReservation, Present, NoRow
<1> QED
  BY <1>1 DEF CheckedUnits, HeldUnits, HeldInPool, Held, ActiveReservationStatuses

-----------------------------------------------------------------------------
(* Capacity *)

StoreInv == StoreTypeOK /\ OverbookingNeedsReactivation

\* A call that leaves a pool a subset of its checked GPUs keeps the bound.
LEMMA CheckedUnitsShrink ==
    ASSUME OverbookingNeedsReactivation,
           NEW p \in Pools, CheckedUnits(p)' \subseteq CheckedUnits(p)
    PROVE  Cardinality(CheckedUnits(p)') <= TotalGpus(p)
<1>1. CheckedUnits(p) \subseteq ReservationIds \X GpuCounts
  BY DEF CheckedUnits, HeldUnits
<1>2. Cardinality(CheckedUnits(p)') <= Cardinality(CheckedUnits(p))
  BY <1>1, FewerUnits
<1>3. /\ Cardinality(CheckedUnits(p)) \in Nat
      /\ Cardinality(CheckedUnits(p)') \in Nat
      /\ TotalGpus(p) \in Nat
  BY <1>1, UnitsFinite, TotalGpusNat
<1> QED BY <1>2, <1>3 DEF OverbookingNeedsReactivation

\* Every step keeps the capacity bound.
LEMMA CapacityStep ==
    ASSUME StoreInv, [OverlappedNext]_storeVars
    PROVE  OverbookingNeedsReactivation'
<1> USE DEF StoreInv
<1> SUFFICES ASSUME NEW q \in Pools
             PROVE  Cardinality(CheckedUnits(q)') <= TotalGpus(q)
  BY DEF OverbookingNeedsReactivation
<1>1. ASSUME NEW id \in ReservationIds, NEW p \in Pools, NEW n \in GpuCounts,
             ReserveNew(id, p, n) \/ Overwrite(id, p, n)
      PROVE  Cardinality(CheckedUnits(q)') <= TotalGpus(q)
  <2>1. CASE q # p
    BY <1>1, <2>1, WriteUnits, CheckedUnitsShrink DEF ReserveNew, Overwrite
  <2>2. CASE q = p
    <3>1. HeldUnits(p) \subseteq ReservationIds \X GpuCounts
      BY DEF HeldUnits
    <3>2. TotalGpus(p) - Cardinality(HeldUnits(p)) >= n
      BY <1>1 DEF ReserveNew, Overwrite, HasRoom, UsedGpus
    <3>3. HeldUnits(p)' \subseteq HeldUnits(p) \cup ({id} \X (1..n))
      BY <1>1, WriteUnits DEF ReserveNew, Overwrite
    <3>4. CheckedUnits(p)' \subseteq HeldUnits(p) \cup ({id} \X (1..n))
      BY <3>3 DEF CheckedUnits
    <3> QED BY <2>2, <3>1, <3>2, <3>4, BlockFits
  <2> QED BY <2>1, <2>2
<1>2. ASSUME NEW id \in ReservationIds, MarkActive(id) \/ Release(id)
      PROVE  Cardinality(CheckedUnits(q)') <= TotalGpus(q)
  BY <1>2, MarkActiveUnits, ReleaseUnits, CheckedUnitsShrink
<1>3. CASE Restart
  <2>1. CheckedUnits(q)' \subseteq CheckedUnits(q)
    BY <1>3 DEF Restart, EmptyTable, NoRow, CheckedUnits, HeldUnits, HeldInPool,
                Held, ActiveReservationStatuses
  <2> QED BY <2>1, CheckedUnitsShrink
<1>4. CASE UNCHANGED storeVars
  <2>1. CheckedUnits(q)' \subseteq CheckedUnits(q)
    BY <1>4 DEF storeVars, CheckedUnits, HeldUnits, HeldInPool, Held
  <2> QED BY <2>1, CheckedUnitsShrink
<1>5. ASSUME NEW id \in ReservationIds, NEW p \in Pools, NEW n \in GpuCounts,
             Reserve(id, p, n)
      PROVE  Cardinality(CheckedUnits(q)') <= TotalGpus(q)
  BY <1>1, <1>4, <1>5 DEF Reserve, ReserveExisting, ReserveFull
<1> QED BY <1>1, <1>2, <1>3, <1>4, <1>5 DEF StoreNext, OverlappedNext

\* The initial table holds no GPU.
LEMMA StoreInitInv == StoreInit => StoreInv
<1> SUFFICES ASSUME StoreInit PROVE StoreInv
  OBVIOUS
<1>1. StoreTypeOK
  BY DEF StoreInit, EmptyTable, StoreTypeOK
<1>2. \A p \in Pools : CheckedUnits(p) = {}
  BY DEF StoreInit, EmptyTable, NoRow, CheckedUnits, HeldUnits, HeldInPool, Held,
         ActiveReservationStatuses
<1>3. \A p \in Pools : Cardinality(CheckedUnits(p)) <= TotalGpus(p)
  BY <1>2, FS_EmptySet, TotalGpusNat
<1> QED BY <1>1, <1>3 DEF StoreInv, OverbookingNeedsReactivation

\* Capacity, for every catalogue: whatever the callers do, and even where
\* overlapping reserves write over one another, the GPUs held by rows that
\* passed reserve's check fit their pool (scheduler.py:185-192, 381-438).
THEOREM CapacityHolds == OverlappedStoreSpec => []OverbookingNeedsReactivation
<1>1. StoreInv /\ [OverlappedNext]_storeVars => StoreInv'
  BY StoreTypeStep, CapacityStep DEF StoreInv
<1>2. StoreInv => OverbookingNeedsReactivation
  BY DEF StoreInv
<1> QED BY StoreInitInv, <1>1, <1>2, PTL DEF OverlappedStoreSpec

\* No pool is overbooked while no released reservation has been marked active.
THEOREM NoOverbookingWithoutReactivation ==
    OverlappedStoreSpec => [](reactivated = {} => NoOverbooking)
<1>1. OverbookingNeedsReactivation => (reactivated = {} => NoOverbooking)
  BY DEF OverbookingNeedsReactivation, NoOverbooking, UsedGpus, CheckedUnits
<1> QED BY CapacityHolds, <1>1, PTL

-----------------------------------------------------------------------------
(* Stability of a held reservation *)

\* What HeldNeverMoves says of one step.
HeldStays ==
    \A id \in ReservationIds :
        Held(id) /\ Held(id)' =>
            /\ reservations'[id].pool_id = reservations[id].pool_id
            /\ reservations'[id].gpu_count = reservations[id].gpu_count

LEMMA HeldStaysStep ==
    ASSUME StoreTypeOK, [StoreNext]_storeVars
    PROVE  HeldStays
<1> USE DEF StoreTypeOK, HeldStays
<1>1. ASSUME NEW i \in ReservationIds, NEW p \in Pools, NEW n \in GpuCounts,
             Reserve(i, p, n)
      PROVE  HeldStays
  BY <1>1 DEF Reserve, ReserveExisting, ReserveFull, ReserveNew, Held, storeVars
<1>2. ASSUME NEW i \in ReservationIds, MarkActive(i)
      PROVE  HeldStays
  BY <1>2 DEF MarkActive, Present, NoRow, CapacityReservation
<1>3. ASSUME NEW i \in ReservationIds, Release(i)
      PROVE  HeldStays
  BY <1>3 DEF Release, Present, NoRow, CapacityReservation
<1>4. CASE Restart
  BY <1>4 DEF Restart, EmptyTable, NoRow, Held, ActiveReservationStatuses
<1>5. CASE UNCHANGED storeVars
  BY <1>5 DEF storeVars
<1> QED BY <1>1, <1>2, <1>3, <1>4, <1>5 DEF StoreNext

\* No call of a store whose calls are atomic moves or resizes a reservation that
\* is held before and after it.  Overlapping reserves of one reservation do.
THEOREM HeldReservationsStay == StoreSpec => HeldNeverMoves
<1>1. StoreTypeOK /\ [StoreNext]_storeVars => [HeldStays]_storeVars
  BY HeldStaysStep
<1> QED BY <1>1, AtomicIsOverlapped, StoreTypeCorrect, PTL
        DEF StoreSpec, HeldNeverMoves, HeldStays

-----------------------------------------------------------------------------
(* The two sums over the table *)

\* A set of subsets of a finite set has a smallest one: induction over finite
\* sets, as a fact about sets.
LEMMA SmallestSubset ==
    ASSUME NEW S, IsFiniteSet(S), NEW T \in SUBSET SUBSET S, T # {}
    PROVE  \E s \in T : \A t \in T : ~(t \subseteq s /\ t # s)
<1>1. T \subseteq FiniteSubsetsOf(S)
  BY FS_Subset DEF FiniteSubsetsOf
<1>2. PICK s \in T : \A t \in T : <<t, s>> \notin StrictSubsetOrdering(S)
  BY <1>1, FS_StrictSubsetOrderingWellFounded, WFMin
<1> QED BY <1>2 DEF StrictSubsetOrdering

\* One element per GPU of the rows s.
Units(rows, s) == {u \in s \X GpuCounts : u[2] <= rows[u[1]].gpu_count}

\* A row more is a block of GPUs more.
LEMMA UnitsGrow ==
    ASSUME NEW rows, NEW s \in SUBSET ReservationIds, NEW id \in s,
           rows[id].gpu_count \in GpuCounts
    PROVE  Cardinality(Units(rows, s))
               = rows[id].gpu_count + Cardinality(Units(rows, s \ {id}))
<1> DEFINE n == rows[id].gpu_count
           Block == {id} \X (1..n)
           Rest == Units(rows, s \ {id})
<1>1. n \in Nat /\ n <= MaxGpus /\ MaxGpus \in Nat
  BY StoreAssumption DEF GpuCounts
<1>2. \A u : u \in Units(rows, s) <=> u \in Block \cup Rest
  BY <1>1 DEF Units, GpuCounts
<1>3. Units(rows, s) = Block \cup Rest
  BY <1>2
<1>4. Block \cap Rest = {}
  BY DEF Units
<1>5. /\ Block \subseteq ReservationIds \X GpuCounts /\ Cardinality(Block) = n
      /\ Rest \subseteq ReservationIds \X GpuCounts
  BY BlockSize DEF Units
<1> HIDE DEF Block, Rest
<1>6. IsFiniteSet(Block) /\ IsFiniteSet(Rest) /\ Cardinality(Rest) \in Nat
  BY <1>5, UnitsFinite
<1>7. Cardinality(Block \cup Rest) = n + Cardinality(Rest) - 0
  BY <1>4, <1>5, <1>6, FS_Union, FS_EmptySet
<1> QED BY <1>1, <1>3, <1>6, <1>7 DEF Rest

\* The recursion of MapThenSumSet over the subsets of S.
AddsUp(rows, S, f) ==
    f = [s \in SUBSET S |->
            IF s = {} THEN 0
            ELSE rows[CHOOSE id \in s : TRUE].gpu_count
                   + f[s \ {CHOOSE id \in s : TRUE}]]

\* The sum of the rows' GPU counts is the number of their GPUs.
LEMMA SumOfBlocks ==
    ASSUME NEW rows, NEW S \in SUBSET ReservationIds,
           \A id \in S : rows[id].gpu_count \in GpuCounts
    PROVE  MapThenSumSet(LAMBDA id : rows[id].gpu_count, S) = Cardinality(Units(rows, S))
<1> DEFINE g == [s \in SUBSET S |-> Cardinality(Units(rows, s))]
<1>1. Units(rows, {}) = {}
  BY DEF Units
<1>2. ASSUME NEW s \in SUBSET S, s # {}
      PROVE  g[s] = rows[CHOOSE id \in s : TRUE].gpu_count
                      + g[s \ {CHOOSE id \in s : TRUE}]
  <2>1. PICK first \in s : first = CHOOSE id \in s : TRUE
    BY <1>2
  <2>2. g[s] = rows[first].gpu_count + g[s \ {first}]
    BY <1>2, UnitsGrow
  <2> QED BY <2>1, <2>2
<1>3. g[{}] = 0
  BY <1>1, FS_EmptySet
<1> HIDE DEF g
<1>4. AddsUp(rows, S, g)
  <2>1. g = [s \in SUBSET S |-> g[s]]
    BY DEF g
  <2> QED BY <1>2, <1>3, <2>1 DEF AddsUp
<1>5. ASSUME NEW f, AddsUp(rows, S, f) PROVE f = g
  <2> DEFINE Differ == {s \in SUBSET S : f[s] # g[s]}
  <2>1. CASE Differ = {}
    <3>1. f = [s \in SUBSET S |-> f[s]] /\ g = [s \in SUBSET S |-> g[s]]
      BY <1>4, <1>5 DEF AddsUp
    <3> QED BY <2>1, <3>1
  <2>2. CASE Differ # {}
    <3>1. IsFiniteSet(S)
      BY StoreAssumption, FS_Subset
    <3>2. PICK T \in SUBSET SUBSET S : T = Differ
      OBVIOUS
    <3> HIDE DEF Differ
    <3>3. PICK s \in T : \A t \in T : ~(t \subseteq s /\ t # s)
      BY <2>2, <3>1, <3>2, SmallestSubset
    <3>4. f[s] # g[s] /\ \A t \in SUBSET S : t \subseteq s /\ t # s => f[t] = g[t]
      BY <3>2, <3>3 DEF Differ
    <3>5. CASE s = {}
      BY <1>4, <1>5, <3>5, <3>4 DEF AddsUp
    <3>6. CASE s # {}
      <4>1. PICK first \in s : first = CHOOSE id \in s : TRUE
        BY <3>6
      <4>2. f[s \ {first}] = g[s \ {first}]
        BY <3>4, <4>1
      <4>3. /\ f[s] = rows[first].gpu_count + f[s \ {first}]
            /\ g[s] = rows[first].gpu_count + g[s \ {first}]
        BY <1>4, <1>5, <3>6, <4>1 DEF AddsUp
      <4> QED BY <3>4, <4>2, <4>3
    <3> QED BY <3>5, <3>6
  <2> QED BY <2>1, <2>2
<1>6. MapThenSumSet(LAMBDA id : rows[id].gpu_count, S) = g[S]
  BY <1>4, <1>5 DEF MapThenSumSet, MapThenFoldSet, AddsUp
<1> QED BY <1>6 DEF g

\* What the scheduler adds up is what reserve counts, in every table
\* (scheduler.py:185-190 and 224-234).
LEMMA SnapshotAgrees ==
    ASSUME StoreTypeOK, NEW p \in Pools
    PROVE  ReservedGpusByPool(p) = UsedGpus(p)
<1> DEFINE S == {id \in ReservationIds : HeldInPool(id, p)}
<1>1. \A id \in S : reservations[id].gpu_count \in GpuCounts
  BY DEF StoreTypeOK, CapacityReservation, HeldInPool, Held, NoRow,
         ActiveReservationStatuses
<1>2. HeldUnits(p) = Units(reservations, S)
  BY DEF HeldUnits, Units
<1>3. MapThenSumSet(LAMBDA id : reservations[id].gpu_count, S)
          = Cardinality(Units(reservations, S))
  BY <1>1, SumOfBlocks
<1> QED BY <1>2, <1>3 DEF ReservedGpusByPool, UsedGpus
=============================================================================
