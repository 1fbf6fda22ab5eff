-------------------------- MODULE PostgresStoreProofs --------------------------
(***************************************************************************)
(* What the transactions of the postgres store guarantee for every         *)
(* catalogue, every set of reservations and any number of connections.     *)
(*                                                                         *)
(* Capacity.  Between its SUM and its COMMIT a transaction has no row in   *)
(* the table, so the room it counted must still be there when it writes.   *)
(* The inductive invariant says so: every transaction past its SUM still   *)
(* fits its pool (RoomKept).  It holds because at most one transaction at  *)
(* a time is between those statements in one pool (PoolLockExclusive), and *)
(* because no other statement adds a checked GPU to a pool.                *)
(***************************************************************************)
EXTENDS PostgresStore, ReservationStoreProofs

PastSum(t) == tx[t].pc \in {"upsert", "commit"}
LocksPool(t) == tx[t].pc \in {"sum", "upsert", "commit"}

PoolLockExclusive ==
    \A t, u \in Transactions :
        LocksPool(t) /\ LocksPool(u) /\ tx[t].pool_id = tx[u].pool_id => t = u

RoomKept ==
    \A t \in Transactions, q \in Pools, n \in GpuCounts :
        PastSum(t) /\ tx[t].pool_id = q /\ tx[t].gpu_count = n =>
            TotalGpus(q) - Cardinality(CheckedUnits(q)) >= n

PgInv ==
    /\ PgTypeOK
    /\ PoolLockExclusive
    /\ RoomKept
    /\ OverbookingNeedsReactivation

-----------------------------------------------------------------------------
(* Types and locks *)

\* Every open transaction has the fields of one.
LEMMA OpenIsTransaction ==
    ASSUME PgTypeOK, NEW t \in Transactions, Open(t)
    PROVE  /\ tx[t] \in Transaction
           /\ tx[t].id \in ReservationIds
           /\ tx[t].pool_id \in Pools
           /\ tx[t].gpu_count \in GpuCounts
BY DEF PgTypeOK, Transaction, NoTx, Open

\* What Commit does, in the terms of WriteUnits.
LEMMA CommitWrites ==
    ASSUME PgTypeOK, NEW t \in Transactions, Commit(t)
    PROVE  /\ \E id \in ReservationIds, p \in Pools, n \in GpuCounts :
                 /\ tx[t].id = id /\ tx[t].pool_id = p /\ tx[t].gpu_count = n
                 /\ reservations' = [reservations EXCEPT
                       ![id] = [pool_id |-> p, gpu_count |-> n, status |-> "RESERVED"]]
                 /\ reactivated' = reactivated \ {id}
           /\ tx' = [tx EXCEPT ![t] = NoTx]
           /\ PastSum(t) /\ LocksPool(t)
BY OpenIsTransaction DEF Commit, Write, End, Open, PastSum, LocksPool

\* What GoOn does to the transaction that has run its SELECT.
LEMMA GoneOn ==
    ASSUME PgTypeOK, NEW t \in Transactions, tx[t] \in Transaction,
           NEW sees \in BOOLEAN, NEW locks \in BOOLEAN, GoOn(t, sees, locks)
    PROVE  /\ tx' \in [Transactions -> Transaction \cup {NoTx}]
           /\ tx'[t] \in Transaction
           /\ tx'[t].pc = "lock_pool"
           /\ tx'[t].saw_row = sees /\ tx'[t].locks_row = locks
           /\ tx'[t].id = tx[t].id
           /\ tx'[t].pool_id = tx[t].pool_id /\ tx'[t].gpu_count = tx[t].gpu_count
           /\ \A u \in Transactions \ {t} : tx'[u] = tx[u]
<1>1. tx' = [tx EXCEPT ![t] =
          [tx[t] EXCEPT !.pc = "lock_pool", !.saw_row = sees, !.locks_row = locks]]
  BY DEF GoOn, PgTypeOK
<1>2. [tx[t] EXCEPT !.pc = "lock_pool", !.saw_row = sees, !.locks_row = locks]
          \in Transaction
  BY DEF Transaction
<1> QED BY <1>1, <1>2 DEF PgTypeOK, Transaction

\* SELECT ends its transaction or takes it to the pool lock.
LEMMA SelectEffect ==
    ASSUME PgTypeOK, NEW t \in Transactions, SelectExisting(t)
    PROVE  /\ UNCHANGED storeVars
           /\ tx[t].pc = "select" /\ tx[t].id \in ReservationIds
           /\ RowLocker(tx[t].id) = {}
           /\ \A u \in Transactions \ {t} : tx'[u] = tx[u]
           /\ \/ tx'[t] = NoTx
              \/ /\ ~Held(tx[t].id)
                 /\ tx'[t].pc = "lock_pool"
                 /\ tx'[t].id = tx[t].id
                 /\ tx'[t].pool_id = tx[t].pool_id
                 /\ tx'[t].gpu_count = tx[t].gpu_count
                 /\ tx'[t].saw_row = Present(tx[t].id)
                 /\ tx'[t].locks_row = Present(tx[t].id)
<1>1. /\ UNCHANGED storeVars /\ tx[t].pc = "select" /\ RowLocker(tx[t].id) = {}
      /\ \/ tx' = [tx EXCEPT ![t] = NoTx]
         \/ /\ ~Held(tx[t].id)
            /\ GoOn(t, Present(tx[t].id), Present(tx[t].id))
  BY DEF SelectExisting, End
<1>2. tx[t] \in Transaction /\ tx[t].id \in ReservationIds
  BY <1>1, OpenIsTransaction DEF Open
<1>3. Present(tx[t].id) \in BOOLEAN
  BY DEF Present
<1> QED BY <1>1, <1>2, <1>3, GoneOn DEF PgTypeOK

\* Every step keeps the table and the transactions well typed.
LEMMA PgTypeStep ==
    ASSUME PgTypeOK, [PgNext]_pgVars
    PROVE  PgTypeOK'
<1> USE DEF PgTypeOK
<1>1. ASSUME NEW t \in Transactions, NEW id \in ReservationIds, NEW p \in Pools,
             NEW n \in GpuCounts, BeginReserve(t, id, p, n)
      PROVE  PgTypeOK'
  <2>1. StoreTypeOK'
    BY <1>1 DEF BeginReserve, storeVars, StoreTypeOK
  <2>2. tx' \in [Transactions -> Transaction \cup {NoTx}]
    BY <1>1 DEF BeginReserve, Transaction
  <2> QED BY <2>1, <2>2
<1>2. ASSUME NEW t \in Transactions,
             \/ SelectExisting(t) \/ LockPool(t) \/ SumGpus(t) \/ Upsert(t)
             \/ Rollback(t) \/ AbortDeadlocked(t)
      PROVE  PgTypeOK'
  <2>1. StoreTypeOK'
    BY <1>2 DEF SelectExisting, LockPool, SumGpus, Upsert, Rollback, AbortDeadlocked, storeVars,
                StoreTypeOK
  <2>2. CASE LockPool(t)
    BY <2>1, <2>2, OpenIsTransaction DEF LockPool, Open, Transaction
  <2>3. CASE SumGpus(t)
    BY <2>1, <2>3, OpenIsTransaction DEF SumGpus, End, Open, Transaction
  <2>4. CASE Upsert(t)
    <3>1. Present(tx[t].id) \in BOOLEAN
      BY DEF Present
    <3>2. tx[t] \in Transaction
      BY <2>4, OpenIsTransaction DEF Upsert, Open
    <3>3. [tx[t] EXCEPT !.pc = "commit", !.locks_row = Present(tx[t].id)]
              \in Transaction
      BY <3>1, <3>2 DEF Transaction
    <3>4. tx' = [tx EXCEPT ![t] =
              [tx[t] EXCEPT !.pc = "commit", !.locks_row = Present(tx[t].id)]]
      BY <2>4, <3>2 DEF Upsert
    <3> QED BY <2>1, <3>3, <3>4
  <2>5. CASE Rollback(t) \/ AbortDeadlocked(t)
    BY <2>1, <2>5 DEF Rollback, AbortDeadlocked, End
  <2>6. CASE SelectExisting(t)
    <3>1. tx' = [tx EXCEPT ![t] = NoTx] \/ GoOn(t, Present(tx[t].id), Present(tx[t].id))
      BY <2>6 DEF SelectExisting, End
    <3>2. Present(tx[t].id) \in BOOLEAN
      BY DEF Present
    <3>3. tx[t] \in Transaction
      BY <2>6, OpenIsTransaction DEF SelectExisting, Open
    <3>4. tx' \in [Transactions -> Transaction \cup {NoTx}]
      BY <3>1, <3>2, <3>3, GoneOn
    <3> QED BY <2>1, <3>4
  <2> QED BY <1>2, <2>2, <2>3, <2>4, <2>5, <2>6
<1>3. ASSUME NEW t \in Transactions, Commit(t)
      PROVE  PgTypeOK'
  <2>1. PICK id \in ReservationIds, p \in Pools, n \in GpuCounts :
            /\ reservations' = [reservations EXCEPT
                  ![id] = [pool_id |-> p, gpu_count |-> n, status |-> "RESERVED"]]
            /\ reactivated' = reactivated \ {id}
    BY <1>3, CommitWrites
  <2>2. StoreTypeOK'
    BY <2>1 DEF StoreTypeOK, CapacityReservation, Statuses, ActiveReservationStatuses
  <2>3. tx' \in [Transactions -> Transaction \cup {NoTx}]
    BY <1>3, CommitWrites
  <2> QED BY <2>2, <2>3
<1>4. ASSUME NEW id \in ReservationIds, PgMarkActive(id) \/ PgRelease(id)
      PROVE  PgTypeOK'
  <2>1. [OverlappedNext]_storeVars
    BY <1>4 DEF PgMarkActive, PgRelease, StoreNext, OverlappedNext
  <2>2. UNCHANGED tx
    BY <1>4 DEF PgMarkActive, PgRelease
  <2> QED BY <2>1, <2>2, StoreTypeStep
<1>5. CASE UNCHANGED pgVars
  BY <1>5 DEF pgVars, storeVars, StoreTypeOK
<1> QED BY <1>1, <1>2, <1>3, <1>4, <1>5 DEF PgNext

\* A step that leaves the table alone, or reaches it through mark_active or
\* release, either opens a transaction, lets one take its pool lock or its next
\* statement, or ends one: no other transaction changes.
LEMMA LockStep ==
    ASSUME PgTypeOK, PoolLockExclusive, [PgNext]_pgVars
    PROVE  PoolLockExclusive'
<1> USE DEF PgTypeOK, PoolLockExclusive, LocksPool
<1>1. ASSUME NEW t \in Transactions, NEW id \in ReservationIds, NEW p \in Pools,
             NEW n \in GpuCounts, BeginReserve(t, id, p, n)
      PROVE  PoolLockExclusive'
  BY <1>1 DEF BeginReserve
<1>2. ASSUME NEW t \in Transactions, LockPool(t)
      PROVE  PoolLockExclusive'
  <2>1. tx[t] \in Transaction
    BY <1>2, OpenIsTransaction DEF LockPool, Open
  <2>2. \A u \in Transactions \ {t} : tx'[u] = tx[u]
    BY <1>2 DEF LockPool
  <2>3. tx'[t].pool_id = tx[t].pool_id
    BY <1>2, <2>1 DEF LockPool, Transaction
  <2>4. \A u \in Transactions : LocksPool(u) => tx[u].pool_id # tx[t].pool_id
    BY <1>2 DEF LockPool, PoolLocker
  <2> QED BY <2>2, <2>3, <2>4
<1>3. ASSUME NEW t \in Transactions, SumGpus(t) \/ Upsert(t)
      PROVE  PoolLockExclusive'
  <2>1. tx[t] \in Transaction
    BY <1>3, OpenIsTransaction DEF SumGpus, Upsert, Open
  <2>2. \A u \in Transactions : LocksPool(u)' =>
            LocksPool(u) /\ tx'[u].pool_id = tx[u].pool_id
    BY <1>3, <2>1 DEF SumGpus, Upsert, End, NoTx, Transaction
  <2> QED BY <2>2
<1>4. ASSUME NEW t \in Transactions,
             Commit(t) \/ Rollback(t) \/ AbortDeadlocked(t)
      PROVE  PoolLockExclusive'
  BY <1>4 DEF Commit, Rollback, AbortDeadlocked, End, NoTx
<1>5. ASSUME UNCHANGED tx
      PROVE  PoolLockExclusive'
  BY <1>5
<1>6. ASSUME NEW t \in Transactions, SelectExisting(t)
      PROVE  PoolLockExclusive'
  BY <1>6, SelectEffect DEF NoTx
<1> QED
  BY <1>1, <1>2, <1>3, <1>4, <1>5, <1>6 DEF PgNext, PgMarkActive, PgRelease, pgVars

-----------------------------------------------------------------------------
(* Room *)

\* Room for n GPUs is not lost when the GPUs in use become fewer.
LEMMA RoomGrows ==
    ASSUME NEW p \in Pools, NEW n \in GpuCounts,
           NEW S, S \subseteq ReservationIds \X GpuCounts, NEW T \in SUBSET S,
           TotalGpus(p) - Cardinality(S) >= n
    PROVE  TotalGpus(p) - Cardinality(T) >= n
<1>1. Cardinality(T) <= Cardinality(S)
  BY FewerUnits
<1>2. /\ Cardinality(S) \in Nat /\ Cardinality(T) \in Nat
      /\ TotalGpus(p) \in Nat /\ n \in Nat
  BY UnitsFinite, TotalGpusNat, StoreAssumption DEF GpuCounts
<1> QED BY <1>1, <1>2

\* The GPUs in use are GPUs of reservations.
LEMMA UnitsOfReservations ==
    ASSUME NEW p \in Pools
    PROVE  /\ HeldUnits(p) \subseteq ReservationIds \X GpuCounts
           /\ CheckedUnits(p) \subseteq HeldUnits(p)
BY DEF HeldUnits, CheckedUnits

\* A statement of reserve before the commit leaves the table alone, and takes
\* past the SUM only a transaction that found room.
LEMMA StatementSteps ==
    ASSUME PgTypeOK,
           NEW t \in Transactions,
           \/ \E id \in ReservationIds, p \in Pools, n \in GpuCounts :
                 BeginReserve(t, id, p, n)
           \/ SelectExisting(t) \/ LockPool(t) \/ SumGpus(t) \/ Upsert(t) \/ Rollback(t)
           \/ AbortDeadlocked(t)
    PROVE  /\ UNCHANGED storeVars
           /\ \A u \in Transactions : PastSum(u)' =>
                 /\ tx'[u].pool_id = tx[u].pool_id
                 /\ tx'[u].gpu_count = tx[u].gpu_count
                 /\ Open(u)
                 /\ PastSum(u) \/ HasRoom(tx[u].pool_id, tx[u].gpu_count)
<1> USE DEF PgTypeOK, PastSum, Open
<1>1. CASE \E id \in ReservationIds, p \in Pools, n \in GpuCounts :
              BeginReserve(t, id, p, n)
  BY <1>1 DEF BeginReserve
<1>2. CASE LockPool(t) \/ SumGpus(t) \/ Upsert(t)
  <2>1. tx[t] \in Transaction
    BY <1>2, OpenIsTransaction DEF LockPool, SumGpus, Upsert
  <2> QED BY <1>2, <2>1 DEF LockPool, SumGpus, Upsert, End, NoTx, Transaction
<1>3. CASE Rollback(t) \/ AbortDeadlocked(t)
  BY <1>3 DEF Rollback, AbortDeadlocked, End, NoTx
<1>4. CASE SelectExisting(t)
  BY <1>4, SelectEffect DEF NoTx
<1> QED BY <1>1, <1>2, <1>3, <1>4

\* A commit leaves the other transactions alone, and these are in other pools.
LEMMA CommitSteps ==
    ASSUME PgTypeOK, PoolLockExclusive,
           NEW t \in Transactions, Commit(t),
           NEW u \in Transactions, PastSum(u)'
    PROVE  /\ u # t
           /\ tx'[u] = tx[u]
           /\ PastSum(u)
           /\ tx[u].pool_id # tx[t].pool_id
<1>1. u # t /\ tx'[u] = tx[u]
  BY CommitWrites DEF PgTypeOK, PastSum, NoTx
<1>2. PastSum(u) /\ LocksPool(u)
  BY <1>1 DEF PastSum, LocksPool
<1> QED BY <1>1, <1>2, CommitWrites DEF PoolLockExclusive

\* Every step keeps the room that transactions counted.
LEMMA RoomStep ==
    ASSUME PgInv, [PgNext]_pgVars
    PROVE  RoomKept'
<1> USE DEF PgInv
<1> SUFFICES ASSUME NEW u \in Transactions, NEW q \in Pools, NEW n \in GpuCounts,
                    PastSum(u)', tx'[u].pool_id = q, tx'[u].gpu_count = n
             PROVE  TotalGpus(q) - Cardinality(CheckedUnits(q)') >= n
  BY DEF RoomKept
<1>1. ASSUME PastSum(u), tx[u].pool_id = q, tx[u].gpu_count = n,
             CheckedUnits(q)' \subseteq CheckedUnits(q)
      PROVE  TotalGpus(q) - Cardinality(CheckedUnits(q)') >= n
  BY <1>1, UnitsOfReservations, RoomGrows DEF RoomKept
<1>2. ASSUME NEW t \in Transactions,
             \/ \E id \in ReservationIds, p \in Pools, m \in GpuCounts :
                   BeginReserve(t, id, p, m)
             \/ SelectExisting(t) \/ LockPool(t) \/ SumGpus(t) \/ Upsert(t) \/ Rollback(t)
             \/ AbortDeadlocked(t)
      PROVE  TotalGpus(q) - Cardinality(CheckedUnits(q)') >= n
  <2>1. /\ UNCHANGED storeVars
        /\ tx[u].pool_id = q /\ tx[u].gpu_count = n
        /\ PastSum(u) \/ HasRoom(q, n)
    BY <1>2, StatementSteps
  <2>2. CheckedUnits(q)' = CheckedUnits(q)
    BY <2>1 DEF storeVars, CheckedUnits, HeldUnits, HeldInPool, Held
  <2>3. HasRoom(q, n) => TotalGpus(q) - Cardinality(CheckedUnits(q)) >= n
    BY UnitsOfReservations, RoomGrows DEF HasRoom, UsedGpus
  <2> QED BY <2>1, <2>2, <2>3, <1>1
<1>3. ASSUME NEW t \in Transactions, Commit(t)
      PROVE  TotalGpus(q) - Cardinality(CheckedUnits(q)') >= n
  <2>1. PICK id \in ReservationIds, p \in Pools, m \in GpuCounts :
            /\ tx[t].pool_id = p
            /\ reservations' = [reservations EXCEPT
                  ![id] = [pool_id |-> p, gpu_count |-> m, status |-> "RESERVED"]]
            /\ reactivated' = reactivated \ {id}
    BY <1>3, CommitWrites
  <2>2. tx[u].pool_id = q /\ tx[u].gpu_count = n /\ PastSum(u) /\ q # p
    BY <1>3, <2>1, CommitSteps
  <2>3. CheckedUnits(q)' \subseteq CheckedUnits(q)
    BY <2>1, <2>2, WriteUnits DEF PgTypeOK
  <2> QED BY <2>2, <2>3, <1>1
<1>4. ASSUME NEW id \in ReservationIds, PgMarkActive(id) \/ PgRelease(id)
      PROVE  TotalGpus(q) - Cardinality(CheckedUnits(q)') >= n
  <2>1. CheckedUnits(q)' \subseteq CheckedUnits(q)
    BY <1>4, MarkActiveUnits, ReleaseUnits DEF PgMarkActive, PgRelease, PgTypeOK
  <2> QED BY <1>4, <2>1, <1>1 DEF PgMarkActive, PgRelease, PastSum
<1>5. CASE UNCHANGED pgVars
  <2>1. CheckedUnits(q)' = CheckedUnits(q)
    BY <1>5 DEF pgVars, storeVars, CheckedUnits, HeldUnits, HeldInPool, Held
  <2> QED BY <1>5, <2>1, <1>1 DEF pgVars, PastSum
<1> QED BY <1>2, <1>3, <1>4, <1>5 DEF PgNext

-----------------------------------------------------------------------------
(* Capacity *)

\* Every step keeps the capacity bound; only a commit needs the room it counted.
LEMMA PgCapacityStep ==
    ASSUME PgInv, [PgNext]_pgVars
    PROVE  OverbookingNeedsReactivation'
<1> USE DEF PgInv
<1> SUFFICES ASSUME NEW q \in Pools
             PROVE  Cardinality(CheckedUnits(q)') <= TotalGpus(q)
  BY DEF OverbookingNeedsReactivation
<1>1. ASSUME NEW t \in Transactions, Commit(t)
      PROVE  Cardinality(CheckedUnits(q)') <= TotalGpus(q)
  <2>1. PICK id \in ReservationIds, p \in Pools, n \in GpuCounts :
            /\ tx[t].pool_id = p /\ tx[t].gpu_count = n
            /\ reservations' = [reservations EXCEPT
                  ![id] = [pool_id |-> p, gpu_count |-> n, status |-> "RESERVED"]]
            /\ reactivated' = reactivated \ {id}
    BY <1>1, CommitWrites
  <2>2. CASE q # p
    BY <2>1, <2>2, WriteUnits, CheckedUnitsShrink DEF PgTypeOK
  <2>3. CASE q = p
    <3>1. TotalGpus(p) - Cardinality(CheckedUnits(p)) >= n
      BY <1>1, <2>1, CommitWrites DEF RoomKept
    <3>2. CheckedUnits(p)' \subseteq CheckedUnits(p) \cup ({id} \X (1..n))
      BY <2>1, WriteUnits DEF PgTypeOK
    <3>3. CheckedUnits(p) \subseteq ReservationIds \X GpuCounts
      BY UnitsOfReservations
    <3> QED BY <2>3, <3>1, <3>2, <3>3, BlockFits
  <2> QED BY <2>2, <2>3
<1>2. ASSUME UNCHANGED storeVars
      PROVE  Cardinality(CheckedUnits(q)') <= TotalGpus(q)
  <2>1. CheckedUnits(q)' \subseteq CheckedUnits(q)
    BY <1>2 DEF storeVars, CheckedUnits, HeldUnits, HeldInPool, Held
  <2> QED BY <2>1, CheckedUnitsShrink
<1>3. ASSUME NEW id \in ReservationIds, PgMarkActive(id) \/ PgRelease(id)
      PROVE  Cardinality(CheckedUnits(q)') <= TotalGpus(q)
  BY <1>3, MarkActiveUnits, ReleaseUnits, CheckedUnitsShrink
     DEF PgMarkActive, PgRelease, PgTypeOK
<1> QED BY <1>1, <1>2, <1>3, StatementSteps DEF PgNext, pgVars

\* PgTypeOK: tables and transactions stay well typed through deadlocks, rollbacks
\* and deaths of connections (scheduler.py:336-445).
THEOREM PgTypeCorrect == PgSpec => []PgTypeOK
<1>1. PgInit => PgTypeOK
  BY StoreInitInv DEF PgInit, PgTypeOK, StoreInv
<1> QED BY <1>1, PgTypeStep, PTL DEF PgSpec

\* No order of the statements of any number of transactions, with retries of a
\* reservation that is still being made, deaths and late activations, lets the
\* rows that passed the check take more GPUs than a pool has (README.md:183).
THEOREM PgCapacityHolds == PgSpec => []OverbookingNeedsReactivation
<1>1. PgInit => PgInv
  <2> SUFFICES ASSUME PgInit PROVE PgInv
    OBVIOUS
  <2>1. StoreTypeOK /\ OverbookingNeedsReactivation
    BY StoreInitInv DEF PgInit, StoreInv
  <2>2. \A t \in Transactions : tx[t].pc = "none"
    BY DEF PgInit, NoTx
  <2> QED
    BY <2>1, <2>2 DEF PgInit, PgInv, PgTypeOK, PoolLockExclusive, RoomKept, LocksPool,
                      PastSum
<1>2. PgInv /\ [PgNext]_pgVars => PgInv'
  BY PgTypeStep, LockStep, RoomStep, PgCapacityStep DEF PgInv
<1>3. PgInv => OverbookingNeedsReactivation
  BY DEF PgInv
<1> QED BY <1>1, <1>2, <1>3, PTL DEF PgSpec

-----------------------------------------------------------------------------
(* Refinement of the atomic store *)

OneTransactionPerRow ==
    \A t, u \in Transactions :
        Open(t) /\ Open(u) /\ tx[t].id = tx[u].id => t = u

Selected(t) == tx[t].pc \in {"lock_pool", "sum", "upsert", "commit"}

OpenRowsNotHeld == \A t \in Transactions : Selected(t) => ~Held(tx[t].id)

RoomToCommit ==
    \A t \in Transactions, q \in Pools, n \in GpuCounts :
        PastSum(t) /\ tx[t].pool_id = q /\ tx[t].gpu_count = n => HasRoom(q, n)

\* What holds also where two transactions reserve one reservation ...
OverlapInv ==
    /\ PgTypeOK
    /\ PoolLockExclusive
    /\ RoomToCommit

\* ... and where none do.
RefinementInv ==
    /\ OverlapInv
    /\ OneTransactionPerRow
    /\ OpenRowsNotHeld

\* The commit of a transaction is the atomic reserve of the abstract store, and
\* every other statement leaves the abstract store alone.
LEMMA PgStepRefines ==
    ASSUME RefinementInv, [PgNext]_pgVars
    PROVE  [StoreNext]_storeVars
<1>1. ASSUME NEW t \in Transactions, Commit(t)
      PROVE  StoreNext
  <2>1. PICK id \in ReservationIds, p \in Pools, n \in GpuCounts :
            /\ tx[t].id = id /\ tx[t].pool_id = p /\ tx[t].gpu_count = n
            /\ reservations' = [reservations EXCEPT
                  ![id] = [pool_id |-> p, gpu_count |-> n, status |-> "RESERVED"]]
            /\ reactivated' = reactivated \ {id}
            /\ PastSum(t)
    BY <1>1, CommitWrites DEF RefinementInv, OverlapInv
  <2>2. ~Held(id) /\ HasRoom(p, n)
    BY <2>1 DEF RefinementInv, OverlapInv, OpenRowsNotHeld, RoomToCommit, PastSum, Selected
  <2>3. ReserveNew(id, p, n)
    BY <2>1, <2>2 DEF ReserveNew
  <2> QED BY <2>3 DEF StoreNext, Reserve
<1>2. ASSUME NEW id \in ReservationIds, PgMarkActive(id) \/ PgRelease(id)
      PROVE  StoreNext
  BY <1>2 DEF PgMarkActive, PgRelease, StoreNext
<1> QED BY <1>1, <1>2, StatementSteps DEF RefinementInv, OverlapInv, PgNext, pgVars

\* Without concurrent retries a row has one transaction at a time.
LEMMA OneTransactionStep ==
    ASSUME ~ConcurrentRetries, PgTypeOK, OneTransactionPerRow, [PgNext]_pgVars
    PROVE  OneTransactionPerRow'
<1> USE DEF PgTypeOK, OneTransactionPerRow, Open
<1>1. ASSUME NEW t \in Transactions, NEW id \in ReservationIds, NEW p \in Pools,
             NEW n \in GpuCounts, BeginReserve(t, id, p, n)
      PROVE  OneTransactionPerRow'
  <2>1. \A u \in Transactions : Open(u) => tx[u].id # id
    BY <1>1 DEF BeginReserve, OpenOn
  <2> QED BY <1>1, <2>1 DEF BeginReserve
<1>2. ASSUME NEW t \in Transactions, SelectExisting(t)
      PROVE  OneTransactionPerRow'
  BY <1>2, SelectEffect DEF NoTx
<1>3. ASSUME NEW t \in Transactions, LockPool(t) \/ SumGpus(t) \/ Upsert(t)
      PROVE  OneTransactionPerRow'
  <2>1. tx[t] \in Transaction
    BY <1>3, OpenIsTransaction DEF LockPool, SumGpus, Upsert
  <2>2. \A u \in Transactions : Open(u)' => Open(u) /\ tx'[u].id = tx[u].id
    BY <1>3, <2>1 DEF LockPool, SumGpus, Upsert, End, NoTx, Transaction
  <2> QED BY <2>2
<1>4. ASSUME NEW t \in Transactions,
             Commit(t) \/ Rollback(t) \/ AbortDeadlocked(t)
      PROVE  OneTransactionPerRow'
  BY <1>4 DEF Commit, Rollback, AbortDeadlocked, End, NoTx
<1>5. ASSUME UNCHANGED tx
      PROVE  OneTransactionPerRow'
  BY <1>5
<1> QED
  BY <1>1, <1>2, <1>3, <1>4, <1>5 DEF PgNext, PgMarkActive, PgRelease, pgVars

\* The row that a transaction has selected stays unheld until it commits.
LEMMA OpenRowsStep ==
    ASSUME ~LateActivations, RefinementInv, [PgNext]_pgVars
    PROVE  OpenRowsNotHeld'
<1> USE DEF RefinementInv, OverlapInv, PgTypeOK
<1>1. ASSUME UNCHANGED storeVars,
             \A u \in Transactions : Selected(u)' =>
                 /\ tx'[u].id = tx[u].id
                 /\ Selected(u) \/ ~Held(tx[u].id)
      PROVE  OpenRowsNotHeld'
  BY <1>1 DEF storeVars, OpenRowsNotHeld, Held
<1>2. ASSUME NEW t \in Transactions, NEW id \in ReservationIds, NEW p \in Pools,
             NEW n \in GpuCounts, BeginReserve(t, id, p, n)
      PROVE  OpenRowsNotHeld'
  BY <1>1, <1>2 DEF BeginReserve, Selected
<1>3. ASSUME NEW t \in Transactions, SelectExisting(t)
      PROVE  OpenRowsNotHeld'
  BY <1>1, <1>3, SelectEffect DEF Selected, NoTx
<1>4. ASSUME NEW t \in Transactions,
             LockPool(t) \/ SumGpus(t) \/ Upsert(t) \/ Rollback(t) \/ AbortDeadlocked(t)
      PROVE  OpenRowsNotHeld'
  <2>1. UNCHANGED storeVars
    BY <1>4, StatementSteps
  <2>2. \A u \in Transactions : Selected(u)' => Selected(u) /\ tx'[u].id = tx[u].id
    <3>1. CASE LockPool(t) \/ SumGpus(t) \/ Upsert(t)
      <4>1. tx[t] \in Transaction
        BY <3>1, OpenIsTransaction DEF LockPool, SumGpus, Upsert, Open
      <4> QED
        BY <3>1, <4>1 DEF LockPool, SumGpus, Upsert, End, NoTx, Transaction, Selected
    <3>2. CASE Rollback(t) \/ AbortDeadlocked(t)
      BY <3>2 DEF Rollback, AbortDeadlocked, End, NoTx, Selected
    <3> QED BY <1>4, <3>1, <3>2
  <2> QED BY <1>1, <2>1, <2>2
<1>5. ASSUME NEW t \in Transactions, Commit(t)
      PROVE  OpenRowsNotHeld'
  <2>1. PICK id \in ReservationIds, p \in Pools, n \in GpuCounts :
            /\ tx[t].id = id
            /\ reservations' = [reservations EXCEPT
                  ![id] = [pool_id |-> p, gpu_count |-> n, status |-> "RESERVED"]]
            /\ tx' = [tx EXCEPT ![t] = NoTx]
            /\ Open(t)
    BY <1>5, CommitWrites DEF PastSum, Open
  <2>2. \A u \in Transactions : Selected(u)' =>
            Open(u) /\ Selected(u) /\ tx'[u] = tx[u] /\ tx[u].id # id
    BY <2>1 DEF Open, Selected, NoTx, OneTransactionPerRow
  <2>3. \A u \in Transactions : Open(u) => tx[u].id \in ReservationIds
    BY OpenIsTransaction
  <2> QED BY <2>1, <2>2, <2>3 DEF OpenRowsNotHeld, Held, StoreTypeOK
<1>6. ASSUME NEW id \in ReservationIds, PgMarkActive(id) \/ PgRelease(id)
      PROVE  OpenRowsNotHeld'
  <2>1. tx' = tx /\ Present(id) /\ (Held(id) \/ PgRelease(id))
    BY <1>6 DEF PgMarkActive, PgRelease, MarkActive, Release
  <2>2. reservations[id] \in CapacityReservation
    BY <2>1 DEF Present, NoRow, StoreTypeOK
  <2>3. /\ \A i \in ReservationIds \ {id} : reservations'[i] = reservations[i]
        /\ Held(id) \/ reservations'[id].status = "RELEASED"
    BY <1>6, <2>1, <2>2
       DEF PgMarkActive, PgRelease, MarkActive, Release, StoreTypeOK, CapacityReservation
  <2>4. \A u \in Transactions : Selected(u) => tx[u].id \in ReservationIds
    BY OpenIsTransaction DEF Selected, Open
  <2> QED
    BY <2>1, <2>3, <2>4 DEF OpenRowsNotHeld, Held, Selected, ActiveReservationStatuses
<1>7. CASE UNCHANGED pgVars
  BY <1>1, <1>7 DEF pgVars, Selected
<1> QED BY <1>2, <1>3, <1>4, <1>5, <1>6, <1>7 DEF PgNext

\* The room a transaction counted is there when it commits.
LEMMA RoomToCommitStep ==
    ASSUME ~LateActivations, OverlapInv, [PgNext]_pgVars
    PROVE  RoomToCommit'
<1> USE DEF OverlapInv
<1> SUFFICES ASSUME NEW u \in Transactions, NEW q \in Pools, NEW n \in GpuCounts,
                    PastSum(u)', tx'[u].pool_id = q, tx'[u].gpu_count = n
             PROVE  HasRoom(q, n)'
  BY DEF RoomToCommit
<1>1. ASSUME PastSum(u), tx[u].pool_id = q, tx[u].gpu_count = n,
             HeldUnits(q)' \subseteq HeldUnits(q)
      PROVE  HasRoom(q, n)'
  BY <1>1, UnitsOfReservations, RoomGrows DEF RoomToCommit, HasRoom, UsedGpus, TotalGpus
<1>2. ASSUME NEW t \in Transactions,
             \/ \E id \in ReservationIds, p \in Pools, m \in GpuCounts :
                   BeginReserve(t, id, p, m)
             \/ SelectExisting(t) \/ LockPool(t) \/ SumGpus(t) \/ Upsert(t) \/ Rollback(t)
             \/ AbortDeadlocked(t)
      PROVE  HasRoom(q, n)'
  <2>1. /\ UNCHANGED storeVars
        /\ tx[u].pool_id = q /\ tx[u].gpu_count = n
        /\ PastSum(u) \/ HasRoom(q, n)
    BY <1>2, StatementSteps
  <2>2. HasRoom(q, n)
    BY <2>1 DEF RoomToCommit
  <2>3. HeldUnits(q)' = HeldUnits(q)
    BY <2>1 DEF storeVars, HeldUnits, HeldInPool, Held
  <2> QED BY <2>2, <2>3 DEF HasRoom, UsedGpus, TotalGpus
<1>3. ASSUME NEW t \in Transactions, Commit(t)
      PROVE  HasRoom(q, n)'
  <2>1. PICK id \in ReservationIds, p \in Pools, m \in GpuCounts :
            /\ tx[t].pool_id = p
            /\ reservations' = [reservations EXCEPT
                  ![id] = [pool_id |-> p, gpu_count |-> m, status |-> "RESERVED"]]
            /\ reactivated' = reactivated \ {id}
    BY <1>3, CommitWrites
  <2>2. tx[u].pool_id = q /\ tx[u].gpu_count = n /\ PastSum(u) /\ q # p
    BY <1>3, <2>1, CommitSteps
  <2>3. HeldUnits(q)' \subseteq HeldUnits(q)
    BY <2>1, <2>2, WriteUnits DEF PgTypeOK
  <2> QED BY <2>2, <2>3, <1>1
<1>4. ASSUME NEW id \in ReservationIds, PgMarkActive(id) \/ PgRelease(id)
      PROVE  HasRoom(q, n)'
  <2>1. HeldUnits(q)' \subseteq HeldUnits(q)
    BY <1>4, MarkActiveUnits, ReleaseUnits DEF PgMarkActive, PgRelease, PgTypeOK
  <2> QED BY <1>4, <2>1, <1>1 DEF PgMarkActive, PgRelease, PastSum
<1>5. CASE UNCHANGED pgVars
  <2>1. HeldUnits(q)' = HeldUnits(q)
    BY <1>5 DEF pgVars, storeVars, HeldUnits, HeldInPool, Held
  <2> QED BY <1>5, <2>1, <1>1 DEF pgVars, PastSum
<1> QED BY <1>2, <1>3, <1>4, <1>5 DEF PgNext

LEMMA PgInitOverlap == PgInit => OverlapInv
BY StoreInitInv DEF PgInit, StoreInv, NoTx, OverlapInv, PgTypeOK, PoolLockExclusive,
   RoomToCommit, LocksPool, PastSum

\* With any number of transactions for one reservation, the postgres store is the
\* store whose reserves may overlap: a commit reserves an id that holds nothing,
\* or writes over what another transaction reserved, into a pool with room for
\* it (scheduler.py:346-439).  The other modules take the store at this level.  An
\* activation of a released row can take that room between sum and commit; what
\* holds even then is PgCapacityHolds.
THEOREM PgImplementsOverlapped ==
    ASSUME ~LateActivations
    PROVE  PgSpec => OverlappedStoreSpec
<1>1. OverlapInv /\ [PgNext]_pgVars => OverlapInv'
  BY PgTypeStep, LockStep, RoomToCommitStep DEF OverlapInv
<1>2. PgInit => StoreInit
  BY DEF PgInit
<1>3. ASSUME OverlapInv, NEW t \in Transactions, Commit(t)
      PROVE  OverlappedNext
  <2>1. PICK id \in ReservationIds, p \in Pools, n \in GpuCounts :
            /\ tx[t].id = id /\ tx[t].pool_id = p /\ tx[t].gpu_count = n
            /\ reservations' = [reservations EXCEPT
                  ![id] = [pool_id |-> p, gpu_count |-> n, status |-> "RESERVED"]]
            /\ reactivated' = reactivated \ {id}
            /\ PastSum(t)
    BY <1>3, CommitWrites DEF OverlapInv
  <2>2. HasRoom(p, n)
    BY <1>3, <2>1 DEF OverlapInv, RoomToCommit
  <2>3. ReserveNew(id, p, n) \/ Overwrite(id, p, n)
    BY <2>1, <2>2, PostgresAssumption DEF ReserveNew, Overwrite
  <2> QED BY <2>3 DEF OverlappedNext, StoreNext, Reserve
<1>4. ASSUME NEW id \in ReservationIds, PgMarkActive(id) \/ PgRelease(id)
      PROVE  OverlappedNext
  BY <1>4 DEF PgMarkActive, PgRelease, StoreNext, OverlappedNext
<1>5. OverlapInv /\ [PgNext]_pgVars => [OverlappedNext]_storeVars
  BY <1>3, <1>4, StatementSteps DEF OverlapInv, PgNext, pgVars
<1> QED BY <1>1, <1>2, <1>5, PgInitOverlap, PTL DEF PgSpec, OverlappedStoreSpec

\* While no two transactions reserve one reservation and no released one is
\* activated, the postgres store is the atomic store, for every catalogue and
\* any number of connections.
THEOREM PgImplementsStore ==
    ASSUME ~ConcurrentRetries, ~LateActivations
    PROVE  PgSpec => ImplementsReservationStore
<1>1. PgInit => RefinementInv
  BY PgInitOverlap DEF PgInit, NoTx, RefinementInv, OneTransactionPerRow, OpenRowsNotHeld,
     Open, Selected
<1>2. RefinementInv /\ [PgNext]_pgVars => RefinementInv'
  BY PgTypeStep, LockStep, OneTransactionStep, OpenRowsStep, RoomToCommitStep
     DEF RefinementInv, OverlapInv
<1>3. PgInit => StoreInit
  BY DEF PgInit
<1>4. RefinementInv /\ [PgNext]_pgVars => [StoreNext]_storeVars
  BY PgStepRefines
<1> QED BY <1>1, <1>2, <1>3, <1>4, PTL DEF PgSpec, ImplementsReservationStore, StoreSpec

\* While no two transactions reserve one reservation and no released one is
\* activated, a reservation that holds GPUs keeps its pool and its size through
\* every order of the statements (scheduler.py:355-360).
COROLLARY PgHeldNeverMoves ==
    ASSUME ~ConcurrentRetries, ~LateActivations
    PROVE  PgSpec => HeldNeverMoves
<1>1. PgSpec => StoreSpec
  BY PgImplementsStore DEF ImplementsReservationStore
<1> QED BY <1>1, HeldReservationsStay

-----------------------------------------------------------------------------
(* Deadlock *)

\* A row is locked by one transaction at a time.
RowLockExclusive ==
    \A t, u \in Transactions :
        /\ Open(t) /\ tx[t].locks_row
        /\ Open(u) /\ tx[u].locks_row
        /\ tx[t].id = tx[u].id
        => t = u

\* A statement locks a row that no other transaction has locked.
LEMMA RowLockStep ==
    ASSUME PgTypeOK, RowLockExclusive, [PgNext]_pgVars
    PROVE  RowLockExclusive'
<1> USE DEF PgTypeOK, RowLockExclusive, Open
<1>1. ASSUME NEW t \in Transactions, NEW id \in ReservationIds, NEW p \in Pools,
             NEW n \in GpuCounts, BeginReserve(t, id, p, n)
      PROVE  RowLockExclusive'
  BY <1>1 DEF BeginReserve
<1>2. ASSUME NEW t \in Transactions, LockPool(t) \/ SumGpus(t)
      PROVE  RowLockExclusive'
  <2>1. tx[t] \in Transaction
    BY <1>2, OpenIsTransaction DEF LockPool, SumGpus
  <2>2. \A u \in Transactions : Open(u)' =>
            Open(u) /\ tx'[u].id = tx[u].id /\ tx'[u].locks_row = tx[u].locks_row
    BY <1>2, <2>1 DEF LockPool, SumGpus, End, NoTx, Transaction
  <2> QED BY <2>2
<1>3. ASSUME NEW t \in Transactions, Upsert(t)
      PROVE  RowLockExclusive'
  <2>1. tx[t] \in Transaction
    BY <1>3, OpenIsTransaction DEF Upsert
  <2>2. \A u \in Transactions \ {t} :
            Open(u) /\ tx[u].id = tx[t].id => ~tx[u].locks_row
    BY <1>3 DEF Upsert, KeyTaker, RowLocker, OpenOn
  <2>3. /\ tx'[t].id = tx[t].id
        /\ \A u \in Transactions \ {t} : tx'[u] = tx[u]
    BY <1>3, <2>1 DEF Upsert, Transaction
  <2> QED BY <2>2, <2>3
<1>4. ASSUME NEW t \in Transactions,
             Commit(t) \/ Rollback(t) \/ AbortDeadlocked(t)
      PROVE  RowLockExclusive'
  BY <1>4 DEF Commit, Rollback, AbortDeadlocked, End, NoTx
<1>5. ASSUME UNCHANGED tx
      PROVE  RowLockExclusive'
  BY <1>5
<1>6. ASSUME NEW t \in Transactions, SelectExisting(t)
      PROVE  RowLockExclusive'
  <2>1. \A u \in Transactions : Open(u) /\ tx[u].id = tx[t].id => ~tx[u].locks_row
    BY <1>6, SelectEffect DEF RowLocker, OpenOn
  <2> QED BY <1>6, <2>1, SelectEffect DEF NoTx
<1> QED
  BY <1>1, <1>2, <1>3, <1>4, <1>5, <1>6 DEF PgNext, PgMarkActive, PgRelease, pgVars

\* Who is waited for at an INSERT and waits itself has selected the row later,
\* locked it and waits for a pool.
LEMMA WaitedForAtInsert ==
    ASSUME PgTypeOK, RowLockExclusive,
           NEW t \in Transactions, NEW u \in Transactions, NEW v \in Transactions,
           NEW w \in Transactions,
           tx[u].pc = "upsert", WaitsFor(u, t), WaitsFor(t, v), WaitsFor(v, w)
    PROVE  /\ tx[t].id = tx[u].id
           /\ tx[t].pc = "lock_pool" /\ tx[t].locks_row
           /\ ~tx[u].locks_row
<1>1. t # u /\ t \in KeyTaker(tx[u].id)
  BY DEF WaitsFor
<1>2. tx[t].pc \in {"lock_pool", "upsert"}
  BY DEF WaitsFor
<1>3. Open(t) /\ tx[t].id = tx[u].id /\ tx[t].locks_row
  BY <1>1, <1>2 DEF KeyTaker, RowLocker, OpenOn
<1>4. Open(u)
  BY DEF Open
<1>5. ~tx[u].locks_row
  BY <1>1, <1>3, <1>4 DEF RowLockExclusive
<1>6. ASSUME tx[t].pc = "upsert"
      PROVE  FALSE
  <2>1. v # t /\ v \in KeyTaker(tx[t].id)
    BY <1>6 DEF WaitsFor
  <2>2. v \notin RowLocker(tx[t].id)
    BY <1>3, <2>1 DEF RowLocker, OpenOn, RowLockExclusive
  <2>3. tx[v].pc = "commit"
    BY <2>1, <2>2 DEF KeyTaker, OpenOn
  <2> QED BY <2>3 DEF WaitsFor
<1> QED BY <1>2, <1>3, <1>5, <1>6

\* Transactions deadlock only over a reservation that two of them reserve, one
\* having selected its row before and one after it was first written: the order
\* row, pool, row of reserve is safe for different reservations, with any number
\* of connections (scheduler.py:346-424).
THEOREM PgDeadlockNeedsRetry == PgSpec => []DeadlockNeedsRetry
<1>1. PgInit => PgTypeOK /\ RowLockExclusive
  <2>1. PgInit => PgTypeOK
    BY StoreInitInv DEF PgInit, PgTypeOK, StoreInv
  <2>2. PgInit => RowLockExclusive
    BY DEF PgInit, NoTx, Open, RowLockExclusive
  <2> QED BY <2>1, <2>2
<1>2. PgTypeOK /\ RowLockExclusive /\ [PgNext]_pgVars => (PgTypeOK /\ RowLockExclusive)'
  BY PgTypeStep, RowLockStep
<1>3. PgTypeOK /\ RowLockExclusive => DeadlockNeedsRetry
  <2> SUFFICES ASSUME PgTypeOK, RowLockExclusive,
                      NEW S \in SUBSET Transactions, Deadlocked(S)
               PROVE  \E t, u \in S :
                          /\ tx[t].id = tx[u].id
                          /\ tx[t].pc = "lock_pool" /\ tx[t].locks_row
                          /\ tx[u].pc = "upsert" /\ ~tx[u].locks_row
    BY DEF DeadlockNeedsRetry
  <2>1. \A u \in S : \E t \in S : WaitsFor(u, t)
    BY DEF Deadlocked
  <2>2. PICK u \in S : tx[u].pc = "upsert"
    <3>1. PICK x \in S, y \in S : WaitsFor(x, y)
      BY <2>1 DEF Deadlocked
    <3>2. CASE tx[x].pc = "upsert"
      BY <3>2
    <3>3. CASE tx[x].pc = "lock_pool"
      <4>1. tx[y].pc \in {"sum", "upsert", "commit"}
        BY <3>1, <3>3 DEF WaitsFor, PoolLocker
      <4>2. tx[y].pc = "upsert"
        BY <2>1, <4>1 DEF WaitsFor
      <4> QED BY <4>2
    <3> QED BY <3>1, <3>2, <3>3 DEF WaitsFor
  <2>3. PICK t \in S, v \in S, w \in S :
            WaitsFor(u, t) /\ WaitsFor(t, v) /\ WaitsFor(v, w)
    BY <2>1
  <2> QED BY <2>2, <2>3, WaitedForAtInsert
<1> QED BY <1>1, <1>2, <1>3, PTL DEF PgSpec

\* While no two transactions reserve one reservation, no set of transactions
\* waits for itself: reserves that Temporal runs once at a time never deadlock.
COROLLARY PgNoDeadlock ==
    ASSUME ~ConcurrentRetries
    PROVE  PgSpec => [](\A S \in SUBSET Transactions : ~Deadlocked(S))
<1> DEFINE Inv == PgTypeOK /\ OneTransactionPerRow
<1>1. PgInit => Inv
  BY StoreInitInv DEF PgInit, PgTypeOK, StoreInv, NoTx, Open, OneTransactionPerRow
<1>2. Inv /\ [PgNext]_pgVars => Inv'
  BY PgTypeStep, OneTransactionStep
<1>3. Inv /\ DeadlockNeedsRetry => \A S \in SUBSET Transactions : ~Deadlocked(S)
  BY DEF DeadlockNeedsRetry, OneTransactionPerRow, Open
<1> QED BY <1>1, <1>2, <1>3, PgDeadlockNeedsRetry, PTL DEF PgSpec
-----------------------------------------------------------------------------
(* What overlapping reserves may write over *)

\* One transaction at a time has written the key of a row and not committed.
KeyExclusive ==
    \A t, u \in Transactions :
        /\ tx[t].pc = "commit" /\ tx[u].pc = "commit"
        /\ tx[t].id = tx[u].id
        => t = u

\* A row that a SELECT found not held stays so: it is locked.
SawRowLocked ==
    \A t \in Transactions :
        Selected(t) /\ tx[t].saw_row =>
            tx[t].locks_row /\ Present(tx[t].id) /\ ~Held(tx[t].id)

\* A key written without locking a row is the key of no row.
WrittenUnlocked ==
    \A t \in Transactions :
        tx[t].pc = "commit" /\ ~tx[t].locks_row => ~Present(tx[t].id)

SawInv ==
    /\ PgTypeOK
    /\ RowLockExclusive
    /\ KeyExclusive
    /\ SawRowLocked
    /\ WrittenUnlocked

\* The statement t runs touches neither the table nor another transaction, and t
\* either is no further than its pool lock or keeps what it saw and locks.
LEMMA SawKept ==
    ASSUME SawInv, UNCHANGED storeVars, NEW t \in Transactions,
           \A u \in Transactions \ {t} : tx'[u] = tx[u],
           \/ tx'[t].pc \in {"none", "select"}
           \/ /\ tx'[t].pc # "commit"
              /\ tx'[t].saw_row => tx'[t].locks_row /\ Present(tx'[t].id)
                                   /\ ~Held(tx'[t].id)
    PROVE  KeyExclusive' /\ SawRowLocked' /\ WrittenUnlocked'
<1>1. \A id : Held(id)' = Held(id) /\ Present(id)' = Present(id)
  BY DEF Held, Present, storeVars
<1>2. \A u \in Transactions : tx'[u].pc = "commit" => tx'[u] = tx[u]
  OBVIOUS
<1> QED BY <1>1, <1>2 DEF SawInv, KeyExclusive, SawRowLocked, WrittenUnlocked, Selected

LEMMA SawStep ==
    ASSUME SawInv, [PgNext]_pgVars
    PROVE  SawInv'
<1>0. PgTypeOK' /\ RowLockExclusive'
  BY PgTypeStep, RowLockStep DEF SawInv
<1>1. ASSUME NEW t \in Transactions, NEW id \in ReservationIds, NEW p \in Pools,
             NEW n \in GpuCounts, BeginReserve(t, id, p, n)
      PROVE  KeyExclusive' /\ SawRowLocked' /\ WrittenUnlocked'
  <2>1. /\ UNCHANGED storeVars /\ tx'[t].pc = "select"
        /\ \A u \in Transactions \ {t} : tx'[u] = tx[u]
    BY <1>1 DEF BeginReserve, SawInv, PgTypeOK
  <2> QED BY <2>1, SawKept
<1>2. ASSUME NEW t \in Transactions, SelectExisting(t)
      PROVE  KeyExclusive' /\ SawRowLocked' /\ WrittenUnlocked'
  <2>1. PgTypeOK
    BY DEF SawInv
  <2>2. CASE tx'[t] = NoTx
    BY <1>2, <2>1, <2>2, SelectEffect, SawKept DEF NoTx
  <2>3. CASE tx'[t] # NoTx
    BY <1>2, <2>1, <2>3, SelectEffect, SawKept
  <2> QED BY <2>2, <2>3
<1>3. ASSUME NEW t \in Transactions, LockPool(t) \/ SumGpus(t)
      PROVE  KeyExclusive' /\ SawRowLocked' /\ WrittenUnlocked'
  <2>1. tx[t] \in Transaction /\ Selected(t)
    BY <1>3, OpenIsTransaction DEF LockPool, SumGpus, Open, Selected, SawInv
  <2>2. /\ UNCHANGED storeVars
        /\ \A u \in Transactions \ {t} : tx'[u] = tx[u]
        /\ \/ tx'[t].pc = "none"
           \/ /\ tx'[t].pc # "commit" /\ tx'[t].id = tx[t].id
              /\ tx'[t].saw_row = tx[t].saw_row /\ tx'[t].locks_row = tx[t].locks_row
    BY <1>3, <2>1 DEF LockPool, SumGpus, End, NoTx, SawInv, PgTypeOK, Transaction
  <2> QED BY <2>1, <2>2, SawKept DEF SawInv, SawRowLocked
<1>4. ASSUME NEW t \in Transactions, Rollback(t) \/ AbortDeadlocked(t)
      PROVE  KeyExclusive' /\ SawRowLocked' /\ WrittenUnlocked'
  <2>1. /\ UNCHANGED storeVars /\ tx'[t].pc = "none"
        /\ \A u \in Transactions \ {t} : tx'[u] = tx[u]
    BY <1>4 DEF Rollback, AbortDeadlocked, End, NoTx, SawInv, PgTypeOK
  <2> QED BY <2>1, SawKept
<1>5. ASSUME NEW t \in Transactions, Upsert(t)
      PROVE  KeyExclusive' /\ SawRowLocked' /\ WrittenUnlocked'
  <2>1. tx[t] \in Transaction /\ Selected(t) /\ UNCHANGED storeVars
    BY <1>5, OpenIsTransaction DEF Upsert, Open, Selected, SawInv
  <2>2. /\ tx'[t].pc = "commit" /\ tx'[t].id = tx[t].id
        /\ tx'[t].saw_row = tx[t].saw_row
        /\ tx'[t].locks_row = Present(tx[t].id)
        /\ \A u \in Transactions \ {t} : tx'[u] = tx[u]
    BY <1>5, <2>1 DEF Upsert, SawInv, PgTypeOK, Transaction
  <2>3. \A u \in Transactions \ {t} : tx[u].pc = "commit" => tx[u].id # tx[t].id
    BY <1>5 DEF Upsert, KeyTaker, OpenOn, Open
  <2>4. \A id : Held(id)' = Held(id) /\ Present(id)' = Present(id)
    BY <2>1 DEF Held, Present, storeVars
  <2>5. KeyExclusive'
    BY <2>2, <2>3 DEF SawInv, KeyExclusive
  <2>6. SawRowLocked' /\ WrittenUnlocked'
    BY <2>1, <2>2, <2>4 DEF SawInv, SawRowLocked, WrittenUnlocked, Selected
  <2> QED BY <2>5, <2>6
<1>6. ASSUME NEW t \in Transactions, Commit(t)
      PROVE  KeyExclusive' /\ SawRowLocked' /\ WrittenUnlocked'
  <2>1. PICK id, row :
            /\ id \in ReservationIds /\ tx[t].id = id
            /\ reservations' = [reservations EXCEPT ![id] = row]
            /\ tx' = [tx EXCEPT ![t] = NoTx]
            /\ tx[t].pc = "commit"
    BY <1>6, CommitWrites DEF SawInv, Commit
  <2>2. \A u \in Transactions : Selected(u)' =>
            /\ u # t /\ tx'[u] = tx[u] /\ Selected(u) /\ Open(u)
            /\ tx[u].id \in ReservationIds
    <3>1. \A u \in Transactions : Selected(u)' => u # t /\ tx'[u] = tx[u]
      BY <2>1 DEF SawInv, PgTypeOK, Selected, NoTx
    <3>2. \A u \in Transactions : Selected(u) => Open(u)
      BY DEF Selected, Open
    <3>3. \A u \in Transactions : Open(u) => tx[u].id \in ReservationIds
      BY OpenIsTransaction DEF SawInv
    <3> QED BY <3>1, <3>2, <3>3 DEF Selected
  <2>3. \A u \in Transactions : tx[u].pc = "commit" /\ u # t => tx[u].id # id
    BY <2>1 DEF SawInv, KeyExclusive
  <2>4. \A u \in Transactions :
            Selected(u) /\ tx[u].saw_row /\ u # t => tx[u].id # id
    <3> SUFFICES ASSUME NEW u \in Transactions, Selected(u), tx[u].saw_row, u # t,
                        tx[u].id = id
                 PROVE  FALSE
      OBVIOUS
    <3>1. tx[u].locks_row /\ Present(id) /\ Open(u)
      BY DEF SawInv, SawRowLocked, Selected, Open
    <3>2. tx[t].locks_row /\ Open(t)
      BY <2>1, <3>1 DEF SawInv, WrittenUnlocked, Open
    <3> QED BY <2>1, <3>1, <3>2 DEF SawInv, RowLockExclusive
  <2>5. \A i \in ReservationIds \ {id} :
            Held(i)' = Held(i) /\ Present(i)' = Present(i)
    BY <2>1 DEF Held, Present, SawInv, PgTypeOK, StoreTypeOK
  <2>6. KeyExclusive'
    BY <2>2 DEF SawInv, KeyExclusive, Selected
  <2>7. SawRowLocked'
    BY <2>2, <2>4, <2>5 DEF SawInv, SawRowLocked
  <2>8. WrittenUnlocked'
    BY <2>2, <2>3, <2>5 DEF SawInv, WrittenUnlocked, Selected
  <2> QED BY <2>6, <2>7, <2>8
<1>7. ASSUME NEW id \in ReservationIds, PgMarkActive(id) \/ PgRelease(id)
      PROVE  KeyExclusive' /\ SawRowLocked' /\ WrittenUnlocked'
  <2>1. /\ UNCHANGED tx /\ RowLocker(id) = {} /\ Present(id)
        /\ \A i \in ReservationIds \ {id} : reservations'[i] = reservations[i]
    BY <1>7 DEF PgMarkActive, PgRelease, MarkActive, Release, SawInv, PgTypeOK,
                StoreTypeOK
  <2>2. \A t \in Transactions : Selected(t) =>
            Open(t) /\ tx[t].id \in ReservationIds
    BY OpenIsTransaction DEF SawInv, Selected, Open
  <2>3. \A t \in Transactions :
            \/ Selected(t) /\ tx[t].saw_row
            \/ tx[t].pc = "commit" /\ ~tx[t].locks_row
            => tx[t].id # id /\ tx[t].id \in ReservationIds
    BY <2>1, <2>2 DEF SawInv, SawRowLocked, WrittenUnlocked, RowLocker, OpenOn, Selected
  <2>4. KeyExclusive'
    BY <2>1 DEF SawInv, KeyExclusive
  <2>5. SawRowLocked' /\ WrittenUnlocked'
    BY <2>1, <2>3 DEF SawInv, SawRowLocked, WrittenUnlocked, Selected, Held, Present
  <2> QED BY <2>4, <2>5
<1>8. ASSUME UNCHANGED pgVars
      PROVE  KeyExclusive' /\ SawRowLocked' /\ WrittenUnlocked'
  <2>1. tx' = tx /\ reservations' = reservations
    BY <1>8 DEF pgVars, storeVars
  <2>2. KeyExclusive' /\ SawRowLocked'
    BY <2>1 DEF SawInv, KeyExclusive, SawRowLocked, Selected, Held, Present
  <2>3. WrittenUnlocked'
    BY <2>1 DEF SawInv, WrittenUnlocked, Present
  <2> QED BY <2>2, <2>3
<1>9. CASE PgNext
  BY <1>0, <1>1, <1>2, <1>3, <1>4, <1>5, <1>6, <1>7, <1>9 DEF PgNext, SawInv
<1> QED BY <1>0, <1>8, <1>9 DEF SawInv

\* What OnlyUnseenOverwritten says of one step.
SparesSeenRows ==
    \A t \in Transactions : Commit(t) /\ Held(tx[t].id) => ~tx[t].saw_row

\* OnlyUnseenOverwritten: overlapping reserves write over a held row only where
\* the SELECT of the later writer found no row, for any number of connections,
\* with releases, late activations and deaths between the statements
\* (scheduler.py:346-361, 395-438).
THEOREM PgOnlyUnseenOverwritten == PgSpec => OnlyUnseenOverwritten
<1>1. PgInit => SawInv
  BY StoreInitInv DEF PgInit, SawInv, PgTypeOK, StoreInv, NoTx, Open, Selected,
     RowLockExclusive, KeyExclusive, SawRowLocked, WrittenUnlocked
<1>2. SawInv => SparesSeenRows
  BY DEF SawInv, SawRowLocked, Selected, Commit, SparesSeenRows
<1>3. SawInv /\ [PgNext]_pgVars => [SparesSeenRows]_pgVars
  BY <1>2
<1>4. SawInv /\ [PgNext]_pgVars => SawInv'
  BY SawStep
<1> QED BY <1>1, <1>3, <1>4, PTL DEF PgSpec, OnlyUnseenOverwritten, SparesSeenRows
=============================================================================
