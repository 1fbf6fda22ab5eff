----------------------------- MODULE PostgresStore -----------------------------
(***************************************************************************)
(* PostgresReservationStore of src/placement/scheduler.py, one SQL         *)
(* statement at a time, at the READ COMMITTED level psycopg leaves in      *)
(* place.  The committed table is the table of ReservationStore; a reserve *)
(* transaction writes it only when it commits.  get, mark_active, release  *)
(* and reserved_gpus_by_pool are transactions of one statement and so are  *)
(* single steps; reserve is the sequence                                   *)
(*                                                                         *)
(*   SELECT row FOR UPDATE, lock the pool, SUM, INSERT or UPDATE, COMMIT   *)
(*                                                                         *)
(* A statement that has to wait for a lock is an action that is not        *)
(* enabled.  The two statements on gpu_pool_locks are one action: both     *)
(* wait for the same transaction, the one that inserted or locked the row  *)
(* of the pool and has not ended.                                          *)
(***************************************************************************)
EXTENDS ReservationStore

CONSTANTS
    Transactions,       \* connections that can run reserve at the same time
    ConcurrentRetries,  \* TRUE: two of them may reserve the same reservation
    LateActivations     \* TRUE: mark_active may reach a released reservation

ASSUME PostgresAssumption ==
    /\ Durable
    /\ ConcurrentRetries \in BOOLEAN
    /\ LateActivations \in BOOLEAN

VARIABLE tx             \* the open reserve transactions
pgVars == <<tx, storeVars>>

-----------------------------------------------------------------------------
(* Transactions and their locks *)

NoTx == [pc |-> "none"]

\* pc is the statement to run next; locks_row: holds the lock of its row;
\* saw_row: its SELECT found a row.
Transaction ==
    [pc : {"select", "lock_pool", "sum", "upsert", "commit"}, id : ReservationIds,
     pool_id : Pools, gpu_count : GpuCounts, locks_row : BOOLEAN, saw_row : BOOLEAN]

Open(t) == tx[t].pc # "none"

PgTypeOK ==
    /\ StoreTypeOK
    /\ tx \in [Transactions -> Transaction \cup {NoTx}]

OpenOn(id) == {t \in Transactions : Open(t) /\ tx[t].id = id}

RowLocker(id) == {t \in OpenOn(id) : tx[t].locks_row}

\* An uncommitted row is invisible, but its key is taken.
KeyTaker(id) == RowLocker(id) \cup {t \in OpenOn(id) : tx[t].pc = "commit"}

\* The same, if the INSERT that only finds the pool's row locked it in share mode.
PoolSharer(p) ==
    {t \in Transactions :
        tx[t].pc \notin {"none", "select"} /\ tx[t].pool_id = p}

PoolLocker(p) ==
    {t \in Transactions :
        tx[t].pc \in {"sum", "upsert", "commit"} /\ tx[t].pool_id = p}

PgInit ==
    /\ StoreInit
    /\ tx = [t \in Transactions |-> NoTx]

End(t) == tx' = [tx EXCEPT ![t] = NoTx]

-----------------------------------------------------------------------------
(* reserve *)

BeginReserve(t, id, p, n) ==
    /\ ~Open(t)
    /\ ~ConcurrentRetries => OpenOn(id) = {}
    /\ tx' = [tx EXCEPT ![t] =
           [pc |-> "select", id |-> id, pool_id |-> p, gpu_count |-> n,
            locks_row |-> FALSE, saw_row |-> FALSE]]
    /\ UNCHANGED storeVars

GoOn(t, sees, locks) ==
    tx' = [tx EXCEPT ![t].pc = "lock_pool", ![t].saw_row = sees, ![t].locks_row = locks]

\* The same, without the early return.
SelectAnyway(t) ==
    /\ tx[t].pc = "select"
    /\ RowLocker(tx[t].id) = {}
    /\ GoOn(t, Present(tx[t].id), Present(tx[t].id))
    /\ UNCHANGED storeVars

\* The same, without FOR UPDATE.
SelectUnlocked(t) ==
    /\ tx[t].pc = "select"
    /\ IF Held(tx[t].id) THEN End(t) ELSE GoOn(t, Present(tx[t].id), FALSE)
    /\ UNCHANGED storeVars

\* SELECT ... FOR UPDATE, the early return of an active reservation included.
\* It waits for, and locks, a row that exists; of a row that does not exist
\* there is nothing to lock.
SelectExisting(t) ==
    /\ tx[t].pc = "select"
    /\ RowLocker(tx[t].id) = {}
    /\ IF Held(tx[t].id) THEN End(t)
       ELSE GoOn(t, Present(tx[t].id), Present(tx[t].id))
    /\ UNCHANGED storeVars

\* The pool lock, taken without waiting for its holder.
LockPoolAtOnce(t) ==
    /\ tx[t].pc = "lock_pool"
    /\ tx' = [tx EXCEPT ![t].pc = "sum"]
    /\ UNCHANGED storeVars

LockPool(t) ==
    /\ tx[t].pc = "lock_pool"
    /\ PoolLocker(tx[t].pool_id) = {}
    /\ tx' = [tx EXCEPT ![t].pc = "sum"]
    /\ UNCHANGED storeVars

\* SELECT SUM and the capacity check; ValueError rolls the transaction back.
SumGpus(t) ==
    /\ tx[t].pc = "sum"
    /\ \/ /\ HasRoom(tx[t].pool_id, tx[t].gpu_count)
          /\ tx' = [tx EXCEPT ![t].pc = "upsert"]
       \/ /\ ~HasRoom(tx[t].pool_id, tx[t].gpu_count)
          /\ End(t)
    /\ UNCHANGED storeVars

\* INSERT ... ON CONFLICT DO UPDATE waits for another writer of the same key.
Upsert(t) ==
    /\ tx[t].pc = "upsert"
    /\ KeyTaker(tx[t].id) \subseteq {t}
    /\ tx' = [tx EXCEPT ![t].pc = "commit", ![t].locks_row = Present(tx[t].id)]
    /\ UNCHANGED storeVars

\* The row, with a status the schema admits and no caller expects.
WritePending(t) ==
    /\ reservations' = [reservations EXCEPT ![tx[t].id] =
          [pool_id |-> tx[t].pool_id, gpu_count |-> tx[t].gpu_count,
           status |-> "PENDING_CAPACITY"]]
    /\ reactivated' = reactivated \ {tx[t].id}

Write(t) ==
    /\ reservations' = [reservations EXCEPT ![tx[t].id] =
          [pool_id |-> tx[t].pool_id, gpu_count |-> tx[t].gpu_count,
           status |-> "RESERVED"]]
    /\ reactivated' = reactivated \ {tx[t].id}

\* The transaction block that returns without ending its transaction.
CommitKeepingLocks(t) ==
    /\ tx[t].pc = "commit"
    /\ Write(t)
    /\ UNCHANGED tx

Commit(t) ==
    /\ tx[t].pc = "commit"
    /\ Write(t)
    /\ End(t)

\* The worker dies or loses its connection before the commit.
Rollback(t) ==
    /\ Open(t)
    /\ End(t)
    /\ UNCHANGED storeVars

\* t waits for u.  A transaction that waits at its SELECT holds no lock yet, so
\* nobody waits for it.
WaitsFor(t, u) ==
    /\ u # t
    /\ \/ tx[t].pc = "lock_pool" /\ u \in PoolLocker(tx[t].pool_id)
       \/ tx[t].pc = "upsert" /\ u \in KeyTaker(tx[t].id)

\* Each of S waits for another one of S.
Deadlocked(S) == S # {} /\ \A t \in S : \E u \in S : WaitsFor(t, u)

\* The server aborts a member of a cycle of waiting transactions.
AbortDeadlocked(t) ==
    /\ \E S \in SUBSET Transactions : t \in S /\ Deadlocked(S)
    /\ End(t)
    /\ UNCHANGED storeVars

-----------------------------------------------------------------------------
(* _update_status: one UPDATE, which waits for the lock of its row only. *)

PgMarkActive(id) ==
    /\ RowLocker(id) = {}
    /\ LateActivations \/ Held(id)
    /\ MarkActive(id)
    /\ UNCHANGED tx

PgRelease(id) ==
    /\ RowLocker(id) = {}
    /\ Release(id)
    /\ UNCHANGED tx

-----------------------------------------------------------------------------

PgNext ==
    \/ \E t \in Transactions :
          \/ \E id \in ReservationIds, p \in Pools, n \in GpuCounts :
                BeginReserve(t, id, p, n)
          \/ SelectExisting(t)
          \/ LockPool(t)
          \/ SumGpus(t)
          \/ Upsert(t)
          \/ Commit(t)
          \/ Rollback(t)
          \/ AbortDeadlocked(t)
    \/ \E id \in ReservationIds : PgMarkActive(id) \/ PgRelease(id)

PgSpec == PgInit /\ [][PgNext]_pgVars

\* Statements that need no lock are executed; a lock is granted in the order in
\* which it is asked for, so a waiting statement that can go ahead again and
\* again does; a deadlock is detected.
PgFairness ==
    \A t \in Transactions :
        /\ WF_pgVars(SumGpus(t) \/ Commit(t) \/ AbortDeadlocked(t))
        /\ SF_pgVars(SelectExisting(t))
        /\ SF_pgVars(LockPool(t))
        /\ SF_pgVars(Upsert(t))

FairPgSpec == PgSpec /\ PgFairness

-----------------------------------------------------------------------------
(* Properties *)

\* With one transaction per reservation at a time and no activation of released
\* ones, the transactions implement the atomic store that the scheduler and the
\* tests are written against: the commit is the atomic reserve, whatever other
\* pools and rows change between its statements (scheduler.py:336-439).
ImplementsReservationStore == StoreSpec

\* src/README.md:183: the pool lock keeps two transactions from reserving the
\* same free GPUs.  OverbookingNeedsReactivation states it of the table, here
\* also for concurrent retries, deaths between statements and late activations.

\* The row lock and then the pool lock are taken in one order by all reserves, so
\* they deadlock only where two of them reserve one reservation, one having
\* selected its row before and the other after the row was first written: the
\* later one locks the row and waits for the pool, the earlier one has the pool
\* and finds the row at its INSERT (scheduler.py:346-424).
DeadlockNeedsRetry ==
    \A S \in SUBSET Transactions : Deadlocked(S) =>
        \E t, u \in S :
            /\ tx[t].id = tx[u].id
            /\ tx[t].pc = "lock_pool" /\ tx[t].locks_row
            /\ tx[u].pc = "upsert" /\ ~tx[u].locks_row

\* Between overlapping reserves, only the first reservation of an id is exposed:
\* a row that holds GPUs is written over only by a transaction whose SELECT found
\* no row at all; one that found a released row has locked it, against other
\* reserves and against late activations (scheduler.py:346-361, 395-438).
OnlyUnseenOverwritten ==
    [][\A t \in Transactions :
          Commit(t) /\ Held(tx[t].id) => ~tx[t].saw_row]_pgVars

\* Every reserve that was begun ends: no order of the row lock and the pool lock
\* leaves a transaction waiting for ever, not even for the row it selects first
\* (scheduler.py:346-380).
ReservesEnd == \A t \in Transactions : Open(t) ~> ~Open(t)
=============================================================================
