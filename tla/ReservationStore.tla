--------------------------- MODULE ReservationStore ---------------------------
(***************************************************************************)
(* The reservation store of src/placement/scheduler.py, as its callers see *)
(* it.  In StoreSpec every call is one atomic step: InMemoryReservation-   *)
(* Store takes its lock around the whole body of every method.             *)
(* PostgresStore models the transactions of the other backend one          *)
(* statement at a time; where two reserves of one reservation overlap,     *)
(* its callers see OverlappedStoreSpec.                                    *)
(*                                                                         *)
(* A row keeps what the store decides on: the pool, the number of GPUs and *)
(* the status.  The tenant, tier, region, cluster, GPU type and latency    *)
(* columns are copied from the request and the pool and never read back by *)
(* the store.                                                              *)
(***************************************************************************)
EXTENDS GpuPools, FiniteSets, FiniteSetsExt

CONSTANTS
    ReservationIds, \* the values reservation_id_for can return
    MaxGpus,        \* no profile asks for more GPUs than this
    Durable         \* TRUE: the rows outlive the worker process

ASSUME StoreAssumption ==
    /\ IsFiniteSet(ReservationIds)
    /\ MaxGpus \in Nat
    /\ Durable \in BOOLEAN

VARIABLES
    reservations,   \* the table: reservation_id -> row, NoRow when absent
    reactivated     \* history: held rows whose hold began in mark_active
storeVars == <<reservations, reactivated>>

-----------------------------------------------------------------------------
(* Rows *)

ActiveReservationStatuses == {"RESERVED", "ACTIVE"}
Statuses == ActiveReservationStatuses \cup {"RELEASED"}
GpuCounts == 1..MaxGpus

CapacityReservation ==
    [pool_id : Pools, gpu_count : GpuCounts, status : Statuses]

NoRow == [status |-> "ABSENT"]

StoreTypeOK ==
    /\ reservations \in [ReservationIds -> CapacityReservation \cup {NoRow}]
    /\ reactivated \in SUBSET ReservationIds

Present(id) == reservations[id].status # "ABSENT"

Held(id) == reservations[id].status \in ActiveReservationStatuses

HeldInPool(id, p) == Held(id) /\ reservations[id].pool_id = p

TotalGpus(p) == Catalogue[p].total_gpus

\* The GPUs of pool p that rows hold, one element <<id, k>> per GPU, so that
\* sums over rows are cardinalities.
HeldUnits(p) ==
    {u \in ReservationIds \X GpuCounts :
        HeldInPool(u[1], p) /\ u[2] <= reservations[u[1]].gpu_count}

\* used_gpus of reserve: what the capacity check counts.
UsedGpus(p) == Cardinality(HeldUnits(p))

\* reserved_gpus_by_pool().get(p, 0): what the scheduler plans with.
ReservedGpusByPool(p) ==
    MapThenSumSet(LAMBDA id : reservations[id].gpu_count,
                  {id \in ReservationIds : HeldInPool(id, p)})

\* The check that lets one GPU too many through.
HasRoomForAllButOne(p, n) == TotalGpus(p) - UsedGpus(p) >= n - 1

HasRoom(p, n) == TotalGpus(p) - UsedGpus(p) >= n

-----------------------------------------------------------------------------
(* Calls.  reserve has three outcomes, one action each. *)

EmptyTable == [id \in ReservationIds |-> NoRow]

StoreInit ==
    /\ reservations = EmptyTable
    /\ reactivated = {}

\* An active reservation exists: it is returned as it is.
ReserveExisting(id) ==
    /\ Held(id)
    /\ UNCHANGED storeVars

\* The pool is too full: ValueError.
ReserveFull(id, p, n) ==
    /\ ~Held(id)
    /\ ~HasRoom(p, n)
    /\ UNCHANGED storeVars

\* A new row, also over a released one.
ReserveNew(id, p, n) ==
    /\ ~Held(id)
    /\ HasRoom(p, n)
    /\ reservations' = [reservations EXCEPT
           ![id] = [pool_id |-> p, gpu_count |-> n, status |-> "RESERVED"]]
    /\ reactivated' = reactivated \ {id}

\* The overwriting reserve that takes its GPUs for checked.
OverwriteUnchecked(id, p, n) ==
    /\ Durable
    /\ Held(id)
    /\ reservations' = [reservations EXCEPT
           ![id] = [pool_id |-> p, gpu_count |-> n, status |-> "RESERVED"]]
    /\ reactivated' = reactivated \ {id}

\* A postgres reserve whose SELECT found no row, and so locked none: another
\* one has made the reservation since, and the upsert writes over it, whatever
\* its pool and its status.
Overwrite(id, p, n) ==
    /\ Durable
    /\ Held(id)
    /\ HasRoom(p, n)
    /\ reservations' = [reservations EXCEPT
           ![id] = [pool_id |-> p, gpu_count |-> n, status |-> "RESERVED"]]
    /\ reactivated' = reactivated \ {id}

Reserve(id, p, n) ==
    \/ ReserveExisting(id)
    \/ ReserveFull(id, p, n)
    \/ ReserveNew(id, p, n)

\* The same, of a row that has not been activated yet only.
MarkActiveOnce(id) ==
    /\ Present(id)
    /\ reservations[id].status = "RESERVED"
    /\ reservations' = [reservations EXCEPT ![id].status = "ACTIVE"]
    /\ UNCHANGED reactivated

\* mark_active looks at no status and no capacity: a released row becomes
\* active again.
MarkActive(id) ==
    /\ Present(id)
    /\ reservations' = [reservations EXCEPT ![id].status = "ACTIVE"]
    /\ reactivated' = IF Held(id) THEN reactivated ELSE reactivated \cup {id}

\* The release that writes the one status of the schema no row should have.
ReleaseToPending(id) ==
    /\ Present(id)
    /\ reservations' = [reservations EXCEPT ![id].status = "PENDING_CAPACITY"]
    /\ reactivated' = reactivated \ {id}

\* release looks at no status either.
Release(id) ==
    /\ Present(id)
    /\ reservations' = [reservations EXCEPT ![id].status = "RELEASED"]
    /\ reactivated' = reactivated \ {id}

\* The process of a memory-backed worker ends: its next store starts empty.
Restart ==
    /\ ~Durable
    /\ reservations' = EmptyTable
    /\ reactivated' = {}

StoreNext ==
    \/ \E id \in ReservationIds :
          \/ \E p \in Pools, n \in GpuCounts : Reserve(id, p, n)
          \/ MarkActive(id)
          \/ Release(id)
    \/ Restart

StoreSpec == StoreInit /\ [][StoreNext]_storeVars

OverlappedNext ==
    \/ StoreNext
    \/ \E id \in ReservationIds, p \in Pools, n \in GpuCounts : Overwrite(id, p, n)

OverlappedStoreSpec == StoreInit /\ [][OverlappedNext]_storeVars

-----------------------------------------------------------------------------
(* Properties *)

\* The GPUs of pool p held by rows whose hold began in reserve.
CheckedUnits(p) == {u \in HeldUnits(p) : u[1] \notin reactivated}

\* No sequence of calls books more GPUs of a pool than it has, except through
\* mark_active on a released reservation (scheduler.py:208 and :441): the GPUs
\* held by every other row always fit the pool.
OverbookingNeedsReactivation ==
    \A p \in Pools : Cardinality(CheckedUnits(p)) <= TotalGpus(p)

\* The pool is never overbooked while no such call has taken effect.
NoOverbooking == \A p \in Pools : UsedGpus(p) <= TotalGpus(p)

\* With atomic calls, a caller that repeats reserve (a Temporal retry) can never
\* move or resize a reservation that is still held, whatever pool and size it
\* asks for (scheduler.py:179-183).
HeldNeverMoves ==
    [][\A id \in ReservationIds :
          Held(id) /\ Held(id)' =>
              /\ reservations'[id].pool_id = reservations[id].pool_id
              /\ reservations'[id].gpu_count = reservations[id].gpu_count]_storeVars
=============================================================================
