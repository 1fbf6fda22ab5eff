-------------------------- MODULE PlacementScheduler --------------------------
(***************************************************************************)
(* GpuPlacementScheduler.reserve of src/placement/scheduler.py, run by     *)
(* several plan_gpu_allocation attempts at a time.  One attempt makes      *)
(* separate calls to the store: it looks its reservation up, takes a       *)
(* snapshot of the reserved GPUs, and then asks for one pool after another *)
(* in the order it ranked them, while other attempts, activations and      *)
(* releases change the table under it.  With the postgres store the        *)
(* attempts are those of several worker processes (README.md:153), and two *)
(* of them meet over one reservation when Temporal retries an attempt that *)
(* timed out but is still running, or when two events share it.  A call of *)
(* reserve that began before the row was made then writes over it          *)
(* (PostgresStore: OnlyUnseenOverwritten).                                 *)
(***************************************************************************)
EXTENDS Placement, ReservationStore

CONSTANTS
    Planners,       \* attempts that run at the same time
    Events          \* the allocation events they are given

ASSUME SchedulerAssumption ==
    \A data \in Events :
        /\ ValidInput(data)
        /\ Profiles[data.tier].gpu_count \in GpuCounts
        /\ ReservationIdFor(BuildPlacementRequest(data)) \in ReservationIds

\* The API draws a new allocation_id for every event, a UUID (api/main.py:248), so
\* no other event's reservation is named like it; an event that is delivered again
\* is the same event.
ASSUME AllocationIdAssumption ==
    \A data, other \in Events :
        /\ data.allocation_id # NotGiven
        /\ ReservationIdFor(BuildPlacementRequest(data))
              = ReservationIdFor(BuildPlacementRequest(other))
        => data = other

VARIABLES
    planners,       \* what each attempt knows and where it stands
    seenFull,       \* history: candidates without room for the attempt's request at
                    \* some moment since it looked its reservation up
    disowned        \* history: attempts whose reservation was released, or made
                    \* once more by an overlapping attempt, since they answered
history == <<seenFull, disowned>>
schedulerVars == <<planners, history, storeVars>>

-----------------------------------------------------------------------------
(* Attempts *)

PlannerStates == {"idle", "snapshot", "try", "done"}
PENDING == [status |-> "PENDING_CAPACITY"]
Undecided == [status |-> "UNDECIDED"]

Idle ==
    [pc |-> "idle", data |-> NotGiven, request |-> NotGiven, candidates |-> {},
     free |-> << >>, untried |-> {}, blind |-> FALSE, decision |-> Undecided]

Request(w) == planners[w].request
Candidates(w) == planners[w].candidates
Id(w) == ReservationIdFor(Request(w))
Planning(w) == planners[w].pc \in {"snapshot", "try"}

\* A postgres reserve that begins now may find no row, and then locks none.
FindsNoRow(w) == Durable /\ ~Present(Id(w))

SchedulerTypeOK ==
    /\ StoreTypeOK
    /\ DOMAIN planners = Planners
    /\ \A w \in Planners :
          /\ planners[w].pc \in PlannerStates
          /\ planners[w].pc # "idle" =>
                /\ planners[w].data \in Events
                /\ Request(w) = BuildPlacementRequest(planners[w].data)
                /\ Candidates(w) = CandidatePools(Request(w))
          /\ planners[w].decision \in
                CapacityReservation \cup {PENDING, Undecided}
          /\ (planners[w].decision = Undecided) = (planners[w].pc # "done")
          /\ planners[w].pc = "try" =>
                /\ planners[w].untried \subseteq Candidates(w)
                /\ planners[w].untried # {}
          /\ planners[w].blind => Durable /\ planners[w].pc = "try"
    /\ seenFull \in [Planners -> SUBSET Pools]
    /\ disowned \in SUBSET Planners

SchedulerInit ==
    /\ StoreInit
    /\ planners = [w \in Planners |-> Idle]
    /\ seenFull = [w \in Planners |-> {}]
    /\ disowned = {}

Answer(w, decision) ==
    planners' = [planners EXCEPT ![w] =
        [@ EXCEPT !.pc = "done", !.free = << >>, !.untried = {}, !.blind = FALSE,
                  !.decision = decision]]

\* The attempt starts: it looks its reservation up and filters the pools.
LookUp(w, data) ==
    LET request == BuildPlacementRequest(data)
        id == ReservationIdFor(request)
        candidates == CandidatePools(request)
    IN  /\ planners[w].pc = "idle"
        /\ planners' = [planners EXCEPT ![w] =
              [Idle EXCEPT
                  !.data = data, !.request = request, !.candidates = candidates,
                  !.pc = IF Held(id) \/ candidates = {} THEN "done" ELSE "snapshot",
                  !.decision = IF Held(id) THEN reservations[id]
                               ELSE IF candidates = {} THEN PENDING
                               ELSE Undecided]]
        /\ UNCHANGED storeVars

\* reserved_gpus_by_pool; the pools that look too full are skipped for good.
Snapshot(w) ==
    LET free == [p \in Candidates(w) |-> TotalGpus(p) - ReservedGpusByPool(p)]
        fitting == {p \in Candidates(w) : free[p] >= Request(w).gpu_count}
    IN  /\ planners[w].pc = "snapshot"
        /\ \/ /\ fitting = {}
              /\ Answer(w, PENDING)
           \/ /\ fitting # {}
              /\ planners' = [planners EXCEPT ![w] =
                    [@ EXCEPT !.pc = "try", !.free = free, !.untried = fitting,
                              !.blind = FindsNoRow(w)]]
        /\ UNCHANGED storeVars

\* The reserve that writes its row whatever its SELECT has found.
TryReservedBlindly(w, p) ==
    /\ \/ ReserveExisting(Id(w))
       \/ ReserveNew(Id(w), p, Request(w).gpu_count)
       \/ Overwrite(Id(w), p, Request(w).gpu_count)
    /\ Answer(w, reservations'[Id(w)])

\* reserve on pool p succeeds or finds the reservation made: that row decides.  A
\* call that began when there was no row may also write over the one made since.
TryReserved(w, p) ==
    /\ \/ ReserveExisting(Id(w))
       \/ ReserveNew(Id(w), p, Request(w).gpu_count)
       \/ planners[w].blind /\ Overwrite(Id(w), p, Request(w).gpu_count)
    /\ Answer(w, reservations'[Id(w)])

FoundFull(w, p) ==
    /\ \/ ReserveFull(Id(w), p, Request(w).gpu_count)
       \/ planners[w].blind /\ ~HasRoom(p, Request(w).gpu_count)
    /\ UNCHANGED storeVars

\* The attempt that gives up at the first pool that has filled up.
TryFullGivesUp(w, p) ==
    /\ FoundFull(w, p)
    /\ Answer(w, PENDING)

\* reserve raises ValueError: the next pool, or pending when none is left.
TryFull(w, p) ==
    /\ FoundFull(w, p)
    /\ \/ /\ planners[w].untried = {p}
          /\ Answer(w, PENDING)
       \/ /\ planners[w].untried # {p}
          /\ planners' = [planners EXCEPT ![w] =
                [@ EXCEPT !.untried = planners[w].untried \ {p},
                          !.blind = FindsNoRow(w)]]

TryPool(w) ==
    /\ planners[w].pc = "try"
    /\ \E p \in FirstRanked(Request(w), planners[w].untried, planners[w].free) :
          TryReserved(w, p) \/ TryFull(w, p)

\* The answer reaches the workflow, or the process dies at any point: either
\* way the attempt is over and its reservation, if it made one, stays.
EndAttempt(w) ==
    /\ planners[w].pc # "idle"
    /\ planners' = [planners EXCEPT ![w] = Idle]
    /\ UNCHANGED storeVars

\* Workflows activate and release reservations meanwhile.
OtherCalls ==
    /\ \E id \in ReservationIds : MarkActive(id) \/ Release(id)
    /\ UNCHANGED planners

-----------------------------------------------------------------------------
(* History *)

\* The candidates without room for the attempt's request in this state.
FullNow(w) ==
    {p \in Candidates(w) : ~HasRoom(p, Request(w).gpu_count)}

\* v answers a reserve of id that began before there was a row.
MadeAgain(v, id) ==
    planners[v].blind /\ planners'[v].pc = "done" /\ Id(v) = id

Record ==
    /\ seenFull' = [w \in Planners |->
          CASE Planning(w)' -> (IF Planning(w) THEN seenFull[w] ELSE {}) \cup FullNow(w)'
            [] planners'[w].pc = "done" -> seenFull[w]
            [] planners'[w].pc = "idle" -> {}]
    /\ disowned' = {w \in Planners :
          /\ planners'[w].pc = "done"
          /\ planners[w].pc = "done"
          /\ \/ w \in disowned
             \/ ~Held(Id(w))'
             \/ \E v \in Planners : MadeAgain(v, Id(w))}

SchedulerNext ==
    /\ \/ \E w \in Planners :
             \/ \E data \in Events : LookUp(w, data)
             \/ Snapshot(w)
             \/ TryPool(w)
             \/ EndAttempt(w)
       \/ OtherCalls
    /\ Record

SchedulerSpec == SchedulerInit /\ [][SchedulerNext]_schedulerVars

-----------------------------------------------------------------------------
(* Properties *)

Placed(w) == planners[w].decision \in CapacityReservation

\* An allocation is placed only where its own event allows, whatever the attempts
\* and the earlier life of its reservation.  (Events without an allocation_id may
\* share a reservation, and then get the placement that any of them allows.)
PlacedWithinPolicy ==
    \A w \in Planners :
        Placed(w) /\ planners[w].data.allocation_id # NotGiven =>
            WithinPolicy(planners[w].data, planners[w].decision.pool_id)

\* The region and latency half of the ranking key: q is strictly nearer than p.
Nearer(w, q, p) ==
    LET Far(x) == IF Catalogue[x].region = Request(w).preferred_region THEN 0 ELSE 1
        Latency(x) == LatencyTo(x, Request(w).preferred_region)
    IN  \/ Far(q) < Far(p)
        \/ Far(q) = Far(p) /\ Latency(q) < Latency(p)

\* An attempt that makes a reservation, or moves one, passes over a nearer
\* candidate only if that pool lacked room at some moment while the attempt ran,
\* however the table changed between its snapshot and its reserve
\* (scheduler.py:513-520).
FallbackOnlyFromFullPools ==
    [][\A w \in Planners :
          /\ Planning(w)
          /\ planners'[w].pc = "done"
          /\ reservations'[Id(w)] # reservations[Id(w)]
          => \A q \in Candidates(w) :
                Nearer(w, q, planners'[w].decision.pool_id) => q \in seenFull[w]]_schedulerVars

\* A pending answer means that every candidate lacked room at some moment while
\* the attempt ran (scheduler.py:522-525).
PendingOnlyIfEachSeenFull ==
    \A w \in Planners :
        planners[w].decision = PENDING =>
            Candidates(w) \subseteq seenFull[w]

\* README.md:25, the choice is deterministic: whatever was counted as free, the
\* ranking key puts one pool before all others that are left, never two, and
\* never none, which would leave the attempt without an answer
\* (scheduler.py:544-562).
NextPoolIsDetermined ==
    \A w \in Planners :
        planners[w].pc = "try" =>
            \E p \in planners[w].untried :
                FirstRanked(Request(w), planners[w].untried, planners[w].free) = {p}

\* An answered reservation stands until it is released: the table still holds
\* the pool and the GPUs the workflow was told, whatever later attempts for the
\* same reservation do (scheduler.py:179-183).  The one exception is an attempt
\* that overlaps: its reserve began before the row was there and answers after.
DecisionStands ==
    \A w \in Planners :
        Placed(w) /\ w \notin disowned =>
            /\ Held(Id(w))
            /\ reservations[Id(w)].pool_id = planners[w].decision.pool_id
            /\ reservations[Id(w)].gpu_count = planners[w].decision.gpu_count
=============================================================================
