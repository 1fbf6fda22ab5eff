--------------------------- MODULE AllocationWorkflow ---------------------------
(***************************************************************************)
(* GPUAllocationWorkflow (src/temporal/workflows.py) with its activities   *)
(* (src/temporal/activities.py), over the reservation store.  A workflow   *)
(* is named by its reservation: gpu-alloc-{allocation_id} reserves         *)
(* {allocation_id}.                                                        *)
(*                                                                         *)
(* Temporal runs each activity as a sequence of attempts with the default  *)
(* retry policy of the SDK, which has no last attempt.  An attempt         *)
(*   - completes, and the workflow goes on;                                *)
(*   - raises, or its answer is lost (start_to_close_timeout, a worker     *)
(*     that dies), with or without having done its work: it is retried;    *)
(*   - is given up by the server and still runs on another worker: it is   *)
(*     retried, and takes effect at some later time, if LateAttempts.      *)
(* Within one worker process the activities run one after the other on the *)
(* event loop (none of them awaits), so there an attempt never outlives    *)
(* the start of the next: ~LateAttempts.                                   *)
(*                                                                         *)
(* The plan attempt is one step, with any pool that has room, or with the  *)
(* answer that none has: the choice of the pool and the steps of           *)
(* GpuPlacementScheduler.reserve are in PlacementScheduler.  What another  *)
(* attempt may do between the reads of one and its end is kept in unseen,  *)
(* for the look-up of the scheduler, and in blind, for the SELECT of the   *)
(* postgres store, which locks no row where there is none.  Left out is an *)
(* activation of a released row between the capacity check and the commit  *)
(* of a postgres reserve (PostgresStore: LateActivations).                 *)
(***************************************************************************)
EXTENDS ReservationStore

CONSTANTS
    Demand,         \* the GPUs an allocation asks for
    CustomerOf,     \* the customer of an allocation
    Accepted,       \* the allocations whose input passes plan_gpu_allocation's
                    \* checks; for the others every attempt raises ValueError
    MaxRuns,        \* bound: a workflow id is started at most so often
    Cancellations,  \* TRUE: an operator may cancel a workflow
    MaxLate         \* bound: so many attempts may run after they were given up;
                    \* none where one worker runs the activities

ASSUME WorkflowAssumption ==
    /\ Demand \in [ReservationIds -> GpuCounts]
    /\ DOMAIN CustomerOf = ReservationIds
    /\ Accepted \subseteq ReservationIds
    /\ MaxRuns \in Nat
    /\ Cancellations \in BOOLEAN
    /\ MaxLate \in Nat

LateAttempts == MaxLate > 0

VARIABLES
    run,            \* the activity the workflow awaits, or how it closed
    placement,      \* the workflow's local variable
    backoff,        \* workflows whose failed activity waits for its retry
    late,           \* attempts given up by the server that may still run
    cluster,        \* customer -> what the Helm release tenant-{customer} runs
    runs,           \* how often the workflow was started
    cancelledIn,    \* history: the activity that the cancellation met
    unseen,         \* workflows whose reservation a late attempt took after
                    \* they had closed, or after their running plan attempt
                    \* had looked for it
    blind,          \* workflows whose running plan attempt began before the
                    \* durable table had a row for them
    helmFailed,     \* history: workflows of which a Helm attempt failed
    adrift          \* history: workflows whose held reservation was, or will be,
                    \* lost to a cancellation, a restart or a late plan attempt
runVars == <<run, placement, backoff>>
historyVars == <<runs, cancelledIn, helmFailed, adrift>>
wfVars == <<runVars, late, unseen, blind, cluster, historyVars, storeVars>>

-----------------------------------------------------------------------------

Activities == {"plan", "helm", "activate", "release"}
Closed == {"active", "pending", "failed"}
Customers == {CustomerOf[w] : w \in ReservationIds}

\* A stuck workflow has raised ValueError, which is not a failure Temporal
\* closes a workflow for: its task is retried for ever.
RunStates == Activities \cup Closed \cup {"absent", "stuck"}

PENDING == [status |-> "PENDING_CAPACITY"]
Nothing == [allocation |-> "none"]

\* A Helm release that runs allocation w on pool p.
Deployments == [allocation : ReservationIds, pool_id : Pools]

Attempts ==
    [allocation : ReservationIds, activity : Activities,
     placement : CapacityReservation \cup {NoRow}, blind : BOOLEAN]

WorkflowTypeOK ==
    /\ StoreTypeOK
    /\ run \in [ReservationIds -> RunStates]
    /\ placement \in [ReservationIds -> CapacityReservation \cup {NoRow, PENDING}]
    /\ backoff \in SUBSET ReservationIds
    /\ late \in SUBSET Attempts
    /\ cluster \in [Customers -> Deployments \cup {Nothing}]
    /\ runs \in [ReservationIds -> 0..MaxRuns]
    /\ cancelledIn \in [ReservationIds -> Activities \cup {"none"}]
    /\ unseen \in SUBSET ReservationIds
    /\ blind \in SUBSET ReservationIds
    /\ helmFailed \in SUBSET ReservationIds
    /\ adrift \in SUBSET ReservationIds

WorkflowInit ==
    /\ StoreInit
    /\ run = [w \in ReservationIds |-> "absent"]
    /\ placement = [w \in ReservationIds |-> NoRow]
    /\ backoff = {}
    /\ late = {}
    /\ cluster = [c \in Customers |-> Nothing]
    /\ runs = [w \in ReservationIds |-> 0]
    /\ cancelledIn = [w \in ReservationIds |-> "none"]
    /\ unseen = {}
    /\ blind = {}
    /\ helmFailed = {}
    /\ adrift = {}

-----------------------------------------------------------------------------
(* What an attempt of each activity does *)

\* The plan that is left pending without a look-up of its reservation.
PlanReturnsWithoutLookUp(w, sawNoRow, answer) ==
    \/ \E p \in Pools :
          /\ ReserveNew(w, p, Demand[w])
          /\ answer = [pool_id |-> p, gpu_count |-> Demand[w], status |-> "RESERVED"]
    \/ /\ UNCHANGED storeVars
       /\ answer = PENDING

\* plan_gpu_allocation: the answer of the scheduler, which is pending only if
\* the look-up at its start found no reservation that is held.  An attempt that
\* saw no row writes over the one that another has made since.
PlanReturns(w, sawNoRow, answer) ==
    /\ w \in Accepted
    /\ \/ /\ ReserveExisting(w)
          /\ answer = reservations[w]
       \/ \E p \in Pools :
             /\ \/ ReserveNew(w, p, Demand[w])
                \/ sawNoRow /\ Overwrite(w, p, Demand[w])
             /\ answer = [pool_id |-> p, gpu_count |-> Demand[w], status |-> "RESERVED"]
       \/ /\ ~Held(w) \/ w \in unseen
          /\ UNCHANGED storeVars
          /\ answer = PENDING

\* run_helm_deploy: helm upgrade --install of the customer's one release.
Deploy(w, reservation) ==
    cluster' = [cluster EXCEPT ![CustomerOf[w]] =
                   [allocation |-> w, pool_id |-> reservation.pool_id]]

\* release_gpu_reservation, which accepts an absent reservation.
ReleaseIfPresent(w) ==
    \/ Release(w)
    \/ ~Present(w) /\ UNCHANGED storeVars

-----------------------------------------------------------------------------
(* The workflow *)

\* An attempt begins; only the rows of the durable table are never deleted.
BeginAttempt(w, activity) ==
    blind' = blind \cup {v \in {w} : activity = "plan" /\ Durable /\ ~Present(v)}

\* Started by the dispatcher; again when a closed one's event is redelivered.
Start(w) ==
    /\ run[w] \in Closed \cup {"absent"}
    /\ runs[w] < MaxRuns
    /\ run' = [run EXCEPT ![w] = "plan"]
    /\ placement' = [placement EXCEPT ![w] = NoRow]
    /\ runs' = [runs EXCEPT ![w] = @ + 1]
    /\ cancelledIn' = [cancelledIn EXCEPT ![w] = "none"]
    /\ helmFailed' = helmFailed \ {w}
    /\ unseen' = unseen \ {w}
    /\ BeginAttempt(w, "plan")
    /\ UNCHANGED <<backoff, late, cluster, adrift, storeVars>>

\* An attempt of the activity a that w awaits is running.
Attempting(w, a) == run[w] = a /\ w \notin backoff

\* The next activity, or the next attempt of a plan, knows of the reservation.
Proceed(w, next) ==
    /\ run' = [run EXCEPT ![w] = next]
    /\ unseen' = IF next = "pending" THEN unseen ELSE unseen \ {w}
    /\ blind' = blind \ {w}
    /\ UNCHANGED <<backoff, late, historyVars>>

Retried(w) ==
    /\ backoff' = backoff \cup {w}
    /\ unseen' = unseen \ {w}
    /\ blind' = blind \ {w}
    /\ UNCHANGED <<run, placement, late, runs, cancelledIn, adrift>>

RetryTimer(w) ==
    /\ w \in backoff
    /\ backoff' = backoff \ {w}
    /\ BeginAttempt(w, run[w])
    /\ UNCHANGED <<run, placement, late, unseen, cluster, historyVars, storeVars>>

\* The workflow that does not look for the answer PENDING_CAPACITY.
PlanAnsweredOrRaises(w) ==
    /\ Attempting(w, "plan")
    /\ \E answer \in CapacityReservation \cup {PENDING} :
          /\ PlanReturns(w, w \in blind, answer)
          /\ placement' = [placement EXCEPT ![w] = answer]
          /\ Proceed(w, IF answer.status = "RESERVED" THEN "helm" ELSE "stuck")
    /\ UNCHANGED cluster

PlanAnswered(w) ==
    /\ Attempting(w, "plan")
    /\ \E answer \in CapacityReservation \cup {PENDING} :
          /\ PlanReturns(w, w \in blind, answer)
          /\ placement' = [placement EXCEPT ![w] = answer]
          /\ Proceed(w, CASE answer.status = "PENDING_CAPACITY" -> "pending"
                          [] answer.status = "RESERVED" -> "helm"
                          [] OTHER -> "stuck")
    /\ UNCHANGED cluster

PlanLost(w) ==
    /\ Attempting(w, "plan")
    /\ \/ \E answer \in CapacityReservation \cup {PENDING} :
             PlanReturns(w, w \in blind, answer)
       \/ UNCHANGED storeVars
    /\ Retried(w)
    /\ UNCHANGED <<cluster, helmFailed>>

\* The workflow that returns its result without activating the reservation.
HelmSucceedsAndReturns(w) ==
    /\ Attempting(w, "helm")
    /\ Deploy(w, placement[w])
    /\ Proceed(w, "active")
    /\ UNCHANGED <<placement, storeVars>>

HelmSucceeds(w) ==
    /\ Attempting(w, "helm")
    /\ Deploy(w, placement[w])
    /\ Proceed(w, "activate")
    /\ UNCHANGED <<placement, storeVars>>

\* The failed attempt that releases the reservation before it is retried.
HelmFailsAndReleases(w) ==
    /\ Attempting(w, "helm")
    /\ Deploy(w, placement[w]) \/ UNCHANGED cluster
    /\ ReleaseIfPresent(w)
    /\ Retried(w)
    /\ helmFailed' = helmFailed \cup {w}

\* Helm exits non-zero or takes more than 300 seconds.  helm upgrade --install
\* without --atomic leaves what it has applied.
HelmFails(w) ==
    /\ Attempting(w, "helm")
    /\ Deploy(w, placement[w]) \/ UNCHANGED cluster
    /\ Retried(w)
    /\ helmFailed' = helmFailed \cup {w}
    /\ UNCHANGED storeVars

ActivateAnswered(w) ==
    /\ Attempting(w, "activate")
    /\ MarkActive(w)
    /\ Proceed(w, "active")
    /\ UNCHANGED <<placement, cluster>>

\* Also the attempt that raises "Unknown GPU reservation".
ActivateLost(w) ==
    /\ Attempting(w, "activate")
    /\ MarkActive(w) \/ UNCHANGED storeVars
    /\ Retried(w)
    /\ UNCHANGED <<cluster, helmFailed>>

ReleaseAnswered(w) ==
    /\ Attempting(w, "release")
    /\ ReleaseIfPresent(w)
    /\ Proceed(w, "failed")
    /\ UNCHANGED <<placement, cluster>>

ReleaseLost(w) ==
    /\ Attempting(w, "release")
    /\ ReleaseIfPresent(w) \/ UNCHANGED storeVars
    /\ Retried(w)
    /\ UNCHANGED <<cluster, helmFailed>>

-----------------------------------------------------------------------------
(* Attempts given up by the server, and cancellations *)

AttemptOf(w) ==
    [allocation |-> w, activity |-> run[w], placement |-> placement[w],
     blind |-> w \in blind]

MayGiveUp(w) ==
    /\ LateAttempts /\ Cardinality(late) < MaxLate
    /\ run[w] \in Activities
    /\ w \notin backoff

GiveUp(w) ==
    /\ MayGiveUp(w)
    /\ late' = late \cup {AttemptOf(w)}
    /\ backoff' = backoff \cup {w}
    /\ unseen' = unseen \ {w}
    /\ blind' = blind \ {w}
    /\ UNCHANGED <<run, placement, cluster, historyVars, storeVars>>

LateAttempt(l) ==
    /\ l \in late
    /\ late' = late \ {l}
    /\ \/ /\ l.activity = "plan"
          /\ \E answer \in CapacityReservation \cup {PENDING} :
                PlanReturns(l.allocation, l.blind, answer)
          /\ UNCHANGED cluster
       \/ /\ l.activity = "helm"
          /\ Deploy(l.allocation, l.placement)
          /\ UNCHANGED storeVars
       \/ /\ l.activity = "activate"
          /\ MarkActive(l.allocation)
          /\ UNCHANGED cluster
       \/ /\ l.activity = "release"
          /\ ReleaseIfPresent(l.allocation)
          /\ UNCHANGED cluster
    /\ unseen' = unseen \cup
          {w \in {l.allocation} : /\ run[w] \in Closed \/ Attempting(w, "plan")
                                 /\ ~Held(w) /\ Held(w)'}
    /\ adrift' = adrift \cup
          {w \in {l.allocation} : /\ l.activity = "plan" /\ Held(w)
                                 /\ reservations'[w] # reservations[w]}
    /\ UNCHANGED <<runVars, blind, runs, cancelledIn, helmFailed>>

\* The workflow that does not see the cancellation as an Exception.
CancelUnhandled(w) ==
    /\ Cancellations
    /\ run[w] \in Activities
    /\ cancelledIn[w] = "none"
    /\ cancelledIn' = [cancelledIn EXCEPT ![w] = run[w]]
    /\ run' = [run EXCEPT ![w] = "failed"]
    /\ backoff' = backoff \ {w}
    /\ blind' = blind \ {w}
    /\ UNCHANGED <<placement, late, unseen, cluster, runs, helmFailed, adrift, storeVars>>

\* An operator cancels the workflow: the awaited activity raises ActivityError
\* at once, and its attempt may still be running.  plan_gpu_allocation is
\* awaited outside the try block.
Cancel(w) ==
    /\ Cancellations
    /\ run[w] \in Activities
    /\ cancelledIn[w] = "none"
    /\ cancelledIn' = [cancelledIn EXCEPT ![w] = run[w]]
    /\ run' = [run EXCEPT ![w] =
                  IF run[w] \in {"helm", "activate"} THEN "release" ELSE "failed"]
    /\ late' \in {late} \cup
          (IF MayGiveUp(w) THEN {late \cup {AttemptOf(w)}} ELSE {})
    /\ backoff' = backoff \ {w}
    /\ blind' = blind \ {w}
    /\ adrift' = adrift \cup {v \in {w} : run[v] # "plan"}
    /\ UNCHANGED <<placement, unseen, cluster, runs, helmFailed, storeVars>>

\* The worker's process ends; with the memory store its reservations are gone.
WorkerRestart ==
    /\ Restart
    /\ adrift' = adrift \cup {w \in ReservationIds : Held(w)}
    /\ UNCHANGED <<runVars, late, unseen, blind, cluster, runs, cancelledIn, helmFailed>>

-----------------------------------------------------------------------------

WorkflowNext ==
    \/ \E w \in ReservationIds :
          \/ Start(w) \/ RetryTimer(w)
          \/ PlanAnswered(w) \/ PlanLost(w)
          \/ HelmSucceeds(w) \/ HelmFails(w)
          \/ ActivateAnswered(w) \/ ActivateLost(w)
          \/ ReleaseAnswered(w) \/ ReleaseLost(w)
          \/ GiveUp(w) \/ Cancel(w)
    \/ \E l \in late : LateAttempt(l)
    \/ WorkerRestart

WorkflowSpec == WorkflowInit /\ [][WorkflowNext]_wfVars

StoreAttemptSucceeds(w) == PlanAnswered(w) \/ ActivateAnswered(w) \/ ReleaseAnswered(w)

AttemptEnds(w) ==
    \/ StoreAttemptSucceeds(w) \/ PlanLost(w) \/ ActivateLost(w) \/ ReleaseLost(w)
    \/ HelmSucceeds(w) \/ HelmFails(w)

\* A retry timer fires, and an attempt ends; an activity on the store that can
\* succeed does not fail for ever, while a chart or a cluster may make Helm fail at
\* every attempt.  A workflow awaits one activity at a time, so that the strong
\* fairness of the disjunction is that of the awaited activity.
HelmMayFailSpec ==
    /\ WorkflowSpec
    /\ \A w \in ReservationIds :
          /\ WF_wfVars(RetryTimer(w))
          /\ WF_wfVars(AttemptEnds(w))
          /\ SF_wfVars(StoreAttemptSucceeds(w))

\* Helm does not fail for ever either.
FairWorkflowSpec ==
    HelmMayFailSpec /\ \A w \in ReservationIds : SF_wfVars(HelmSucceeds(w))

-----------------------------------------------------------------------------
(* Properties *)

\* Held GPUs belong to a workflow that runs, is ACTIVE or is stuck, whatever
\* answers were lost and whenever the worker restarted.  There are three leaks: a
\* workflow cancelled in its plan, which is awaited outside the try block, an
\* attempt that takes effect after its workflow has closed (workflows.py:18-52),
\* and a retry that looked its reservation up before the attempt that was given
\* up took it, and answers pending (scheduler.py:494-525).
GpusAccountedFor ==
    \A w \in ReservationIds :
        Held(w) => \/ run[w] \in Activities \cup {"active", "stuck"}
                   \/ run[w] = "failed" /\ cancelledIn[w] = "plan"
                   \/ w \in unseen

\* A workflow that reports ACTIVE has its placement held as ACTIVE in the table,
\* and the customer's one release runs it, or another allocation of the same
\* customer, which has replaced it (workflows.py:36-58, activities.py:250); unless
\* a restart lost the table, the workflow was cancelled in an earlier run, whose
\* late release may come now, or a late plan attempt wrote over the row
\* (scheduler.py:395-438).
ActiveIsServed ==
    \A w \in ReservationIds : run[w] = "active" =>
        \/ /\ reservations[w] = [placement[w] EXCEPT !.status = "ACTIVE"]
           /\ LET deployed == cluster[CustomerOf[w]]
              IN  \/ deployed = [allocation |-> w, pool_id |-> placement[w].pool_id]
                 \/ deployed.allocation \in ReservationIds \ {w}
        \/ w \in adrift

\* What runs in a cluster, half-installed releases included, runs in the pool of
\* a reservation that is held (workflows.py:32-41).  Three things part the two:
\* a cancellation after the plan, which releases the GPUs and uninstalls nothing
\* (workflows.py:46-52), a restart that loses the memory store, and a late plan
\* attempt that saw no row and writes over it (scheduler.py:346-361, 395-438).
DeployedIsReserved ==
    \A c \in Customers : cluster[c] # Nothing =>
        \/ HeldInPool(cluster[c].allocation, cluster[c].pool_id)
        \/ cluster[c].allocation \in adrift

\* A workflow that was started closes, if its input is one that the plan accepts
\* (workflows.py:17-58, activities.py:189-197).
RunsEnd ==
    \A w \in Accepted : run[w] \in Activities ~> run[w] \in Closed

\* A workflow raises the ValueError that is retried for ever only when it was
\* started before: the plan of a first run, whatever attempts it takes, answers
\* with a fresh reservation or with none (workflows.py:23-30).
StuckOnlyOnRestart ==
    \A w \in ReservationIds : run[w] = "stuck" => runs[w] > 1

\* src/README.md:143: a Helm failure after the reservation has the reservation
\* released; a retry that succeeds is as good.
HelmFailureIsResolved ==
    \A w \in ReservationIds : w \in helmFailed ~> run[w] \in Closed

\* workflows.py:30: the workflow raises "GPU placement did not return a
\* reservation" only when there is none.
RaisesOnlyWithoutReservation ==
    \A w \in ReservationIds : run[w] = "stuck" => ~Held(w)

-----------------------------------------------------------------------------
(* What the workflow promises of an allocation *)

PhaseOf(w) ==
    CASE run[w] = "plan" -> "planning"
      [] run[w] \in {"helm", "activate", "release"} -> "placed"
      [] OTHER -> run[w]

PhaseNow == [w \in ReservationIds |-> PhaseOf(w)]

GrantNow == [w \in ReservationIds |-> {p \in Pools : HeldInPool(w, p)}]

Life == INSTANCE AllocationLife WITH
    Allocations <- ReservationIds,
    GpusOf <- Demand,
    Exclusive <- ~LateAttempts,
    Cancellable <- Cancellations,
    phase <- PhaseNow,
    grant <- GrantNow

\* Whatever is lost, retried, cancelled or late, the allocations go through the
\* phases of AllocationLife: a placed one fails only after a cancellation and after
\* its GPUs were given back, GPUs are granted and moved only within what a pool
\* has left, and what revokes or revives a grant behind the back of a run needs
\* both a cancellation and a late attempt (workflows.py:17-58).
ImplementsAllocationLife == Life!LifeSpec
=============================================================================
