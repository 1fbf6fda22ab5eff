----------------------- MODULE AllocationWorkflowProofs -----------------------
(***************************************************************************)
(* What the allocation workflows guarantee for every catalogue, any number *)
(* of allocations and customers, and any number of runs.                   *)
(*                                                                         *)
(* Each argument first asks what a step does to the table (StoreEffect):   *)
(* a plan attempt, an activation, a release, a restart or nothing.         *)
(***************************************************************************)
EXTENDS AllocationWorkflow, ReservationStoreProofs

\* An activity after the plan has a placement, also in an attempt given up.
HasPlacement ==
    /\ \A w \in ReservationIds :
          /\ run[w] = "plan" => placement[w] = NoRow
          /\ run[w] \in {"helm", "activate", "release"} =>
                placement[w] \in CapacityReservation
    /\ \A l \in late :
          l.activity = "helm" => l.placement \in CapacityReservation

WorkflowTypeInv == WorkflowTypeOK /\ HasPlacement

-----------------------------------------------------------------------------
(* What a step does to the table *)

\* A plan attempt answers with the reservation that is held afterwards, or with
\* PENDING when it knows of none; only one that saw no row in the durable table
\* changes a reservation that is held.
LEMMA PlanEffect ==
    ASSUME StoreTypeOK, NEW w \in ReservationIds, NEW sawNoRow \in BOOLEAN,
           NEW answer \in CapacityReservation \cup {PENDING},
           PlanReturns(w, sawNoRow, answer)
    PROVE  /\ [OverlappedNext]_storeVars
           /\ \/ sawNoRow /\ Durable /\ Held(w)
              \/ [StoreNext]_storeVars /\ (Held(w) => UNCHANGED storeVars)
           /\ \A i \in ReservationIds \ {w} : reservations'[i] = reservations[i]
           /\ Held(w) => Held(w)'
           /\ answer \in CapacityReservation =>
                 /\ Held(w)' /\ reservations'[w] = answer
                 /\ answer.status = "RESERVED" \/ (Held(w) /\ UNCHANGED storeVars)
           /\ answer = PENDING => (~Held(w) \/ w \in unseen) /\ UNCHANGED storeVars
           /\ reactivated' \subseteq reactivated
<1> USE DEF StoreTypeOK, storeVars, Held
<1>1. PENDING \notin CapacityReservation
  BY DEF PENDING, CapacityReservation, Statuses, ActiveReservationStatuses
<1>2. Demand[w] \in GpuCounts
  BY WorkflowAssumption
<1>3. CASE ReserveExisting(w) /\ answer = reservations[w]
  BY <1>1, <1>3 DEF ReserveExisting, PENDING, ActiveReservationStatuses
<1>4. ASSUME NEW p \in Pools,
             ReserveNew(w, p, Demand[w]) \/ (sawNoRow /\ Overwrite(w, p, Demand[w])),
             answer = [pool_id |-> p, gpu_count |-> Demand[w], status |-> "RESERVED"]
      PROVE  /\ [OverlappedNext]_storeVars
             /\ \/ sawNoRow /\ Durable /\ Held(w)
                \/ StoreNext /\ ~Held(w)
             /\ \A i \in ReservationIds \ {w} : reservations'[i] = reservations[i]
             /\ Held(w)' /\ reservations'[w] = answer
             /\ answer \in CapacityReservation /\ answer.status = "RESERVED"
             /\ reactivated' \subseteq reactivated
  <2>1. CASE ReserveNew(w, p, Demand[w])
    <3>1. StoreNext /\ ~Held(w)
      BY <1>2, <2>1 DEF StoreNext, Reserve, ReserveNew
    <3> QED
      BY <1>2, <1>4, <2>1, <3>1 DEF OverlappedNext, ReserveNew, ActiveReservationStatuses,
                                    CapacityReservation, Statuses
  <2>2. CASE sawNoRow /\ Overwrite(w, p, Demand[w])
    <3>1. OverlappedNext /\ Durable /\ Held(w)
      BY <1>2, <2>2 DEF OverlappedNext, Overwrite
    <3> QED
      BY <1>2, <1>4, <2>2, <3>1 DEF Overwrite, ActiveReservationStatuses,
                                    CapacityReservation, Statuses
  <2> QED BY <1>4, <2>1, <2>2
<1>5. CASE /\ ~Held(w) \/ w \in unseen
           /\ UNCHANGED storeVars
           /\ answer = PENDING
  BY <1>1, <1>5
<1> QED BY <1>1, <1>3, <1>4, <1>5 DEF PlanReturns

\* The running plan attempt of w, as PlanEffect takes it.
LEMMA RunningPlan ==
    ASSUME NEW w \in ReservationIds,
           NEW answer \in CapacityReservation \cup {PENDING},
           PlanReturns(w, w \in blind, answer)
    PROVE  \E sawNoRow \in BOOLEAN :
              sawNoRow = (w \in blind) /\ PlanReturns(w, sawNoRow, answer)
<1>1. CASE w \in blind
  <2>1. PlanReturns(w, TRUE, answer)
    BY <1>1 DEF PlanReturns
  <2> QED BY <1>1, <2>1
<1>2. CASE w \notin blind
  <2>1. PlanReturns(w, FALSE, answer)
    BY <1>2 DEF PlanReturns
  <2>2. FALSE = (w \in blind)
    BY <1>2
  <2> QED BY <2>1, <2>2
<1> QED BY <1>1, <1>2

\* How the workflow goes on from the answer of its plan.
LEMMA PlanOutcome ==
    ASSUME NEW w \in ReservationIds,
           NEW answer \in CapacityReservation \cup {PENDING},
           Proceed(w, CASE answer.status = "PENDING_CAPACITY" -> "pending"
                        [] answer.status = "RESERVED" -> "helm"
                        [] OTHER -> "stuck")
    PROVE  \/ /\ answer = PENDING
              /\ run' = [run EXCEPT ![w] = "pending"]
              /\ unseen' = unseen
           \/ /\ answer \in CapacityReservation
              /\ unseen' = unseen \ {w}
              /\ \/ answer.status = "RESERVED" /\ run' = [run EXCEPT ![w] = "helm"]
                 \/ answer.status # "RESERVED" /\ run' = [run EXCEPT ![w] = "stuck"]
<1>1. CASE answer = PENDING
  BY <1>1 DEF Proceed, PENDING
<1>2. CASE answer \in CapacityReservation
  <2>1. answer.status # "PENDING_CAPACITY"
    BY <1>2 DEF CapacityReservation, Statuses, ActiveReservationStatuses
  <2>2. CASE answer.status = "RESERVED"
    BY <1>2, <2>2 DEF Proceed
  <2>3. CASE answer.status # "RESERVED"
    BY <1>2, <2>1, <2>3 DEF Proceed
  <2> QED BY <2>2, <2>3
<1> QED BY <1>1, <1>2

\* The attempts of an activity are the workflow's own, or one given up.
Acting(w, a) ==
    \/ run[w] = a
    \/ \E l \in late : l.allocation = w /\ l.activity = a

\* What a plan attempt of w knows of the table: what it saw when it began.
Planning(w, sawNoRow) ==
    \/ run[w] = "plan" /\ sawNoRow = (w \in blind)
    \/ \E l \in late : l.allocation = w /\ l.activity = "plan" /\ sawNoRow = l.blind

PlanEffectOf(w) ==
    \E sawNoRow \in BOOLEAN, answer \in CapacityReservation \cup {PENDING} :
        Planning(w, sawNoRow) /\ PlanReturns(w, sawNoRow, answer)
ActivateEffectOf(w) == Acting(w, "activate") /\ MarkActive(w)
ReleaseEffectOf(w) == Acting(w, "release") /\ ReleaseIfPresent(w)

LEMMA StoreEffect ==
    ASSUME WorkflowTypeOK, [WorkflowNext]_wfVars
    PROVE  \/ \E w \in ReservationIds :
                 PlanEffectOf(w) \/ ActivateEffectOf(w) \/ ReleaseEffectOf(w)
           \/ Restart
           \/ UNCHANGED storeVars
<1> USE DEF PlanEffectOf, Planning, ActivateEffectOf, ReleaseEffectOf, Acting, Attempting
<1>1. ASSUME NEW w \in ReservationIds,
             \/ Start(w) \/ RetryTimer(w) \/ HelmSucceeds(w) \/ HelmFails(w)
             \/ GiveUp(w) \/ Cancel(w)
      PROVE  UNCHANGED storeVars
  BY <1>1 DEF Start, RetryTimer, HelmSucceeds, HelmFails, GiveUp, Cancel
<1>2. ASSUME NEW w \in ReservationIds, PlanAnswered(w) \/ PlanLost(w)
      PROVE  PlanEffectOf(w) \/ UNCHANGED storeVars
  BY <1>2, RunningPlan DEF PlanAnswered, PlanLost
<1>3. ASSUME NEW w \in ReservationIds, ActivateAnswered(w) \/ ActivateLost(w)
      PROVE  ActivateEffectOf(w) \/ UNCHANGED storeVars
  BY <1>3 DEF ActivateAnswered, ActivateLost
<1>4. ASSUME NEW w \in ReservationIds, ReleaseAnswered(w) \/ ReleaseLost(w)
      PROVE  ReleaseEffectOf(w) \/ UNCHANGED storeVars
  BY <1>4 DEF ReleaseAnswered, ReleaseLost
<1>5. ASSUME NEW l \in late, LateAttempt(l)
      PROVE  \/ PlanEffectOf(l.allocation)
             \/ ActivateEffectOf(l.allocation)
             \/ ReleaseEffectOf(l.allocation)
             \/ UNCHANGED storeVars
  BY <1>5 DEF LateAttempt, WorkflowTypeOK, Attempts
<1>6. \A l \in late : l.allocation \in ReservationIds
  BY DEF WorkflowTypeOK, Attempts
<1>7. CASE WorkerRestart
  BY <1>7 DEF WorkerRestart
<1>8. CASE UNCHANGED wfVars
  BY <1>8 DEF wfVars
<1> QED
  BY <1>1, <1>2, <1>3, <1>4, <1>5, <1>6, <1>7, <1>8 DEF WorkflowNext

\* So every step is one of the store with overlapping calls, or leaves the table
\* alone.
LEMMA IsStoreStep ==
    ASSUME WorkflowTypeOK, [WorkflowNext]_wfVars
    PROVE  [OverlappedNext]_storeVars
<1>1. ASSUME NEW w \in ReservationIds, PlanEffectOf(w)
      PROVE  [OverlappedNext]_storeVars
  BY <1>1, PlanEffect DEF PlanEffectOf, WorkflowTypeOK
<1>2. ASSUME NEW w \in ReservationIds, ActivateEffectOf(w) \/ ReleaseEffectOf(w)
      PROVE  [OverlappedNext]_storeVars
  BY <1>2 DEF ActivateEffectOf, ReleaseEffectOf, ReleaseIfPresent, StoreNext, OverlappedNext
<1> QED BY StoreEffect, <1>1, <1>2 DEF StoreNext, OverlappedNext

\* No plan attempt meets a reservation that was made since it began.
NothingOverlaps ==
    Durable => \A w \in ReservationIds : Planning(w, TRUE) => ~Held(w)

\* Then every step is one of the atomic store.
LEMMA IsAtomicStep ==
    ASSUME WorkflowTypeOK, NothingOverlaps, [WorkflowNext]_wfVars
    PROVE  [StoreNext]_storeVars
<1>1. ASSUME NEW w \in ReservationIds, PlanEffectOf(w)
      PROVE  [StoreNext]_storeVars
  BY <1>1, PlanEffect DEF PlanEffectOf, WorkflowTypeOK, NothingOverlaps
<1>2. ASSUME NEW w \in ReservationIds, ActivateEffectOf(w) \/ ReleaseEffectOf(w)
      PROVE  [StoreNext]_storeVars
  BY <1>2 DEF ActivateEffectOf, ReleaseEffectOf, ReleaseIfPresent, StoreNext
<1> QED BY StoreEffect, <1>1, <1>2 DEF StoreNext

-----------------------------------------------------------------------------
(* Types *)

\* Every step keeps the workflows well typed.
LEMMA WorkflowTypeStep ==
    ASSUME WorkflowTypeInv, [WorkflowNext]_wfVars
    PROVE  WorkflowTypeInv'
<1> USE DEF WorkflowTypeInv, WorkflowTypeOK, HasPlacement, runVars, historyVars
<1> USE WorkflowAssumption
<1>0. StoreTypeOK'
  BY IsStoreStep, StoreTypeStep
<1>1. PENDING \notin CapacityReservation \cup {NoRow} /\ NoRow \notin CapacityReservation
  BY DEF PENDING, NoRow, CapacityReservation, Statuses, ActiveReservationStatuses
<1>2. \A w \in ReservationIds : CustomerOf[w] \in Customers
  BY DEF Customers
<1>3. ASSUME NEW w \in ReservationIds, NEW r \in CapacityReservation, Deploy(w, r)
      PROVE  cluster' \in [Customers -> Deployments \cup {Nothing}]
  <2>1. [allocation |-> w, pool_id |-> r.pool_id] \in Deployments
    BY DEF Deployments, CapacityReservation
  <2> QED BY <1>2, <1>3, <2>1 DEF Deploy
<1>4. ASSUME NEW w \in ReservationIds, run[w] \in Activities
      PROVE  AttemptOf(w) \in Attempts
  BY <1>4, <1>1 DEF AttemptOf, Attempts, Activities
<1>0a. ASSUME NEW w \in ReservationIds, NEW a, BeginAttempt(w, a)
       PROVE  blind' \in SUBSET ReservationIds
  BY <1>0a DEF BeginAttempt
<1>5. ASSUME NEW w \in ReservationIds, Start(w)
      PROVE  WorkflowTypeInv'
  <2>1. runs' \in [ReservationIds -> 0..MaxRuns]
    BY <1>5 DEF Start
  <2> QED BY <1>0, <1>0a, <1>5, <2>1 DEF Start, RunStates, Activities
<1>6. ASSUME NEW w \in ReservationIds, RetryTimer(w)
      PROVE  WorkflowTypeInv'
  BY <1>0, <1>0a, <1>6 DEF RetryTimer
<1>7. ASSUME NEW w \in ReservationIds, PlanAnswered(w)
      PROVE  WorkflowTypeInv'
  <2>1. PICK answer \in CapacityReservation \cup {PENDING} :
            /\ placement' = [placement EXCEPT ![w] = answer]
            /\ Proceed(w, CASE answer.status = "PENDING_CAPACITY" -> "pending"
                            [] answer.status = "RESERVED" -> "helm"
                            [] OTHER -> "stuck")
    BY <1>7 DEF PlanAnswered
  <2>2. blind' \subseteq blind
    BY <2>1 DEF Proceed
  <2>3. \/ run' = [run EXCEPT ![w] = "pending"]
        \/ answer \in CapacityReservation /\ run' = [run EXCEPT ![w] = "helm"]
        \/ run' = [run EXCEPT ![w] = "stuck"]
    BY <2>1, PlanOutcome
  <2>4. /\ UNCHANGED <<backoff, late, cluster, historyVars>>
        /\ unseen' \subseteq unseen
    BY <1>7, <2>1 DEF PlanAnswered, Proceed
  <2>5. run' \in [ReservationIds -> RunStates]
    BY <2>3 DEF RunStates, Closed, Activities
  <2>6. placement' \in [ReservationIds -> CapacityReservation \cup {NoRow, PENDING}]
    BY <2>1
  <2>7. \A v \in ReservationIds :
          /\ run'[v] = "plan" => placement'[v] = NoRow
          /\ run'[v] \in {"helm", "activate", "release"} =>
                placement'[v] \in CapacityReservation
    BY <2>1, <2>3
  <2> QED BY <1>0, <2>2, <2>4, <2>5, <2>6, <2>7
<1>8. ASSUME NEW w \in ReservationIds,
             PlanLost(w) \/ HelmFails(w) \/ ActivateLost(w) \/ ReleaseLost(w)
      PROVE  WorkflowTypeInv'
  <2>1. cluster' \in [Customers -> Deployments \cup {Nothing}]
    BY <1>3, <1>8 DEF PlanLost, HelmFails, ActivateLost, ReleaseLost, Attempting
  <2>2. /\ backoff' = backoff \cup {w}
        /\ helmFailed' \in SUBSET ReservationIds
        /\ unseen' \subseteq unseen /\ blind' \subseteq blind
        /\ UNCHANGED <<run, placement, late, runs, cancelledIn, adrift>>
    BY <1>8 DEF PlanLost, HelmFails, ActivateLost, ReleaseLost, Retried
  <2> QED BY <1>0, <2>1, <2>2
<1>9. ASSUME NEW w \in ReservationIds, HelmSucceeds(w)
      PROVE  WorkflowTypeInv'
  <2>1. cluster' \in [Customers -> Deployments \cup {Nothing}]
    BY <1>3, <1>9 DEF HelmSucceeds, Attempting
  <2> QED
    BY <1>0, <1>9, <2>1 DEF HelmSucceeds, Attempting, Proceed, RunStates, Activities
<1>10. ASSUME NEW w \in ReservationIds, ActivateAnswered(w) \/ ReleaseAnswered(w)
       PROVE  WorkflowTypeInv'
  <2>1. /\ run' = [run EXCEPT ![w] = "active"] \/ run' = [run EXCEPT ![w] = "failed"]
        /\ unseen' \subseteq unseen /\ blind' \subseteq blind
        /\ UNCHANGED <<placement, backoff, late, cluster, historyVars>>
    BY <1>10 DEF ActivateAnswered, ReleaseAnswered, Proceed
  <2> QED BY <1>0, <2>1 DEF RunStates, Closed
<1>11. ASSUME NEW w \in ReservationIds, GiveUp(w)
       PROVE  WorkflowTypeInv'
  <2>1. late' \subseteq Attempts
    BY <1>4, <1>11 DEF GiveUp, MayGiveUp
  <2>2. run[w] = "helm" => AttemptOf(w).placement \in CapacityReservation
    BY DEF AttemptOf
  <2>3. AttemptOf(w).activity = run[w]
    BY DEF AttemptOf
  <2> QED BY <1>0, <1>11, <2>1, <2>2, <2>3 DEF GiveUp
<1>12. ASSUME NEW w \in ReservationIds, Cancel(w)
       PROVE  WorkflowTypeInv'
  <2>1. late' \subseteq late \cup {AttemptOf(w)} /\ run[w] \in Activities
    BY <1>12 DEF Cancel
  <2>2. late' \subseteq Attempts
    BY <1>4, <2>1
  <2>3. /\ AttemptOf(w).activity = run[w]
        /\ run[w] = "helm" => AttemptOf(w).placement \in CapacityReservation
    BY DEF AttemptOf
  <2>4. \/ run' = [run EXCEPT ![w] = "release"] /\ run[w] \in {"helm", "activate"}
        \/ run' = [run EXCEPT ![w] = "failed"]
    BY <1>12 DEF Cancel
  <2>5. /\ run' \in [ReservationIds -> RunStates]
        /\ cancelledIn' \in [ReservationIds -> Activities \cup {"none"}]
    BY <1>12, <2>4 DEF Cancel, RunStates, Activities, Closed
  <2>6. /\ backoff' = backoff \ {w}
        /\ blind' \subseteq blind /\ adrift' \subseteq adrift \cup {w}
        /\ UNCHANGED <<placement, unseen, cluster, runs, helmFailed, storeVars>>
    BY <1>12 DEF Cancel
  <2>7. \A l \in late' : l.activity = "helm" => l.placement \in CapacityReservation
    BY <2>1, <2>3
  <2>8. \A v \in ReservationIds :
          /\ run'[v] = "plan" => placement'[v] = NoRow
          /\ run'[v] \in {"helm", "activate", "release"} =>
                placement'[v] \in CapacityReservation
    BY <2>4, <2>6
  <2> QED BY <1>0, <2>2, <2>5, <2>6, <2>7, <2>8
<1>13. ASSUME NEW l \in late, LateAttempt(l)
       PROVE  WorkflowTypeInv'
  <2>1. l.allocation \in ReservationIds
    BY DEF Attempts
  <2>2. cluster' \in [Customers -> Deployments \cup {Nothing}]
    BY <1>3, <1>13, <2>1 DEF LateAttempt
  <2>3. /\ unseen' \subseteq ReservationIds
        /\ late' \subseteq late
        /\ adrift' \subseteq adrift \cup {l.allocation}
        /\ UNCHANGED <<runVars, blind, runs, cancelledIn, helmFailed>>
    BY <1>13, <2>1 DEF LateAttempt
  <2> QED BY <1>0, <2>1, <2>2, <2>3
<1>14. CASE WorkerRestart
  BY <1>0, <1>14 DEF WorkerRestart
<1>15. CASE UNCHANGED wfVars
  BY <1>0, <1>15 DEF wfVars
<1> QED
  BY <1>5, <1>6, <1>7, <1>8, <1>9, <1>10, <1>11, <1>12, <1>13, <1>14, <1>15
  DEF WorkflowNext

LEMMA WorkflowTypeInvariant == WorkflowSpec => []WorkflowTypeInv
<1>1. WorkflowInit => WorkflowTypeInv
  BY WorkflowAssumption
  DEF WorkflowInit, WorkflowTypeInv, WorkflowTypeOK, HasPlacement, StoreInit, EmptyTable,
      StoreTypeOK, RunStates
<1>2. WorkflowTypeInv /\ [WorkflowNext]_wfVars => WorkflowTypeInv'
  BY WorkflowTypeStep
<1> QED BY <1>1, <1>2, PTL DEF WorkflowSpec

\* The workflows, their attempts and the cluster stay well typed
\* (workflows.py:17-58).
THEOREM WorkflowTypeCorrect == WorkflowSpec => []WorkflowTypeOK
<1>1. WorkflowTypeInv => WorkflowTypeOK
  BY DEF WorkflowTypeInv
<1> QED BY <1>1, WorkflowTypeInvariant, PTL

\* The workflows add nothing to what the store's callers may do: whatever they
\* retry, cancel and repeat is a sequence of calls, overlapping ones included, and
\* restarts (activities.py:183-225).
THEOREM WorkflowImplementsOverlapped == WorkflowSpec => OverlappedStoreSpec
<1>1. WorkflowInit => StoreInit
  BY DEF WorkflowInit
<1>2. WorkflowTypeInv /\ [WorkflowNext]_wfVars => [OverlappedNext]_storeVars
  BY IsStoreStep DEF WorkflowTypeInv
<1> QED BY <1>1, <1>2, WorkflowTypeInvariant, PTL DEF WorkflowSpec, OverlappedStoreSpec

\* So whatever they do, however late, the rows that passed reserve's check fit
\* their pools (scheduler.py:185-192, 382-393).
THEOREM WorkflowKeepsCapacity == WorkflowSpec => []OverbookingNeedsReactivation
BY WorkflowImplementsOverlapped, CapacityHolds

-----------------------------------------------------------------------------
(* Who holds GPUs *)

AccountInv ==
    /\ WorkflowTypeInv
    /\ GpusAccountedFor
    /\ \A w \in ReservationIds : run[w] = "release" => cancelledIn[w] # "none"
    /\ \A l \in late : run[l.allocation] # "absent"

\* Only what acts for an allocation takes a reservation for it.
LEMMA HoldsBegin ==
    ASSUME WorkflowTypeOK, NEW w \in ReservationIds, NEW v \in ReservationIds \ {w},
           PlanEffectOf(w) \/ MarkActive(w) \/ ReleaseIfPresent(w)
    PROVE  reservations'[v] = reservations[v]
<1>1. CASE PlanEffectOf(w)
  BY <1>1, PlanEffect DEF PlanEffectOf, WorkflowTypeOK
<1>2. CASE MarkActive(w)
  BY <1>2 DEF MarkActive, WorkflowTypeOK, StoreTypeOK
<1>3. CASE ReleaseIfPresent(w)
  BY <1>3 DEF ReleaseIfPresent, Release, WorkflowTypeOK, StoreTypeOK, storeVars
<1> QED BY <1>1, <1>2, <1>3

\* A release leaves nothing held.
LEMMA ReleaseHolds ==
    ASSUME WorkflowTypeOK, NEW w \in ReservationIds, ReleaseIfPresent(w)
    PROVE  ~Held(w)'
<1>1. CASE Release(w)
  <2>1. reservations[w] \in CapacityReservation
    BY <1>1 DEF Release, Present, NoRow, WorkflowTypeOK, StoreTypeOK
  <2>2. reservations'[w].status = "RELEASED"
    BY <1>1, <2>1 DEF Release, WorkflowTypeOK, StoreTypeOK, CapacityReservation
  <2> QED BY <2>2 DEF Held, ActiveReservationStatuses
<1>2. CASE ~Present(w) /\ UNCHANGED storeVars
  BY <1>2 DEF Present, storeVars, Held, ActiveReservationStatuses
<1> QED BY <1>1, <1>2 DEF ReleaseIfPresent

\* Every step keeps the account of who holds GPUs.
LEMMA AccountStep ==
    ASSUME AccountInv, [WorkflowNext]_wfVars
    PROVE  AccountInv'
<1> DEFINE Accounted(w) ==
        Held(w) => \/ run[w] \in Activities \cup {"active", "stuck"}
                   \/ run[w] = "failed" /\ cancelledIn[w] = "plan"
                   \/ w \in unseen
<1> DEFINE Rest ==
        /\ \A w \in ReservationIds : run[w] = "release" => cancelledIn[w] # "none"
        /\ \A l \in late : run[l.allocation] # "absent"
<1> USE DEF AccountInv, GpusAccountedFor, Activities, runVars, historyVars
<1>0. /\ WorkflowTypeInv'
      /\ WorkflowTypeOK
      /\ run \in [ReservationIds -> RunStates]
      /\ cancelledIn \in [ReservationIds -> Activities \cup {"none"}]
      /\ \A l \in late : l.allocation \in ReservationIds
  BY WorkflowTypeStep DEF WorkflowTypeInv, WorkflowTypeOK, Attempts
<1>1. ASSUME UNCHANGED storeVars, NEW w \in ReservationIds, Accounted(w),
             run'[w] = run[w], cancelledIn'[w] = cancelledIn[w],
             w \in unseen => w \in unseen' \/ run[w] \in Activities
      PROVE  Accounted(w)'
  BY <1>1 DEF storeVars, Held
<1>2. ASSUME NEW w \in ReservationIds, Start(w)
      PROVE  AccountInv'
  BY <1>0, <1>1, <1>2 DEF Start
<1>3. ASSUME NEW w \in ReservationIds, RetryTimer(w)
      PROVE  AccountInv'
  BY <1>0, <1>1, <1>3 DEF RetryTimer
<1>4. ASSUME NEW w \in ReservationIds, GiveUp(w)
      PROVE  AccountInv'
  <2>1. AttemptOf(w).allocation = w /\ run[w] # "absent"
    BY <1>4 DEF AttemptOf, GiveUp, MayGiveUp
  <2> QED BY <1>0, <1>1, <1>4, <2>1 DEF GiveUp, MayGiveUp
<1>5. ASSUME NEW w \in ReservationIds, HelmSucceeds(w)
      PROVE  AccountInv'
  BY <1>0, <1>1, <1>5 DEF HelmSucceeds, Proceed, Attempting
<1>6. ASSUME NEW w \in ReservationIds, PlanAnswered(w)
      PROVE  AccountInv'
  <2>1. PICK answer \in CapacityReservation \cup {PENDING} :
            /\ PlanReturns(w, w \in blind, answer)
            /\ Proceed(w, CASE answer.status = "PENDING_CAPACITY" -> "pending"
                            [] answer.status = "RESERVED" -> "helm"
                            [] OTHER -> "stuck")
    BY <1>6 DEF PlanAnswered
  <2>2. \/ /\ answer = PENDING
           /\ run' = [run EXCEPT ![w] = "pending"]
           /\ unseen' = unseen
        \/ /\ unseen' = unseen \ {w}
           /\ \/ run' = [run EXCEPT ![w] = "helm"]
              \/ run' = [run EXCEPT ![w] = "stuck"]
    BY <2>1, PlanOutcome
  <2>3. /\ answer = PENDING => ~Held(w)' \/ w \in unseen
        /\ \A v \in ReservationIds \ {w} : reservations'[v] = reservations[v]
    BY <2>1, <1>0, RunningPlan, PlanEffect DEF WorkflowTypeOK, storeVars, Held
  <2>4. UNCHANGED <<late, cancelledIn>>
    BY <2>1 DEF Proceed
  <2> QED BY <1>0, <2>2, <2>3, <2>4 DEF Held
<1>7. ASSUME NEW w \in ReservationIds,
             PlanLost(w) \/ HelmFails(w) \/ ActivateLost(w) \/ ReleaseLost(w)
      PROVE  AccountInv'
  <2>1. /\ run[w] \in Activities
        /\ unseen' = unseen \ {w}
        /\ UNCHANGED <<run, late, cancelledIn>>
    BY <1>7 DEF PlanLost, HelmFails, ActivateLost, ReleaseLost, Retried, Attempting
  <2>2. \A v \in ReservationIds \ {w} : reservations'[v] = reservations[v]
    BY <1>0, <1>7, RunningPlan, HoldsBegin
    DEF PlanLost, HelmFails, ActivateLost, ReleaseLost, PlanEffectOf, Planning, Attempting,
        storeVars
  <2> QED BY <1>0, <2>1, <2>2 DEF Held
<1>8. ASSUME NEW w \in ReservationIds, ActivateAnswered(w)
      PROVE  AccountInv'
  <2>1. \A v \in ReservationIds \ {w} : reservations'[v] = reservations[v]
    BY <1>0, <1>8, HoldsBegin DEF ActivateAnswered
  <2>2. /\ run' = [run EXCEPT ![w] = "active"]
        /\ unseen' = unseen \ {w}
        /\ UNCHANGED <<late, cancelledIn>>
    BY <1>8 DEF ActivateAnswered, Proceed
  <2> QED BY <1>0, <2>1, <2>2 DEF Held
<1>9. ASSUME NEW w \in ReservationIds, ReleaseAnswered(w)
      PROVE  AccountInv'
  <2>1. /\ ~Held(w)'
        /\ \A v \in ReservationIds \ {w} : reservations'[v] = reservations[v]
    BY <1>0, <1>9, HoldsBegin, ReleaseHolds DEF ReleaseAnswered
  <2>2. /\ run' = [run EXCEPT ![w] = "failed"]
        /\ unseen' = unseen \ {w}
        /\ UNCHANGED <<late, cancelledIn>>
    BY <1>9 DEF ReleaseAnswered, Proceed
  <2> QED BY <1>0, <2>1, <2>2 DEF Held
<1>10. ASSUME NEW w \in ReservationIds, Cancel(w)
       PROVE  AccountInv'
  <2>1. /\ run[w] \in Activities /\ run[w] # "release"
        /\ cancelledIn' = [cancelledIn EXCEPT ![w] = run[w]]
        /\ \/ run' = [run EXCEPT ![w] = "release"] /\ run[w] \in {"helm", "activate"}
           \/ run' = [run EXCEPT ![w] = "failed"] /\ run[w] = "plan"
        /\ late' \subseteq late \cup {AttemptOf(w)}
        /\ UNCHANGED <<unseen, storeVars>>
    BY <1>10 DEF Cancel
  <2>2. AttemptOf(w).allocation = w
    BY DEF AttemptOf
  <2>3. \A v \in ReservationIds : Accounted(v)'
    BY <1>0, <1>1, <2>1 DEF RunStates
  <2> QED BY <1>0, <2>1, <2>2, <2>3
<1>11. ASSUME NEW l \in late, LateAttempt(l)
       PROVE  AccountInv'
  <2>1. l.allocation \in ReservationIds
    BY <1>0
  <2>2. /\ UNCHANGED <<run, cancelledIn>>
        /\ late' \subseteq late
        /\ unseen' = unseen \cup
              {w \in {l.allocation} : /\ run[w] \in Closed \/ Attempting(w, "plan")
                                     /\ ~Held(w) /\ Held(w)'}
    BY <1>11 DEF LateAttempt
  <2>3. \A v \in ReservationIds \ {l.allocation} : reservations'[v] = reservations[v]
    BY <1>0, <1>11, <2>1, HoldsBegin
    DEF LateAttempt, PlanEffectOf, Planning, WorkflowTypeOK, Attempts, storeVars
  <2>4. run[l.allocation] \in Activities \cup {"active", "stuck"} \cup Closed
    BY <1>0, <2>1 DEF RunStates
  <2>5. Accounted(l.allocation)'
    BY <1>0, <2>1, <2>2, <2>4
  <2>6. ASSUME NEW v \in ReservationIds \ {l.allocation} PROVE Accounted(v)'
    BY <2>2, <2>3, <2>6 DEF Held
  <2> QED BY <1>0, <2>2, <2>5, <2>6
<1>12. CASE WorkerRestart
  <2>1. \A w \in ReservationIds : ~Held(w)'
    BY <1>12 DEF WorkerRestart, Restart, EmptyTable, NoRow, Held, ActiveReservationStatuses
  <2> QED BY <1>0, <1>12, <2>1 DEF WorkerRestart
<1>13. CASE UNCHANGED wfVars
  BY <1>0, <1>1, <1>13 DEF wfVars
<1> QED
  BY <1>2, <1>3, <1>4, <1>5, <1>6, <1>7, <1>8, <1>9, <1>10, <1>11, <1>12, <1>13
  DEF WorkflowNext

LEMMA AccountInvariant == WorkflowSpec => []AccountInv
<1>1. WorkflowInit => AccountInv
  BY WorkflowAssumption
  DEF WorkflowInit, AccountInv, WorkflowTypeInv, WorkflowTypeOK, HasPlacement, StoreInit,
      EmptyTable, StoreTypeOK, RunStates, GpusAccountedFor, Held, NoRow,
      ActiveReservationStatuses
<1>2. AccountInv /\ [WorkflowNext]_wfVars => AccountInv'
  BY AccountStep
<1> QED BY <1>1, <1>2, PTL DEF WorkflowSpec

\* For every number of allocations, runs, cancellations, lost answers, late
\* attempts and restarts: GPUs are held by a workflow that runs, is ACTIVE or is
\* stuck, but for the three leaks that GpusAccountedFor names (workflows.py:18-52).
THEOREM WorkflowGpusAccountedFor == WorkflowSpec => []GpusAccountedFor
<1>1. AccountInv => GpusAccountedFor
  BY DEF AccountInv
<1> QED BY <1>1, AccountInvariant, PTL

-----------------------------------------------------------------------------
(* Which runs get stuck *)

\* How a step changes where a workflow is.
LEMMA RunSteps ==
    ASSUME WorkflowTypeOK, [WorkflowNext]_wfVars, NEW w \in ReservationIds
    PROVE  \/ Start(w)
           \/ run'[w] = run[w] /\ runs'[w] = runs[w]
           \/ /\ run[w] # "absent" /\ run'[w] \notin {"absent", "plan"}
              /\ runs'[w] = runs[w]
              /\ run'[w] = "stuck" => PlanAnswered(w)
<1> USE DEF historyVars, runVars
<1>0. run \in [ReservationIds -> RunStates] /\ runs \in [ReservationIds -> 0..MaxRuns]
  BY DEF WorkflowTypeOK
<1>1. ASSUME NEW v \in ReservationIds, Start(v), v # w
      PROVE  run'[w] = run[w] /\ runs'[w] = runs[w]
  BY <1>0, <1>1 DEF Start
<1>2. ASSUME NEW v \in ReservationIds,
             \/ RetryTimer(v) \/ PlanLost(v) \/ HelmFails(v)
             \/ ActivateLost(v) \/ ReleaseLost(v) \/ GiveUp(v)
      PROVE  run' = run /\ runs' = runs
  BY <1>2 DEF RetryTimer, PlanLost, HelmFails, ActivateLost, ReleaseLost, GiveUp, Retried
<1>3. ASSUME NEW v \in ReservationIds, PlanAnswered(v)
      PROVE  /\ run[v] # "absent" /\ run'[v] \notin {"absent", "plan"}
             /\ runs' = runs
             /\ v # w => run'[w] = run[w]
  <2>1. PICK answer \in CapacityReservation \cup {PENDING} :
            Proceed(v, CASE answer.status = "PENDING_CAPACITY" -> "pending"
                         [] answer.status = "RESERVED" -> "helm"
                         [] OTHER -> "stuck")
    BY <1>3 DEF PlanAnswered
  <2>2. \/ run' = [run EXCEPT ![v] = "pending"]
        \/ run' = [run EXCEPT ![v] = "helm"] \/ run' = [run EXCEPT ![v] = "stuck"]
    BY <2>1, PlanOutcome
  <2> QED BY <1>0, <1>3, <2>1, <2>2 DEF PlanAnswered, Attempting, Proceed
<1>4. ASSUME NEW v \in ReservationIds,
             \/ HelmSucceeds(v) \/ ActivateAnswered(v) \/ ReleaseAnswered(v) \/ Cancel(v)
      PROVE  /\ run[v] # "absent" /\ run'[v] \notin {"absent", "plan", "stuck"}
             /\ runs' = runs
             /\ v # w => run'[w] = run[w]
  BY <1>0, <1>4
  DEF HelmSucceeds, ActivateAnswered, ReleaseAnswered, Cancel, Attempting, Proceed, Activities
<1>5. ASSUME NEW l \in late, LateAttempt(l)
      PROVE  run' = run /\ runs' = runs
  BY <1>5 DEF LateAttempt
<1>6. CASE WorkerRestart \/ UNCHANGED wfVars
  BY <1>6 DEF WorkerRestart, wfVars
<1> QED BY <1>1, <1>2, <1>3, <1>4, <1>5, <1>6 DEF WorkflowNext

\* The attempts given up in a step were made by workflows that run.
LEMMA LateSteps ==
    ASSUME WorkflowTypeOK, [WorkflowNext]_wfVars, NEW l \in late' \ late
    PROVE  \E w \in ReservationIds : run[w] \in Activities /\ l = AttemptOf(w)
<1>1. ASSUME NEW w \in ReservationIds,
             \/ Start(w) \/ RetryTimer(w) \/ PlanAnswered(w) \/ PlanLost(w)
             \/ HelmSucceeds(w) \/ HelmFails(w)
             \/ ActivateAnswered(w) \/ ActivateLost(w)
             \/ ReleaseAnswered(w) \/ ReleaseLost(w)
      PROVE  late' = late
  BY <1>1
  DEF Start, RetryTimer, PlanAnswered, PlanLost, HelmSucceeds, HelmFails, ActivateAnswered,
      ActivateLost, ReleaseAnswered, ReleaseLost, Proceed, Retried
<1>2. ASSUME NEW w \in ReservationIds, GiveUp(w) \/ Cancel(w)
      PROVE  run[w] \in Activities /\ late' \subseteq late \cup {AttemptOf(w)}
  BY <1>2 DEF GiveUp, MayGiveUp, Cancel
<1>3. ASSUME NEW k \in late, LateAttempt(k)
      PROVE  late' \subseteq late
  BY <1>3 DEF LateAttempt
<1>4. CASE WorkerRestart \/ UNCHANGED wfVars
  BY <1>4 DEF WorkerRestart, wfVars
<1> QED BY <1>1, <1>2, <1>3, <1>4 DEF WorkflowNext

\* Only an attempt to activate makes a row ACTIVE.
LEMMA ActivationsAct ==
    ASSUME WorkflowTypeOK, [WorkflowNext]_wfVars, NEW w \in ReservationIds,
           ~Acting(w, "activate"), reservations[w].status # "ACTIVE"
    PROVE  reservations'[w].status # "ACTIVE"
<1>1. ASSUME NEW v \in ReservationIds, PlanEffectOf(v)
      PROVE  reservations'[w].status # "ACTIVE"
  <2>1. PICK sawNoRow \in BOOLEAN, answer \in CapacityReservation \cup {PENDING} :
            PlanReturns(v, sawNoRow, answer)
    BY <1>1 DEF PlanEffectOf
  <2>2. /\ \A i \in ReservationIds \ {v} : reservations'[i] = reservations[i]
        /\ answer \in CapacityReservation =>
              /\ reservations'[v] = answer
              /\ answer.status = "RESERVED" \/ UNCHANGED storeVars
        /\ answer = PENDING => UNCHANGED storeVars
    BY <2>1, PlanEffect DEF WorkflowTypeOK
  <2> QED BY <2>2 DEF storeVars
<1>2. ASSUME NEW v \in ReservationIds, ActivateEffectOf(v)
      PROVE  reservations'[w] = reservations[w]
  BY <1>2, HoldsBegin DEF ActivateEffectOf
<1>3. ASSUME NEW v \in ReservationIds, ReleaseEffectOf(v)
      PROVE  reservations'[w].status # "ACTIVE"
  <2>1. v # w => reservations'[w] = reservations[w]
    BY <1>3, HoldsBegin DEF ReleaseEffectOf
  <2>2. ~Held(v)'
    BY <1>3, ReleaseHolds DEF ReleaseEffectOf
  <2> QED BY <2>1, <2>2 DEF Held, ActiveReservationStatuses
<1>4. CASE Restart
  BY <1>4 DEF Restart, EmptyTable, NoRow
<1>5. CASE UNCHANGED storeVars
  BY <1>5 DEF storeVars
<1> QED BY <1>1, <1>2, <1>3, <1>4, <1>5, StoreEffect

\* A workflow that has not been started, or is in the plan of its first run.
Fresh(w) == run[w] \in {"absent", "plan"} /\ runs[w] <= 1

\* Nothing has activated, or will activate, what a fresh workflow reserves.
FirstRunInv ==
    /\ WorkflowTypeInv
    /\ \A w \in ReservationIds :
          /\ runs[w] = 0 <=> run[w] = "absent"
          /\ Fresh(w) => reservations[w].status # "ACTIVE" /\ ~Acting(w, "activate")
    /\ \A l \in late : run[l.allocation] # "absent"
    /\ StuckOnlyOnRestart

LEMMA FirstRunStep ==
    ASSUME FirstRunInv, [WorkflowNext]_wfVars
    PROVE  FirstRunInv'
<1> USE DEF FirstRunInv
<1>0. /\ WorkflowTypeInv' /\ WorkflowTypeOK /\ WorkflowTypeOK'
      /\ run \in [ReservationIds -> RunStates]
      /\ runs \in [ReservationIds -> 0..MaxRuns]
      /\ \A l \in late : l.allocation \in ReservationIds
  BY WorkflowTypeStep DEF WorkflowTypeInv, WorkflowTypeOK, Attempts
<1>1. ASSUME NEW w \in ReservationIds, Start(w)
      PROVE  /\ run[w] \in Closed \cup {"absent"}
             /\ run'[w] = "plan" /\ runs'[w] = runs[w] + 1
  BY <1>0, <1>1 DEF Start
<1>2. \A w \in ReservationIds : runs[w] \in Nat /\ runs'[w] \in Nat
  BY <1>0, WorkflowAssumption DEF WorkflowTypeOK
<1>3. \A w \in ReservationIds : runs'[w] = 0 <=> run'[w] = "absent"
  BY <1>0, <1>1, <1>2, RunSteps
<1>4. ASSUME NEW w \in ReservationIds, Fresh(w)'
      PROVE  Fresh(w)
  BY <1>0, <1>1, <1>2, <1>4, RunSteps DEF Fresh
<1>5. ASSUME NEW w \in ReservationIds, Fresh(w)'
      PROVE  /\ reservations'[w].status # "ACTIVE"
             /\ ~Acting(w, "activate")'
  <2>1. Fresh(w) /\ ~Acting(w, "activate")
    BY <1>4, <1>5
  <2>2. reservations'[w].status # "ACTIVE"
    BY <1>0, <2>1, ActivationsAct
  <2>3. ASSUME NEW l \in late', l.allocation = w, l.activity = "activate"
        PROVE  FALSE
    <3>1. l \in late' \ late
      BY <2>1, <2>3 DEF Acting
    <3>2. PICK v \in ReservationIds : run[v] \in Activities /\ l = AttemptOf(v)
      BY <1>0, <3>1, LateSteps
    <3> QED BY <2>1, <2>3, <3>2 DEF AttemptOf, Fresh
  <2>4. run'[w] # "activate"
    BY <1>5 DEF Fresh
  <2> QED BY <2>2, <2>3, <2>4 DEF Acting
<1>6. \A w \in ReservationIds : run[w] # "absent" => run'[w] # "absent"
  BY <1>1, <1>0, RunSteps
<1>7. ASSUME NEW l \in late'
      PROVE  run'[l.allocation] # "absent"
  <2>1. CASE l \in late
    BY <1>0, <1>6, <2>1
  <2>2. CASE l \notin late
    <3>1. PICK w \in ReservationIds : run[w] \in Activities /\ l = AttemptOf(w)
      BY <1>0, <2>2, LateSteps
    <3> QED BY <1>6, <3>1 DEF AttemptOf, Activities
  <2> QED BY <2>1, <2>2
<1>8. ASSUME NEW w \in ReservationIds, run'[w] = "stuck"
      PROVE  runs'[w] > 1
  <2>1. CASE run[w] = "stuck"
    BY <1>0, <1>1, <1>8, <2>1, RunSteps DEF StuckOnlyOnRestart, Closed
  <2>2. CASE run[w] # "stuck"
    <3>1. PlanAnswered(w) /\ runs'[w] = runs[w]
      BY <1>0, <1>1, <1>8, <2>2, RunSteps
    <3>2. PICK answer \in CapacityReservation \cup {PENDING} :
              /\ PlanReturns(w, w \in blind, answer)
              /\ Proceed(w, CASE answer.status = "PENDING_CAPACITY" -> "pending"
                              [] answer.status = "RESERVED" -> "helm"
                              [] OTHER -> "stuck")
      BY <3>1 DEF PlanAnswered
    <3>3. answer \in CapacityReservation /\ answer.status # "RESERVED"
      BY <1>0, <1>8, <3>2, PlanOutcome
    <3>4. Held(w) /\ reservations[w] = answer
      BY <1>0, <3>2, <3>3, RunningPlan, PlanEffect DEF WorkflowTypeOK, storeVars
    <3>5. reservations[w].status = "ACTIVE"
      BY <3>3, <3>4 DEF Held, ActiveReservationStatuses
    <3>6. ~Fresh(w) /\ run[w] = "plan"
      BY <3>1, <3>5 DEF PlanAnswered, Attempting
    <3> QED BY <1>2, <3>1, <3>6 DEF Fresh
  <2> QED BY <2>1, <2>2
<1> QED BY <1>0, <1>3, <1>5, <1>7, <1>8 DEF StuckOnlyOnRestart

\* For every number of allocations, lost answers, late attempts, cancellations
\* and restarts: no workflow raises its ValueError in its first run
\* (workflows.py:23-30).
THEOREM WorkflowStuckOnlyOnRestart == WorkflowSpec => []StuckOnlyOnRestart
<1>1. WorkflowInit => FirstRunInv
  BY WorkflowAssumption
  DEF WorkflowInit, FirstRunInv, Fresh, Acting, StuckOnlyOnRestart, WorkflowTypeInv,
      WorkflowTypeOK, HasPlacement, StoreInit, EmptyTable, StoreTypeOK, RunStates, NoRow
<1>2. FirstRunInv /\ [WorkflowNext]_wfVars => FirstRunInv'
  BY FirstRunStep
<1>3. FirstRunInv => StuckOnlyOnRestart
  BY DEF FirstRunInv
<1> QED BY <1>1, <1>2, <1>3, PTL DEF WorkflowSpec

-----------------------------------------------------------------------------
(* One worker at a time *)

\* Where no attempt is late, an activation never finds a released row.
OneWorkerInv ==
    /\ WorkflowTypeInv
    /\ StoreInv
    /\ late = {} /\ unseen = {}
    /\ reactivated = {}
    /\ \A w \in ReservationIds :
          run[w] \in {"helm", "activate"} => reservations[w].status # "RELEASED"
    /\ \A w \in blind : ~Present(w)

\* Activating a row that has not been released reactivates nothing.
LEMMA ActivatesHeld ==
    ASSUME WorkflowTypeOK, NEW w \in ReservationIds,
           reservations[w].status # "RELEASED", MarkActive(w)
    PROVE  /\ reactivated' = reactivated
           /\ Held(w) /\ Held(w)'
           /\ reservations' = [reservations EXCEPT ![w].status = "ACTIVE"]
<1>1. reservations[w] \in CapacityReservation
  BY DEF MarkActive, Present, NoRow, WorkflowTypeOK, StoreTypeOK
<1>2. Held(w)
  BY <1>1 DEF Held, CapacityReservation, Statuses
<1>3. reservations'[w].status = "ACTIVE"
  BY <1>1 DEF MarkActive, WorkflowTypeOK, StoreTypeOK, CapacityReservation
<1> QED BY <1>2, <1>3 DEF MarkActive, Held, ActiveReservationStatuses

LEMMA OneWorkerStep ==
    ASSUME ~LateAttempts, OneWorkerInv, [WorkflowNext]_wfVars
    PROVE  OneWorkerInv'
<1> DEFINE NotReleased(w) ==
        run[w] \in {"helm", "activate"} => reservations[w].status # "RELEASED"
<1> DEFINE NoRowYet == \A w \in blind : ~Present(w)
<1> USE DEF OneWorkerInv, Activities, runVars, historyVars
<1>0. /\ WorkflowTypeInv' /\ StoreInv'
      /\ WorkflowTypeOK
      /\ run \in [ReservationIds -> RunStates]
      /\ blind \subseteq ReservationIds
  BY WorkflowTypeStep, IsStoreStep, StoreTypeStep, CapacityStep
  DEF WorkflowTypeInv, WorkflowTypeOK, StoreInv
<1>1. ASSUME NEW w \in ReservationIds,
             \/ Start(w) \/ RetryTimer(w) \/ HelmSucceeds(w) \/ HelmFails(w)
             \/ Cancel(w) \/ GiveUp(w)
      PROVE  OneWorkerInv'
  <2>1. UNCHANGED <<late, storeVars>> /\ unseen' \subseteq unseen
    BY <1>1
    DEF Start, RetryTimer, HelmSucceeds, HelmFails, Cancel, GiveUp, MayGiveUp, Proceed, Retried
  <2>2. /\ \A v \in ReservationIds \ {w} : run'[v] = run[v]
        /\ run'[w] \in {"helm", "activate"} => run[w] \in {"helm", "activate"}
    BY <1>0, <1>1
    DEF Start, RetryTimer, HelmSucceeds, HelmFails, Cancel, GiveUp, MayGiveUp, Proceed,
        Retried, Attempting
  <2>3. \A v \in blind' : v \in blind \/ ~Present(v)
    BY <1>1
    DEF Start, RetryTimer, HelmSucceeds, HelmFails, Cancel, GiveUp, MayGiveUp, Proceed,
        Retried, BeginAttempt
  <2>4. NoRowYet'
    BY <1>0, <2>1, <2>3 DEF Present, storeVars
  <2> QED BY <1>0, <2>1, <2>2, <2>4 DEF storeVars
<1>2. ASSUME NEW w \in ReservationIds, PlanAnswered(w) \/ PlanLost(w)
      PROVE  OneWorkerInv'
  <2>1. /\ \A v \in ReservationIds \ {w} : run'[v] = run[v]
        /\ late' = late /\ unseen' \subseteq unseen
        /\ blind' = blind \ {w}
    BY <1>0, <1>2 DEF PlanAnswered, PlanLost, Proceed, Retried
  <2>2. ASSUME NEW sawNoRow \in BOOLEAN, NEW answer \in CapacityReservation \cup {PENDING},
               PlanReturns(w, sawNoRow, answer)
        PROVE  /\ \A v \in ReservationIds \ {w} : reservations'[v] = reservations[v]
               /\ reactivated' = {}
               /\ NoRowYet'
               /\ answer \in CapacityReservation => reservations'[w] = answer
    BY <1>0, <2>1, <2>2, PlanEffect DEF WorkflowTypeOK, Present
  <2>3. CASE PlanAnswered(w)
    <3>1. PICK answer \in CapacityReservation \cup {PENDING} :
              /\ PlanReturns(w, w \in blind, answer)
              /\ Proceed(w, CASE answer.status = "PENDING_CAPACITY" -> "pending"
                              [] answer.status = "RESERVED" -> "helm"
                              [] OTHER -> "stuck")
      BY <2>3 DEF PlanAnswered
    <3>2. /\ run'[w] = "helm" => answer \in CapacityReservation /\ answer.status = "RESERVED"
          /\ run'[w] # "activate"
      BY <1>0, <3>1, PlanOutcome
    <3>3. NotReleased(w)'
      BY <2>2, <3>1, <3>2, RunningPlan
    <3> QED BY <1>0, <2>1, <2>2, <3>1, <3>3, RunningPlan
  <2>4. CASE PlanLost(w)
    <3>1. run'[w] = "plan"
      BY <2>4 DEF PlanLost, Retried, Attempting
    <3>2. CASE UNCHANGED storeVars
      <4>1. NoRowYet'
        BY <1>0, <2>1, <3>2 DEF Present, storeVars
      <4> QED BY <1>0, <2>1, <3>1, <3>2, <4>1 DEF storeVars
    <3>3. CASE ~UNCHANGED storeVars
      <4>1. PICK answer \in CapacityReservation \cup {PENDING} :
                PlanReturns(w, w \in blind, answer)
        BY <2>4, <3>3 DEF PlanLost
      <4> QED BY <1>0, <2>1, <2>2, <3>1, <4>1, RunningPlan
    <3> QED BY <3>2, <3>3
  <2> QED BY <1>2, <2>3, <2>4
<1>3. ASSUME NEW w \in ReservationIds, ActivateAnswered(w) \/ ActivateLost(w)
      PROVE  OneWorkerInv'
  <2>1. /\ run[w] = "activate"
        /\ late' = late /\ unseen' \subseteq unseen /\ blind' = blind \ {w}
        /\ \A v \in ReservationIds \ {w} : run'[v] = run[v]
        /\ MarkActive(w) \/ UNCHANGED storeVars
    BY <1>0, <1>3 DEF ActivateAnswered, ActivateLost, Attempting, Proceed, Retried
  <2>2. CASE MarkActive(w)
    <3>1. /\ reactivated' = {}
          /\ Held(w)'
          /\ \A v \in ReservationIds \ {w} : reservations'[v] = reservations[v]
      BY <1>0, <2>1, <2>2, ActivatesHeld, HoldsBegin
    <3>2. reservations'[w].status # "RELEASED"
      BY <3>1 DEF Held, ActiveReservationStatuses
    <3>3. NoRowYet'
      BY <1>0, <2>1, <3>1 DEF Present
    <3> QED BY <1>0, <2>1, <3>1, <3>2, <3>3
  <2>3. CASE UNCHANGED storeVars
    <3>1. NotReleased(w)' /\ NoRowYet'
      BY <1>0, <2>1, <2>3 DEF storeVars, Present
    <3> QED BY <1>0, <2>1, <2>3, <3>1 DEF storeVars
  <2> QED BY <2>1, <2>2, <2>3
<1>4. ASSUME NEW w \in ReservationIds, ReleaseAnswered(w) \/ ReleaseLost(w)
      PROVE  OneWorkerInv'
  <2>1. /\ run[w] = "release"
        /\ run'[w] \in {"release", "failed"}
        /\ late' = late /\ unseen' \subseteq unseen /\ blind' = blind \ {w}
        /\ \A v \in ReservationIds \ {w} : run'[v] = run[v]
        /\ ReleaseIfPresent(w) \/ UNCHANGED storeVars
    BY <1>0, <1>4 DEF ReleaseAnswered, ReleaseLost, Attempting, Proceed, Retried
  <2>2. /\ reactivated' = {}
        /\ \A v \in ReservationIds \ {w} : reservations'[v] = reservations[v]
    BY <1>0, <2>1, HoldsBegin DEF ReleaseIfPresent, Release, storeVars
  <2>3. NoRowYet'
    BY <1>0, <2>1, <2>2 DEF Present
  <2> QED BY <1>0, <2>1, <2>2, <2>3
<1>5. CASE WorkerRestart
  <2>1. \A w \in ReservationIds : reservations'[w].status = "ABSENT"
    BY <1>5 DEF WorkerRestart, Restart, EmptyTable, NoRow
  <2>2. NoRowYet'
    BY <1>0, <1>5, <2>1 DEF WorkerRestart, Present
  <2> QED BY <1>0, <1>5, <2>1, <2>2 DEF WorkerRestart, Restart
<1>6. CASE UNCHANGED wfVars
  BY <1>0, <1>6 DEF wfVars, storeVars, Present
<1>7. ASSUME NEW l \in late PROVE FALSE
  BY <1>7
<1> QED BY <1>1, <1>2, <1>3, <1>4, <1>5, <1>6, <1>7 DEF WorkflowNext

\* Where nothing is cancelled no activity fails for good, and nothing is
\* released.
NothingReleased ==
    /\ \A w \in ReservationIds :
          run[w] # "release" /\ reservations[w].status # "RELEASED"
    /\ \A l \in late : l.activity # "release"

UnreleasedInv == WorkflowTypeInv /\ StoreInv /\ reactivated = {} /\ NothingReleased

LEMMA UnreleasedStep ==
    ASSUME ~Cancellations, UnreleasedInv, [WorkflowNext]_wfVars
    PROVE  UnreleasedInv'
<1> USE DEF UnreleasedInv, NothingReleased
<1>0. /\ WorkflowTypeInv' /\ StoreInv'
      /\ WorkflowTypeOK
      /\ run \in [ReservationIds -> RunStates]
  BY WorkflowTypeStep, IsStoreStep, StoreTypeStep, CapacityStep
  DEF WorkflowTypeInv, WorkflowTypeOK, StoreInv
<1>1. /\ reactivated' = {}
      /\ \A v \in ReservationIds : reservations'[v].status # "RELEASED"
  <2>1. ASSUME NEW w \in ReservationIds, PlanEffectOf(w)
        PROVE  /\ reactivated' = {}
               /\ \A v \in ReservationIds : reservations'[v].status # "RELEASED"
    <3>1. PICK sawNoRow \in BOOLEAN, answer \in CapacityReservation \cup {PENDING} :
              PlanReturns(w, sawNoRow, answer)
      BY <2>1 DEF PlanEffectOf
    <3>2. /\ \A v \in ReservationIds \ {w} : reservations'[v] = reservations[v]
          /\ Held(w)' \/ UNCHANGED storeVars
          /\ reactivated' = {}
      BY <1>0, <3>1, PlanEffect DEF WorkflowTypeOK
    <3> QED BY <3>2 DEF Held, ActiveReservationStatuses, storeVars
  <2>2. ASSUME NEW w \in ReservationIds, ActivateEffectOf(w)
        PROVE  /\ reactivated' = {}
               /\ \A v \in ReservationIds : reservations'[v].status # "RELEASED"
    <3>1. /\ reactivated' = {}
          /\ Held(w)'
          /\ \A v \in ReservationIds \ {w} : reservations'[v] = reservations[v]
      BY <1>0, <2>2, ActivatesHeld, HoldsBegin DEF ActivateEffectOf
    <3> QED BY <3>1 DEF Held, ActiveReservationStatuses
  <2>3. ASSUME NEW w \in ReservationIds, ReleaseEffectOf(w)
        PROVE  FALSE
    BY <2>3 DEF ReleaseEffectOf, Acting
  <2>4. CASE Restart
    BY <2>4 DEF Restart, EmptyTable, NoRow
  <2>5. CASE UNCHANGED storeVars
    BY <2>5 DEF storeVars
  <2> QED BY <1>0, <2>1, <2>2, <2>3, <2>4, <2>5, StoreEffect
<1>2. ASSUME NEW w \in ReservationIds, PlanAnswered(w)
      PROVE  late' = late /\ \A v \in ReservationIds : run'[v] # "release"
  <2>1. PICK answer \in CapacityReservation \cup {PENDING} :
            Proceed(w, CASE answer.status = "PENDING_CAPACITY" -> "pending"
                         [] answer.status = "RESERVED" -> "helm"
                         [] OTHER -> "stuck")
    BY <1>2 DEF PlanAnswered
  <2> QED BY <1>0, <2>1, PlanOutcome DEF Proceed
<1>3. ASSUME NEW w \in ReservationIds,
             \/ Start(w) \/ RetryTimer(w) \/ PlanLost(w)
             \/ HelmSucceeds(w) \/ HelmFails(w)
             \/ ActivateAnswered(w) \/ ActivateLost(w)
      PROVE  late' = late /\ \A v \in ReservationIds : run'[v] # "release"
  BY <1>0, <1>3
  DEF Start, RetryTimer, PlanLost, HelmSucceeds, HelmFails, ActivateAnswered, ActivateLost,
      Proceed, Retried
<1>4. ASSUME NEW w \in ReservationIds, GiveUp(w)
      PROVE  NothingReleased'
  <2>1. AttemptOf(w).activity # "release"
    BY DEF AttemptOf
  <2> QED BY <1>1, <1>4, <2>1 DEF GiveUp, MayGiveUp
<1>5. ASSUME NEW w \in ReservationIds, ReleaseAnswered(w) \/ ReleaseLost(w) \/ Cancel(w)
      PROVE  FALSE
  BY <1>5 DEF ReleaseAnswered, ReleaseLost, Attempting, Cancel
<1>6. ASSUME NEW l \in late, LateAttempt(l)
      PROVE  NothingReleased'
  BY <1>1, <1>6 DEF LateAttempt, runVars
<1>7. CASE WorkerRestart \/ UNCHANGED wfVars
  BY <1>0, <1>1, <1>7 DEF WorkerRestart, wfVars, runVars
<1> QED
  BY <1>0, <1>1, <1>2, <1>3, <1>4, <1>5, <1>6, <1>7 DEF WorkflowNext

\* The initial state satisfies both.
LEMMA OrderlyInit ==
    ASSUME WorkflowInit
    PROVE  OneWorkerInv /\ UnreleasedInv
<1>1. WorkflowTypeInv
  BY WorkflowAssumption
  DEF WorkflowInit, WorkflowTypeInv, WorkflowTypeOK, HasPlacement, StoreInit, EmptyTable,
      StoreTypeOK, RunStates
<1>2. StoreInv
  BY StoreInitInv DEF WorkflowInit
<1>3. NothingReleased
  BY DEF WorkflowInit, NothingReleased, StoreInit, EmptyTable, NoRow
<1> QED BY <1>1, <1>2, <1>3
        DEF WorkflowInit, OneWorkerInv, UnreleasedInv, StoreInit

LEMMA OneWorkerInvariant ==
    ASSUME ~LateAttempts
    PROVE  WorkflowSpec => []OneWorkerInv
<1>1. WorkflowInit => OneWorkerInv
  BY OrderlyInit
<1>2. OneWorkerInv /\ [WorkflowNext]_wfVars => OneWorkerInv'
  BY OneWorkerStep
<1> QED BY <1>1, <1>2, PTL DEF WorkflowSpec

\* With one worker, or with the memory store, no two attempts overlap within the
\* store: what the workflows do is a sequence of atomic calls and restarts
\* (activities.py:183-225, scheduler.py:175-206).
THEOREM WorkflowImplementsStore ==
    ~LateAttempts \/ ~Durable => (WorkflowSpec => StoreSpec)
<1>1. WorkflowInit => StoreInit
  BY DEF WorkflowInit
<1>2. WorkflowTypeInv /\ NothingOverlaps /\ [WorkflowNext]_wfVars => [StoreNext]_storeVars
  BY IsAtomicStep DEF WorkflowTypeInv
<1>3. CASE ~LateAttempts
  <2>1. OneWorkerInv => WorkflowTypeInv /\ NothingOverlaps
    BY DEF OneWorkerInv, NothingOverlaps, Planning, Held, Present, ActiveReservationStatuses
  <2> QED BY <1>1, <1>2, <1>3, <2>1, OneWorkerInvariant, PTL DEF WorkflowSpec, StoreSpec
<1>4. CASE ~Durable
  <2>1. NothingOverlaps
    BY <1>4 DEF NothingOverlaps
  <2>2. WorkflowTypeInv /\ [WorkflowNext]_wfVars => [StoreNext]_storeVars
    BY <1>2, <2>1
  <2> QED BY <1>1, <2>2, WorkflowTypeInvariant, PTL DEF WorkflowSpec, StoreSpec
<1> QED BY <1>3, <1>4

\* There a held reservation is never moved or resized,
\* whatever is retried, cancelled, restarted or started again
\* (scheduler.py:181-183, 361-379).
THEOREM WorkflowHoldsStay ==
    ~LateAttempts \/ ~Durable => (WorkflowSpec => HeldNeverMoves)
<1>1. ASSUME ~LateAttempts \/ ~Durable PROVE WorkflowSpec => HeldNeverMoves
  BY <1>1, WorkflowImplementsStore, HeldReservationsStay
<1> QED BY <1>1

LEMMA UnreleasedInvariant ==
    ASSUME ~Cancellations
    PROVE  WorkflowSpec => []UnreleasedInv
<1>1. WorkflowInit => UnreleasedInv
  BY OrderlyInit
<1>2. UnreleasedInv /\ [WorkflowNext]_wfVars => UnreleasedInv'
  BY UnreleasedStep
<1> QED BY <1>1, <1>2, PTL DEF WorkflowSpec

\* Unless workflows are cancelled where an attempt may also outlive its timeout,
\* no pool is overbooked, whatever is lost, restarted or started again: either
\* nothing is released, or nothing acts on a reservation after its release
\* (workflows.py:35-52, scheduler.py:208-214).
THEOREM WorkflowNoOverbooking ==
    ~(LateAttempts /\ Cancellations) => (WorkflowSpec => []NoOverbooking)
<1>1. StoreInv /\ reactivated = {} => NoOverbooking
  BY DEF StoreInv, OverbookingNeedsReactivation, NoOverbooking, UsedGpus, CheckedUnits
<1>2. OneWorkerInv \/ UnreleasedInv => NoOverbooking
  BY <1>1 DEF OneWorkerInv, UnreleasedInv
<1>3. CASE ~LateAttempts
  BY <1>2, <1>3, OneWorkerInvariant, PTL
<1>4. CASE ~Cancellations
  BY <1>2, <1>4, UnreleasedInvariant, PTL
<1> QED BY <1>3, <1>4

-----------------------------------------------------------------------------
(* Service *)

\* The reservation w is held with the pool and the size of a placement.
Agrees(w, reservation) ==
    /\ Held(w)
    /\ reservations[w].pool_id = reservation.pool_id
    /\ reservations[w].gpu_count = reservation.gpu_count

Serves(w) ==
    LET deployed == cluster[CustomerOf[w]]
    IN  \/ deployed = [allocation |-> w, pool_id |-> placement[w].pool_id]
        \/ deployed.allocation \in ReservationIds \ {w}

Deployed(w, c) == cluster[c] # Nothing /\ cluster[c].allocation = w

LateHelm(w, l) == l.allocation = w /\ l.activity = "helm"

\* Something acts on the placement of w: its run, a cluster or a late attempt.
Known(w) ==
    \/ run[w] \in {"helm", "activate", "active"}
    \/ \E c \in Customers : Deployed(w, c)
    \/ \E l \in late : LateHelm(w, l)

\* What was started for w in earlier runs agrees with its row, and releases
\* nothing.
TracesAgree(w) ==
    /\ \A l \in late : l.allocation = w =>
          /\ l.activity # "release"
          /\ l.activity = "helm" => Agrees(w, l.placement)
    /\ \A c \in Customers : Deployed(w, c) => HeldInPool(w, cluster[c].pool_id)

\* So does the run.
RunAgrees(w) ==
    /\ run[w] # "release"
    /\ run[w] \in {"helm", "activate", "active"} =>
          placement[w] \in CapacityReservation /\ Agrees(w, placement[w])
    /\ run[w] \in {"activate", "active"} => Serves(w)
    /\ run[w] = "active" => reservations[w].status = "ACTIVE"

\* The running plan attempt overwrites nothing that anything acts on.
BlindAgrees(w) == w \in blind => run[w] = "plan" /\ ~Known(w)

ServedOf(w) == TracesAgree(w) /\ RunAgrees(w) /\ BlindAgrees(w)

ServedInv == WorkflowTypeInv /\ \A w \in ReservationIds \ adrift : ServedOf(w)

\* What a step leaves of a row that something acts on.
RowStays(w) ==
    /\ Held(w) /\ Held(w)'
    /\ reservations'[w].pool_id = reservations[w].pool_id
    /\ reservations'[w].gpu_count = reservations[w].gpu_count
    /\ reservations[w].status = "ACTIVE" => reservations'[w].status = "ACTIVE"

LEMMA KnownIsHeld ==
    ASSUME NEW w \in ReservationIds, ServedOf(w), Known(w)
    PROVE  Held(w) /\ w \notin blind
BY DEF ServedOf, TracesAgree, RunAgrees, BlindAgrees, Known, Agrees, HeldInPool, LateHelm

\* Activating a row that is held keeps its pool and its size.
LEMMA ActivationKeepsRow ==
    ASSUME WorkflowTypeOK, NEW w \in ReservationIds, Held(w), MarkActive(w)
    PROVE  RowStays(w) /\ reservations'[w].status = "ACTIVE"
<1>1. /\ Held(w)'
      /\ reservations' = [reservations EXCEPT ![w].status = "ACTIVE"]
  BY ActivatesHeld DEF Held, ActiveReservationStatuses
<1>2. reservations[w] \in CapacityReservation
  BY DEF MarkActive, Present, NoRow, WorkflowTypeOK, StoreTypeOK
<1> QED BY <1>1, <1>2 DEF RowStays, WorkflowTypeOK, StoreTypeOK, CapacityReservation

\* No step changes such a row, unless it leaves w adrift.
LEMMA KnownRowStays ==
    ASSUME WorkflowTypeOK, [WorkflowNext]_wfVars,
           NEW w \in ReservationIds, ServedOf(w), Known(w), w \notin adrift'
    PROVE  RowStays(w)
<1>0. Held(w) /\ w \notin blind /\ \A l \in late : l.allocation \in ReservationIds
  BY KnownIsHeld DEF WorkflowTypeOK, Attempts
<1>1. reservations'[w] = reservations[w] => RowStays(w)
  BY <1>0 DEF RowStays, Held
<1>2. ASSUME NEW v \in ReservationIds,
             \/ Start(v) \/ RetryTimer(v) \/ HelmSucceeds(v) \/ HelmFails(v)
             \/ GiveUp(v) \/ Cancel(v)
      PROVE  reservations'[w] = reservations[w]
  BY <1>2 DEF Start, RetryTimer, HelmSucceeds, HelmFails, GiveUp, Cancel, storeVars
<1>3. ASSUME NEW v \in ReservationIds, PlanAnswered(v) \/ PlanLost(v)
      PROVE  reservations'[w] = reservations[w]
  <2>1. PICK answer \in CapacityReservation \cup {PENDING} :
            PlanReturns(v, v \in blind, answer) \/ UNCHANGED storeVars
    BY <1>3 DEF PlanAnswered, PlanLost
  <2>2. \E sawNoRow \in BOOLEAN :
            \/ sawNoRow = (v \in blind) /\ PlanReturns(v, sawNoRow, answer)
            \/ UNCHANGED storeVars
    BY <2>1, RunningPlan
  <2> QED BY <1>0, <2>2, PlanEffect DEF WorkflowTypeOK, storeVars
<1>4. ASSUME NEW v \in ReservationIds, MarkActive(v)
      PROVE  RowStays(w)
  <2>1. v # w => reservations'[w] = reservations[w]
    BY <1>4, HoldsBegin
  <2> QED BY <1>0, <1>1, <1>4, <2>1, ActivationKeepsRow
<1>5. ASSUME NEW v \in ReservationIds \ {w}, ReleaseIfPresent(v)
      PROVE  reservations'[w] = reservations[w]
  BY <1>5, HoldsBegin
<1>6. ASSUME NEW v \in ReservationIds, ActivateAnswered(v) \/ ActivateLost(v)
      PROVE  RowStays(w)
  BY <1>1, <1>4, <1>6 DEF ActivateAnswered, ActivateLost, storeVars
<1>7. ASSUME NEW v \in ReservationIds, ReleaseAnswered(v) \/ ReleaseLost(v)
      PROVE  reservations'[w] = reservations[w]
  <2>1. v # w
    BY <1>7 DEF ReleaseAnswered, ReleaseLost, Attempting, ServedOf, RunAgrees
  <2> QED BY <1>5, <1>7, <2>1 DEF ReleaseAnswered, ReleaseLost, storeVars
<1>8. ASSUME NEW l \in late, LateAttempt(l)
      PROVE  RowStays(w)
  <2>1. CASE l.activity = "plan"
    <3>1. l.allocation = w => reservations'[w] = reservations[w]
      BY <1>0, <1>8, <2>1 DEF LateAttempt
    <3>2. PICK answer \in CapacityReservation \cup {PENDING} :
              PlanReturns(l.allocation, l.blind, answer)
      BY <1>8, <2>1 DEF LateAttempt
    <3>3. l.blind \in BOOLEAN /\ l.allocation \in ReservationIds
      BY DEF WorkflowTypeOK, Attempts
    <3>4. l.allocation # w => reservations'[w] = reservations[w]
      BY <3>2, <3>3, PlanEffect DEF WorkflowTypeOK
    <3> QED BY <1>1, <3>1, <3>4
  <2>2. CASE l.activity = "helm"
    BY <1>1, <1>8, <2>2 DEF LateAttempt, storeVars
  <2>3. CASE l.activity = "activate"
    BY <1>0, <1>4, <1>8, <2>3 DEF LateAttempt
  <2>4. CASE l.activity = "release"
    <3>1. l.allocation # w
      BY <2>4 DEF ServedOf, TracesAgree
    <3> QED BY <1>0, <1>1, <1>5, <1>8, <2>4, <3>1 DEF LateAttempt
  <2> QED BY <1>8, <2>1, <2>2, <2>3, <2>4 DEF LateAttempt
<1>9. ~WorkerRestart
  BY <1>0 DEF WorkerRestart
<1>10. CASE UNCHANGED wfVars
  BY <1>1, <1>10 DEF wfVars, storeVars
<1> QED
  BY <1>1, <1>2, <1>3, <1>6, <1>7, <1>8, <1>9, <1>10 DEF WorkflowNext

\* The traces of w keep agreeing while their row stays, when what is added agrees.
LEMMA TracesStay ==
    ASSUME NEW w \in ReservationIds, TracesAgree(w), Known(w) => RowStays(w),
           \A l \in late' : l.allocation = w =>
              \/ l \in late
              \/ /\ l.activity # "release"
                 /\ l.activity = "helm" => Agrees(w, l.placement)',
           \A c \in Customers : Deployed(w, c)' =>
              cluster'[c] = cluster[c] \/ HeldInPool(w, cluster[c].pool_id)'
    PROVE  TracesAgree(w)'
<1>1. ASSUME NEW l \in late', l.allocation = w
      PROVE  l.activity # "release" /\ (l.activity = "helm" => Agrees(w, l.placement)')
  <2>1. CASE l \in late
    BY <1>1, <2>1 DEF TracesAgree, Known, LateHelm, Agrees, RowStays
  <2> QED BY <1>1, <2>1
<1>2. ASSUME NEW c \in Customers, Deployed(w, c)'
      PROVE  HeldInPool(w, cluster[c].pool_id)'
  <2>1. CASE cluster'[c] = cluster[c]
    <3>1. Deployed(w, c)
      BY <1>2, <2>1 DEF Deployed
    <3> QED BY <2>1, <3>1 DEF TracesAgree, Known, HeldInPool, RowStays, Held
  <2> QED BY <1>2, <2>1
<1> QED BY <1>1, <1>2 DEF TracesAgree

\* A step that leaves the run, the traces and the service of w where they are
\* keeps what ServedInv says of it.
LEMMA ServedStays ==
    ASSUME NEW w \in ReservationIds, ServedOf(w), Known(w) => RowStays(w),
           run'[w] = run[w], placement'[w] = placement[w],
           \A l \in late' : l.allocation = w => l \in late,
           \A c \in Customers : Deployed(w, c)' => cluster'[c] = cluster[c],
           Serves(w) => Serves(w)',
           w \in blind' => w \in blind
    PROVE  ServedOf(w)'
<1>1. TracesAgree(w)'
  BY TracesStay DEF ServedOf
<1>2. RunAgrees(w)'
  BY DEF ServedOf, RunAgrees, Known, Agrees, RowStays
<1>3. Known(w)' => Known(w)
  BY DEF Known, LateHelm, Deployed
<1> QED BY <1>1, <1>2, <1>3 DEF ServedOf, BlindAgrees

\* What an action of w, or a late attempt of w, leaves to the others.
Spares(w) ==
    /\ \A v \in ReservationIds \ {w} :
          run'[v] = run[v] /\ placement'[v] = placement[v]
    /\ \A l \in late' : l.allocation = w \/ l \in late
    /\ cluster' = cluster \/ \E r \in CapacityReservation : Deploy(w, r)
    /\ \A v \in blind' : v = w \/ v \in blind
    /\ adrift \subseteq adrift'

LEMMA OthersServed ==
    ASSUME WorkflowTypeOK, [WorkflowNext]_wfVars, NEW w \in ReservationIds, Spares(w),
           NEW v \in ReservationIds \ {w}, ServedOf(v), v \notin adrift'
    PROVE  ServedOf(v)'
<1>1. Known(v) => RowStays(v)
  BY KnownRowStays
<1>2. \A c \in Customers : cluster'[c] = cluster[c] \/ cluster'[c].allocation = w
  <2>1. ASSUME NEW r \in CapacityReservation, Deploy(w, r), NEW c \in Customers
        PROVE  cluster'[c] = cluster[c] \/ cluster'[c].allocation = w
    BY <2>1 DEF Deploy, WorkflowTypeOK
  <2> QED BY <2>1 DEF Spares
<1>3. CustomerOf[v] \in Customers
  BY DEF Customers
<1>4. Serves(v) => Serves(v)'
  BY <1>2, <1>3 DEF Serves, Spares
<1>5. \A c \in Customers : Deployed(v, c)' => cluster'[c] = cluster[c]
  BY <1>2 DEF Deployed
<1> QED BY <1>1, <1>4, <1>5, ServedStays DEF Spares

LEMMA StepsSpare ==
    ASSUME WorkflowTypeInv, NEW w \in ReservationIds,
           \/ Start(w) \/ RetryTimer(w) \/ PlanAnswered(w) \/ PlanLost(w)
           \/ HelmSucceeds(w) \/ HelmFails(w)
           \/ ActivateAnswered(w) \/ ActivateLost(w)
           \/ ReleaseAnswered(w) \/ ReleaseLost(w)
           \/ GiveUp(w) \/ Cancel(w)
    PROVE  Spares(w)
<1> USE DEF Spares, historyVars
<1>0. /\ run \in [ReservationIds -> RunStates]
      /\ placement \in [ReservationIds -> CapacityReservation \cup {NoRow, PENDING}]
      /\ run[w] = "helm" => placement[w] \in CapacityReservation
  BY DEF WorkflowTypeInv, WorkflowTypeOK, HasPlacement
<1>1. AttemptOf(w).allocation = w
  BY DEF AttemptOf
<1>2. CASE Start(w) \/ RetryTimer(w)
  BY <1>0, <1>2 DEF Start, RetryTimer, BeginAttempt
<1>3. CASE PlanAnswered(w)
  BY <1>0, <1>3 DEF PlanAnswered, Proceed
<1>4. CASE PlanLost(w) \/ ActivateLost(w) \/ ReleaseLost(w)
  BY <1>4 DEF PlanLost, ActivateLost, ReleaseLost, Retried
<1>5. CASE HelmSucceeds(w) \/ HelmFails(w)
  BY <1>0, <1>5 DEF HelmSucceeds, HelmFails, Attempting, Proceed, Retried
<1>6. CASE ActivateAnswered(w) \/ ReleaseAnswered(w)
  BY <1>0, <1>6 DEF ActivateAnswered, ReleaseAnswered, Proceed
<1>7. CASE GiveUp(w) \/ Cancel(w)
  BY <1>0, <1>1, <1>7 DEF GiveUp, Cancel
<1> QED BY <1>2, <1>3, <1>4, <1>5, <1>6, <1>7

\* A deployment of a placement that agrees with the row of w serves w.
LEMMA DeployServes ==
    ASSUME WorkflowTypeOK, NEW w \in ReservationIds, NEW r \in CapacityReservation,
           Deploy(w, r), Agrees(w, r), RowStays(w)
    PROVE  /\ cluster'[CustomerOf[w]] = [allocation |-> w, pool_id |-> r.pool_id]
           /\ \A c \in Customers : Deployed(w, c)' =>
                 cluster'[c] = cluster[c] \/ HeldInPool(w, cluster[c].pool_id)'
<1>1. CustomerOf[w] \in Customers
  BY DEF Customers
<1>2. /\ cluster'[CustomerOf[w]] = [allocation |-> w, pool_id |-> r.pool_id]
      /\ \A c \in Customers \ {CustomerOf[w]} : cluster'[c] = cluster[c]
  BY <1>1 DEF Deploy, WorkflowTypeOK
<1>3. HeldInPool(w, cluster[CustomerOf[w]].pool_id)'
  BY <1>2 DEF Agrees, RowStays, HeldInPool, Held
<1> QED BY <1>2, <1>3

\* Every step keeps what is served and what runs in line with the table, for
\* every allocation that it does not leave adrift.
LEMMA ServedStep ==
    ASSUME ServedInv, [WorkflowNext]_wfVars
    PROVE  ServedInv'
<1> USE DEF ServedInv, historyVars, runVars
<1>0. /\ WorkflowTypeInv' /\ WorkflowTypeOK
      /\ run \in [ReservationIds -> RunStates]
      /\ placement \in [ReservationIds -> CapacityReservation \cup {NoRow, PENDING}]
      /\ \A l \in late : l.allocation \in ReservationIds
  BY WorkflowTypeStep DEF WorkflowTypeInv, WorkflowTypeOK, Attempts
<1>1. ASSUME NEW w \in ReservationIds, w \notin adrift', ServedOf(w)
      PROVE  Known(w) => RowStays(w)
  BY <1>0, <1>1, KnownRowStays
<1>2. ASSUME NEW w \in ReservationIds, Spares(w),
             w \notin adrift' /\ ServedOf(w) => ServedOf(w)'
      PROVE  ServedInv'
  <2>1. ASSUME NEW v \in ReservationIds \ adrift' PROVE ServedOf(v)'
    <3>1. ServedOf(v)
      BY <1>2 DEF Spares
    <3> QED BY <1>0, <1>2, <3>1, OthersServed
  <2> QED BY <1>0, <2>1
<1>3. ASSUME NEW w \in ReservationIds, ServedOf(w), w \notin adrift',
             Start(w) \/ RetryTimer(w)
      PROVE  ServedOf(w)'
  <2>1. /\ UNCHANGED <<late, cluster, storeVars>>
        /\ run'[w] = "plan" \/ UNCHANGED <<run, placement>>
        /\ w \in blind' => w \in blind \/ (run'[w] = "plan" /\ ~Present(w))
    BY <1>0, <1>3 DEF Start, RetryTimer, BeginAttempt
  <2>2. TracesAgree(w)'
    BY <1>1, <1>3, <2>1, TracesStay DEF ServedOf
  <2>3. RunAgrees(w)'
    BY <1>3, <2>1 DEF ServedOf, RunAgrees, Agrees, Held, Serves, storeVars
  <2>4. Known(w)' => Known(w)
    BY <2>1 DEF Known, Deployed, LateHelm
  <2>5. w \in blind' => run'[w] = "plan" /\ ~Known(w)
    <3>1. CASE w \in blind
      BY <1>3, <2>1, <3>1 DEF ServedOf, BlindAgrees
    <3>2. CASE w \notin blind
      BY <1>3, <2>1, <3>2, KnownIsHeld DEF Held, Present, ActiveReservationStatuses
    <3> QED BY <3>1, <3>2
  <2> QED BY <2>2, <2>3, <2>4, <2>5 DEF ServedOf, BlindAgrees
<1>4. ASSUME NEW w \in ReservationIds, ServedOf(w), w \notin adrift',
             PlanLost(w) \/ ActivateLost(w)
      PROVE  ServedOf(w)'
  <2>1. /\ UNCHANGED <<run, placement, late, cluster>>
        /\ blind' \subseteq blind
    BY <1>4 DEF PlanLost, ActivateLost, Retried
  <2> QED BY <1>1, <1>4, <2>1, ServedStays DEF Serves
<1>5. ASSUME NEW w \in ReservationIds, ServedOf(w), w \notin adrift', PlanAnswered(w)
      PROVE  ServedOf(w)'
  <2>1. PICK answer \in CapacityReservation \cup {PENDING} :
            /\ PlanReturns(w, w \in blind, answer)
            /\ placement' = [placement EXCEPT ![w] = answer]
            /\ Proceed(w, CASE answer.status = "PENDING_CAPACITY" -> "pending"
                            [] answer.status = "RESERVED" -> "helm"
                            [] OTHER -> "stuck")
    BY <1>5 DEF PlanAnswered
  <2>2. UNCHANGED <<late, cluster>> /\ w \notin blind'
    BY <1>5, <2>1 DEF PlanAnswered, Proceed
  <2>3. \/ run'[w] \in {"pending", "stuck"}
        \/ answer \in CapacityReservation /\ run'[w] = "helm"
    BY <1>0, <2>1, PlanOutcome
  <2>4. answer \in CapacityReservation => Held(w)' /\ reservations'[w] = answer
    BY <1>0, <2>1, RunningPlan, PlanEffect DEF WorkflowTypeOK
  <2>5. TracesAgree(w)'
    BY <1>1, <1>5, <2>2, TracesStay DEF ServedOf
  <2>6. RunAgrees(w)'
    BY <1>0, <2>1, <2>3, <2>4 DEF RunAgrees, Agrees
  <2> QED BY <2>2, <2>5, <2>6 DEF ServedOf, BlindAgrees
<1>6. ASSUME NEW w \in ReservationIds, ServedOf(w), w \notin adrift', ActivateAnswered(w)
      PROVE  ServedOf(w)'
  <2>1. /\ run[w] = "activate" /\ run'[w] = "active"
        /\ UNCHANGED <<placement, late, cluster>>
        /\ MarkActive(w)
        /\ w \notin blind'
    BY <1>0, <1>6 DEF ActivateAnswered, Attempting, Proceed
  <2>2. RowStays(w)
    BY <1>1, <1>6, <2>1 DEF Known
  <2>3. reservations'[w].status = "ACTIVE"
    BY <1>0, <2>1, <2>2, ActivationKeepsRow DEF RowStays
  <2>4. TracesAgree(w)'
    BY <1>6, <2>1, <2>2, TracesStay DEF ServedOf
  <2>5. RunAgrees(w)'
    BY <1>6, <2>1, <2>2, <2>3 DEF ServedOf, RunAgrees, Agrees, RowStays, Serves
  <2> QED BY <2>1, <2>4, <2>5 DEF ServedOf, BlindAgrees
<1>7. ASSUME NEW w \in ReservationIds, ServedOf(w), w \notin adrift',
             HelmSucceeds(w) \/ HelmFails(w)
      PROVE  ServedOf(w)'
  <2>1. /\ run[w] = "helm"
        /\ UNCHANGED <<placement, late>>
        /\ w \notin blind'
        /\ \/ Deploy(w, placement[w]) /\ run'[w] \in {"activate", "helm"}
           \/ cluster' = cluster /\ run'[w] = "helm"
    BY <1>0, <1>7 DEF HelmSucceeds, HelmFails, Attempting, Proceed, Retried
  <2>2. PICK r \in CapacityReservation : r = placement[w]
    BY <1>7, <2>1 DEF ServedOf, RunAgrees
  <2>3. Agrees(w, r) /\ RowStays(w)
    BY <1>1, <1>7, <2>1, <2>2 DEF ServedOf, RunAgrees, Known
  <2>4. Agrees(w, r)'
    BY <2>3 DEF Agrees, RowStays
  <2>5. CASE Deploy(w, r) /\ run'[w] \in {"activate", "helm"}
    <3>1. /\ cluster'[CustomerOf[w]] = [allocation |-> w, pool_id |-> r.pool_id]
          /\ \A c \in Customers : Deployed(w, c)' =>
                cluster'[c] = cluster[c] \/ HeldInPool(w, cluster[c].pool_id)'
      BY <1>0, <2>3, <2>5, DeployServes
    <3>2. TracesAgree(w)'
      BY <1>7, <2>1, <2>3, <3>1, TracesStay DEF ServedOf
    <3>3. Serves(w)'
      BY <2>1, <2>2, <3>1 DEF Serves
    <3>4. RunAgrees(w)'
      BY <2>1, <2>2, <2>4, <2>5, <3>3 DEF RunAgrees
    <3> QED BY <2>1, <3>2, <3>4 DEF ServedOf, BlindAgrees
  <2>6. CASE cluster' = cluster /\ run'[w] = "helm"
    BY <1>7, <2>1, <2>3, <2>6, ServedStays DEF Serves
  <2> QED BY <2>1, <2>2, <2>5, <2>6
<1>8. ASSUME NEW w \in ReservationIds, ServedOf(w), ReleaseAnswered(w) \/ ReleaseLost(w)
      PROVE  FALSE
  BY <1>8 DEF ReleaseAnswered, ReleaseLost, Attempting, ServedOf, RunAgrees
<1>9. ASSUME NEW w \in ReservationIds, ServedOf(w), w \notin adrift', GiveUp(w) \/ Cancel(w)
      PROVE  ServedOf(w)'
  <2>1. /\ UNCHANGED <<placement, cluster, storeVars>>
        /\ w \notin blind'
        /\ late' \subseteq late \cup {AttemptOf(w)}
        /\ run'[w] = run[w] \/ (run[w] = "plan" /\ run'[w] = "failed")
    BY <1>0, <1>9 DEF GiveUp, Cancel
  <2>2. /\ AttemptOf(w).activity = run[w]
        /\ AttemptOf(w).placement = placement[w]
    BY DEF AttemptOf
  <2>3. /\ run[w] # "release"
        /\ run[w] = "helm" => Agrees(w, placement[w])
    BY <1>9 DEF ServedOf, RunAgrees
  <2>4. run[w] = "helm" => Agrees(w, placement[w])'
    BY <2>1, <2>3 DEF Agrees, Held, storeVars
  <2>5. TracesAgree(w)'
    BY <1>1, <1>9, <2>1, <2>2, <2>3, <2>4, TracesStay DEF ServedOf
  <2>6. RunAgrees(w)'
    BY <1>9, <2>1 DEF ServedOf, RunAgrees, Agrees, Held, Serves, storeVars
  <2> QED BY <2>1, <2>5, <2>6 DEF ServedOf, BlindAgrees
<1>10. ASSUME NEW l \in late, LateAttempt(l), NEW w \in ReservationIds, w = l.allocation
       PROVE  Spares(w) /\ (w \notin adrift' /\ ServedOf(w) => ServedOf(w)')
  <2>1. /\ UNCHANGED <<run, placement, blind>>
        /\ late' \subseteq late /\ adrift \subseteq adrift'
        /\ cluster' = cluster \/ (l.activity = "helm" /\ Deploy(w, l.placement))
    BY <1>10 DEF LateAttempt
  <2>2. CASE cluster' = cluster
    <3>1. Spares(w)
      BY <2>1, <2>2 DEF Spares
    <3>2. w \notin adrift' /\ ServedOf(w) => ServedOf(w)'
      BY <1>1, <2>1, <2>2, ServedStays DEF Serves
    <3> QED BY <3>1, <3>2
  <2>3. CASE l.activity = "helm" /\ Deploy(w, l.placement)
    <3>1. PICK r \in CapacityReservation : r = l.placement
      BY <2>3 DEF WorkflowTypeInv, HasPlacement
    <3>2. Spares(w)
      BY <2>1, <2>3, <3>1 DEF Spares
    <3>3. ASSUME w \notin adrift', ServedOf(w)
          PROVE  ServedOf(w)'
      <4>1. Agrees(w, r) /\ RowStays(w)
        BY <1>1, <1>10, <2>3, <3>1, <3>3 DEF ServedOf, TracesAgree, Known, LateHelm
      <4>2. /\ cluster'[CustomerOf[w]] = [allocation |-> w, pool_id |-> r.pool_id]
            /\ \A c \in Customers : Deployed(w, c)' =>
                  cluster'[c] = cluster[c] \/ HeldInPool(w, cluster[c].pool_id)'
        BY <1>0, <2>3, <3>1, <4>1, DeployServes
      <4>3. TracesAgree(w)'
        BY <2>1, <3>3, <4>1, <4>2, TracesStay DEF ServedOf
      <4>4. run[w] \in {"activate", "active"} => Serves(w)'
        BY <2>1, <3>3, <4>1, <4>2 DEF ServedOf, RunAgrees, Agrees, Serves
      <4>5. RunAgrees(w)'
        BY <2>1, <3>3, <4>1, <4>4 DEF ServedOf, RunAgrees, Agrees, RowStays
      <4>6. w \notin blind'
        BY <1>10, <2>1, <2>3, <3>3, KnownIsHeld DEF Known, LateHelm
      <4> QED BY <4>3, <4>5, <4>6 DEF ServedOf, BlindAgrees
    <3> QED BY <3>2, <3>3
  <2> QED BY <2>1, <2>2, <2>3
<1>11. CASE WorkerRestart \/ UNCHANGED wfVars
  <2>1. /\ UNCHANGED <<run, placement, late, cluster, blind>>
        /\ adrift \subseteq adrift'
    BY <1>11 DEF WorkerRestart, wfVars
  <2>2. ASSUME NEW w \in ReservationIds \ adrift' PROVE ServedOf(w)'
    <3>1. ServedOf(w)
      BY <2>1
    <3> QED BY <1>1, <2>1, <3>1, ServedStays DEF Serves
  <2> QED BY <1>0, <2>2
<1>12. ASSUME NEW w \in ReservationIds,
              \/ Start(w) \/ RetryTimer(w) \/ PlanAnswered(w) \/ PlanLost(w)
              \/ HelmSucceeds(w) \/ HelmFails(w)
              \/ ActivateAnswered(w) \/ ActivateLost(w)
              \/ ReleaseAnswered(w) \/ ReleaseLost(w)
              \/ GiveUp(w) \/ Cancel(w)
       PROVE  ServedInv'
  <2>1. Spares(w)
    BY <1>12, StepsSpare
  <2>2. w \notin adrift' /\ ServedOf(w) => ServedOf(w)'
    BY <1>3, <1>4, <1>5, <1>6, <1>7, <1>8, <1>9, <1>12
  <2> QED BY <1>2, <2>1, <2>2
<1>13. ASSUME NEW l \in late, LateAttempt(l)
       PROVE  ServedInv'
  <2>1. PICK w \in ReservationIds : w = l.allocation
    BY <1>0
  <2> QED BY <1>2, <1>10, <1>13, <2>1
<1> QED BY <1>11, <1>12, <1>13 DEF WorkflowNext

LEMMA ServedInvariant == WorkflowSpec => []ServedInv
<1>1. WorkflowInit => ServedInv
  <2> SUFFICES ASSUME WorkflowInit PROVE ServedInv
    OBVIOUS
  <2>1. WorkflowTypeInv
    BY OrderlyInit DEF OneWorkerInv
  <2> QED BY <2>1 DEF WorkflowInit, ServedInv, ServedOf, TracesAgree, RunAgrees, BlindAgrees,
                      Deployed, Nothing
<1>2. ServedInv /\ [WorkflowNext]_wfVars => ServedInv'
  BY ServedStep
<1> QED BY <1>1, <1>2, PTL DEF WorkflowSpec

\* For either store, any number of workers, customers, cancellations, repeated
\* starts, lost answers and late attempts: an allocation that reports ACTIVE is
\* reserved with the placement it was told, and its customer's release runs it or
\* another allocation that has replaced it, unless a cancellation, a restart or
\* a late plan attempt has set it adrift (workflows.py:32-58,
\* activities.py:247-293, scheduler.py:395-438).
THEOREM WorkflowServes == WorkflowSpec => []ActiveIsServed
<1>1. ServedInv => ActiveIsServed
  <2> SUFFICES ASSUME ServedInv PROVE ActiveIsServed
    OBVIOUS
  <2>1. ASSUME NEW w \in ReservationIds \ adrift, run[w] = "active"
        PROVE  /\ reservations[w] = [placement[w] EXCEPT !.status = "ACTIVE"]
               /\ Serves(w)
    <3>1. /\ placement[w] \in CapacityReservation
          /\ Agrees(w, placement[w])
          /\ reservations[w].status = "ACTIVE"
          /\ Serves(w)
      BY <2>1 DEF ServedInv, ServedOf, RunAgrees
    <3>2. reservations[w] \in CapacityReservation
      BY <3>1 DEF ServedInv, NoRow, WorkflowTypeInv, WorkflowTypeOK, StoreTypeOK
    <3>3. reservations[w] = [pool_id |-> placement[w].pool_id,
                             gpu_count |-> placement[w].gpu_count, status |-> "ACTIVE"]
      BY <3>1, <3>2 DEF Agrees, CapacityReservation
    <3>4. [placement[w] EXCEPT !.status = "ACTIVE"] =
              [pool_id |-> placement[w].pool_id,
               gpu_count |-> placement[w].gpu_count, status |-> "ACTIVE"]
      BY <3>1 DEF CapacityReservation
    <3> QED BY <3>1, <3>3, <3>4
  <2> QED BY <2>1 DEF ActiveIsServed, Serves
<1> QED BY <1>1, ServedInvariant, PTL

\* Under the same conditions, whatever a cluster runs, half-installed releases
\* and the releases of late attempts included, runs on the GPUs of a reservation
\* that is held in the pool it runs in, unless the allocation was set adrift
\* (workflows.py:32-52, scheduler.py:395-438).
THEOREM WorkflowDeploysReserved == WorkflowSpec => []DeployedIsReserved
<1>1. ServedInv => DeployedIsReserved
  <2> SUFFICES ASSUME ServedInv PROVE DeployedIsReserved
    OBVIOUS
  <2>1. ASSUME NEW c \in Customers, cluster[c] # Nothing,
               cluster[c].allocation \notin adrift
        PROVE  HeldInPool(cluster[c].allocation, cluster[c].pool_id)
    <3>1. cluster[c].allocation \in ReservationIds
      BY <2>1 DEF ServedInv, WorkflowTypeInv, WorkflowTypeOK, Deployments
    <3> QED BY <2>1, <3>1 DEF ServedInv, ServedOf, TracesAgree, Deployed
  <2> QED BY <2>1 DEF DeployedIsReserved
<1> QED BY <1>1, ServedInvariant, PTL

-----------------------------------------------------------------------------
(* The life of an allocation *)

\* A row has the size its allocation asks for.
SizedRows ==
    \A w \in ReservationIds : Present(w) => reservations[w].gpu_count = Demand[w]

LEMMA SizedStep ==
    ASSUME WorkflowTypeOK, SizedRows, [WorkflowNext]_wfVars
    PROVE  SizedRows'
<1> USE DEF SizedRows, Present
<1>0. /\ reservations \in [ReservationIds -> CapacityReservation \cup {NoRow}]
      /\ \A w \in ReservationIds : Present(w) => reservations[w] \in CapacityReservation
  BY DEF WorkflowTypeOK, StoreTypeOK, NoRow
<1>1. ASSUME NEW w \in ReservationIds, PlanEffectOf(w)
      PROVE  SizedRows'
  BY <1>0, <1>1
  DEF PlanEffectOf, PlanReturns, ReserveExisting, ReserveNew, Overwrite, storeVars
<1>2. ASSUME NEW w \in ReservationIds, NEW s,
             Present(w), reservations' = [reservations EXCEPT ![w].status = s]
      PROVE  SizedRows'
  <2>1. reservations'[w].gpu_count = reservations[w].gpu_count
    BY <1>0, <1>2 DEF CapacityReservation
  <2> QED BY <1>0, <1>2, <2>1
<1>3. ASSUME NEW w \in ReservationIds, ActivateEffectOf(w) \/ ReleaseEffectOf(w)
      PROVE  SizedRows'
  BY <1>2, <1>3
  DEF ActivateEffectOf, ReleaseEffectOf, MarkActive, ReleaseIfPresent, Release, storeVars
<1>4. CASE Restart
  BY <1>4 DEF Restart, EmptyTable, NoRow
<1>5. CASE UNCHANGED storeVars
  BY <1>5 DEF storeVars
<1> QED BY <1>1, <1>3, <1>4, <1>5, StoreEffect

\* What an allocation is granted: the pool of its row, if that is held.
LEMMA GrantOfRow ==
    ASSUME StoreTypeOK, NEW w \in ReservationIds
    PROVE  GrantNow[w] = IF Held(w) THEN {reservations[w].pool_id} ELSE {}
<1>1. Held(w) => reservations[w].pool_id \in Pools
  BY DEF Held, StoreTypeOK, NoRow, ActiveReservationStatuses, CapacityReservation
<1> QED BY <1>1 DEF GrantNow, HeldInPool

\* Cardinality is the same operator in both modules.
LEMMA LifeCardinality ==
    ASSUME NEW S
    PROVE  Life!Cardinality(S) = Cardinality(S)
BY Zenon DEF Life!Cardinality, Cardinality

\* The GPUs held in a pool and those granted there are the same.
LEMMA GrantedAreHeld ==
    ASSUME StoreTypeOK, SizedRows, NEW w \in ReservationIds, NEW p \in Pools,
           HasRoom(p, Demand[w])
    PROVE  Life!HasRoomFor(w, p)
<1>1. ASSUME NEW u \in ReservationIds \X GpuCounts
      PROVE  HeldInPool(u[1], p) /\ u[2] <= reservations[u[1]].gpu_count
                <=> p \in GrantNow[u[1]] /\ u[2] <= Demand[u[1]]
  <2>1. HeldInPool(u[1], p) <=> p \in GrantNow[u[1]]
    BY DEF GrantNow
  <2>2. HeldInPool(u[1], p) => reservations[u[1]].gpu_count = Demand[u[1]]
    BY DEF SizedRows, HeldInPool, Held, Present, ActiveReservationStatuses
  <2> QED BY <2>1, <2>2
<1>2. HeldUnits(p) = Life!GrantedUnits(p)
  BY <1>1 DEF HeldUnits, Life!GrantedUnits, GpuCounts
<1> QED BY <1>2, LifeCardinality DEF Life!HasRoomFor, HasRoom, UsedGpus, TotalGpus

\* A new row, or an overwritten one, is a grant in its pool.
LEMMA RowGrants ==
    ASSUME StoreTypeOK, NEW w \in ReservationIds, NEW p \in Pools, NEW s \in {"RESERVED", "ACTIVE"},
           NEW n,
           reservations' = [reservations EXCEPT
               ![w] = [pool_id |-> p, gpu_count |-> n, status |-> s]]
    PROVE  GrantNow' = [GrantNow EXCEPT ![w] = {p}]
<1>1. Held(w)' /\ reservations'[w].pool_id = p
  BY DEF Held, ActiveReservationStatuses, StoreTypeOK
<1>2. \A q \in Pools : HeldInPool(w, q)' <=> q = p
  BY <1>1 DEF HeldInPool, Held
<1>3. \A v \in ReservationIds \ {w}, q \in Pools : HeldInPool(v, q)' <=> HeldInPool(v, q)
  BY DEF HeldInPool, Held, StoreTypeOK
<1> QED BY <1>2, <1>3 DEF GrantNow

\* A plan attempt takes a grant, exchanges one if it saw no row, or leaves every
\* grant as it is; and it answers with a reservation only where GPUs are granted.
LEMMA PlanGrants ==
    ASSUME StoreTypeOK, SizedRows, NEW w \in ReservationIds, NEW sawNoRow \in BOOLEAN,
           NEW answer \in CapacityReservation \cup {PENDING},
           PlanReturns(w, sawNoRow, answer),
           sawNoRow /\ Held(w) => LateAttempts
    PROVE  \/ /\ Life!Take(w) \/ Life!Exchange(w)
              /\ answer \in CapacityReservation /\ answer.status = "RESERVED"
           \/ /\ GrantNow' = GrantNow
              /\ answer \in CapacityReservation => GrantNow[w] # {}
              /\ answer = PENDING => GrantNow[w] = {} \/ w \in unseen
<1>0. PENDING \notin CapacityReservation
  BY DEF PENDING, CapacityReservation, Statuses, ActiveReservationStatuses
<1>1. CASE ReserveExisting(w) /\ answer = reservations[w]
  <2>1. GrantNow' = GrantNow
    BY <1>1 DEF ReserveExisting, storeVars, GrantNow, HeldInPool, Held
  <2>2. answer # PENDING
    BY <1>1 DEF ReserveExisting, PENDING, Held, ActiveReservationStatuses
  <2> QED BY <1>1, <2>1, <2>2, GrantOfRow DEF ReserveExisting
<1>2. ASSUME NEW p \in Pools,
             ReserveNew(w, p, Demand[w]) \/ (sawNoRow /\ Overwrite(w, p, Demand[w])),
             answer = [pool_id |-> p, gpu_count |-> Demand[w], status |-> "RESERVED"]
      PROVE  /\ Life!Take(w) \/ Life!Exchange(w)
             /\ answer \in CapacityReservation /\ answer.status = "RESERVED"
  <2>1. /\ HasRoom(p, Demand[w])
        /\ reservations' = [reservations EXCEPT
               ![w] = [pool_id |-> p, gpu_count |-> Demand[w], status |-> "RESERVED"]]
        /\ ~Held(w) \/ (Held(w) /\ Durable /\ LateAttempts)
    BY <1>2 DEF ReserveNew, Overwrite
  <2>2. Life!HasRoomFor(w, p) /\ GrantNow' = [GrantNow EXCEPT ![w] = {p}]
    BY <2>1, GrantedAreHeld, RowGrants
  <2>3. ~Held(w) => GrantNow[w] = {}
    BY GrantOfRow
  <2>4. Held(w) => GrantNow[w] # {}
    BY GrantOfRow
  <2>5. Life!Take(w) \/ Life!Exchange(w)
    BY <2>1, <2>2, <2>3, <2>4 DEF Life!Take, Life!Exchange, Life!Pools, Pools
  <2>6. answer # PENDING /\ answer.status = "RESERVED"
    BY <1>2 DEF PENDING
  <2> QED BY <2>5, <2>6
<1>3. CASE /\ ~Held(w) \/ w \in unseen
           /\ UNCHANGED storeVars
           /\ answer = PENDING
  <2>1. GrantNow' = GrantNow
    BY <1>3 DEF storeVars, GrantNow, HeldInPool, Held
  <2> QED BY <1>0, <1>3, <2>1, GrantOfRow
<1> QED BY <1>1, <1>2, <1>3 DEF PlanReturns

\* Activating a row that was not released leaves every grant as it is.
LEMMA ActivateGrants ==
    ASSUME WorkflowTypeOK, NEW w \in ReservationIds,
           reservations[w].status # "RELEASED", MarkActive(w)
    PROVE  GrantNow' = GrantNow /\ GrantNow[w] # {}
<1>1. /\ Held(w) /\ Held(w)'
      /\ reservations' = [reservations EXCEPT ![w].status = "ACTIVE"]
  BY ActivatesHeld
<1>2. reservations'[w].pool_id = reservations[w].pool_id
  BY <1>1 DEF WorkflowTypeOK, StoreTypeOK, CapacityReservation, NoRow, Held,
              ActiveReservationStatuses
<1>3. \A v \in ReservationIds \ {w} : reservations'[v] = reservations[v]
  BY HoldsBegin
<1>4. \A v \in ReservationIds, p \in Pools : HeldInPool(v, p)' <=> HeldInPool(v, p)
  BY <1>1, <1>2, <1>3 DEF HeldInPool, Held
<1> QED BY <1>1, <1>4, GrantOfRow DEF GrantNow, WorkflowTypeOK

\* Activating a released row grants again what was given back.
LEMMA ReactivateGrants ==
    ASSUME WorkflowTypeOK, NEW w \in ReservationIds, LateAttempts, Cancellations,
           reservations[w].status = "RELEASED", MarkActive(w)
    PROVE  Life!Regrant(w)
<1>1. reservations[w] \in CapacityReservation
  BY DEF MarkActive, Present, NoRow, WorkflowTypeOK, StoreTypeOK
<1>2. PICK p \in Pools : p = reservations[w].pool_id
  BY <1>1 DEF CapacityReservation
<1>3. PICK n : n = reservations[w].gpu_count
  OBVIOUS
<1>4. [reservations[w] EXCEPT !.status = "ACTIVE"] =
          [pool_id |-> p, gpu_count |-> n, status |-> "ACTIVE"]
  BY <1>1, <1>2, <1>3 DEF CapacityReservation
<1>5. reservations' = [reservations EXCEPT
          ![w] = [pool_id |-> p, gpu_count |-> n, status |-> "ACTIVE"]]
  BY <1>4 DEF MarkActive
<1>6. GrantNow' = [GrantNow EXCEPT ![w] = {p}]
  BY <1>5, RowGrants DEF WorkflowTypeOK
<1>7. GrantNow[w] = {}
  BY GrantOfRow DEF WorkflowTypeOK, Held, ActiveReservationStatuses
<1> QED BY <1>6, <1>7 DEF Life!Regrant, Life!Straggling, Life!Pools, Pools

\* A release gives the grant back.
LEMMA ReleaseGrants ==
    ASSUME WorkflowTypeOK, NEW w \in ReservationIds, ReleaseIfPresent(w)
    PROVE  GrantNow' = [GrantNow EXCEPT ![w] = {}]
<1>1. ~Held(w)' /\ \A v \in ReservationIds \ {w} : reservations'[v] = reservations[v]
  BY ReleaseHolds, HoldsBegin
<1>2. /\ \A p \in Pools : ~HeldInPool(w, p)'
      /\ \A v \in ReservationIds \ {w}, p \in Pools :
            HeldInPool(v, p)' <=> HeldInPool(v, p)
  BY <1>1 DEF HeldInPool, Held
<1> QED BY <1>2 DEF GrantNow

\* How the phase of an allocation follows the run of its workflow.
LEMMA PhaseMoves ==
    ASSUME run \in [ReservationIds -> RunStates], NEW w \in ReservationIds,
           NEW next \in RunStates, run' = [run EXCEPT ![w] = next]
    PROVE  /\ next \in Closed \cup {"stuck", "absent"} =>
                PhaseNow' = [PhaseNow EXCEPT ![w] = next]
           /\ next = "plan" => PhaseNow' = [PhaseNow EXCEPT ![w] = "planning"]
           /\ next \in {"helm", "activate", "release"} =>
                PhaseNow' = [PhaseNow EXCEPT ![w] = "placed"]
<1>1. PhaseNow' = [PhaseNow EXCEPT ![w] = PhaseOf(w)']
  BY DEF PhaseNow, PhaseOf
<1>2. run'[w] = next
  OBVIOUS
<1>3. /\ next \in Closed \cup {"stuck", "absent"} => PhaseOf(w)' = next
      /\ next = "plan" => PhaseOf(w)' = "planning"
      /\ next \in {"helm", "activate", "release"} => PhaseOf(w)' = "placed"
  BY <1>2 DEF PhaseOf, Closed
<1> QED BY <1>1, <1>3

\* What the phase says of the run.
LEMMA PhaseOfRun ==
    ASSUME NEW w \in ReservationIds
    PROVE  /\ run[w] \in Closed \cup {"stuck", "absent"} => PhaseNow[w] = run[w]
           /\ run[w] = "plan" => PhaseNow[w] = "planning"
           /\ run[w] \in {"helm", "activate", "release"} => PhaseNow[w] = "placed"
BY DEF PhaseNow, PhaseOf, Closed

\* A released row is activated only where an attempt may be late and something
\* is cancelled; and neither happens where it is excluded.
Orderly ==
    /\ \A w \in ReservationIds :
          /\ Acting(w, "activate") /\ reservations[w].status = "RELEASED" =>
                LateAttempts /\ Cancellations
          /\ run[w] = "release" => Cancellations
    /\ \A l \in late : LateAttempts /\ (l.activity = "release" => Cancellations)
    /\ ~LateAttempts => unseen = {} /\ \A w \in blind : ~Held(w)

LEMMA LifeStep ==
    ASSUME AccountInv, SizedRows, Orderly, [WorkflowNext]_wfVars
    PROVE  [Life!LifeNext]_(Life!lifeVars)
<1> USE DEF Life!LifeNext, Life!lifeVars, Life!Enter
<1>0. /\ WorkflowTypeOK /\ StoreTypeOK /\ StoreTypeOK'
      /\ run \in [ReservationIds -> RunStates]
      /\ \A l \in late : l.allocation \in ReservationIds /\ run[l.allocation] # "absent"
  BY WorkflowTypeStep DEF AccountInv, WorkflowTypeInv, WorkflowTypeOK, Attempts
<1>1. UNCHANGED storeVars => GrantNow' = GrantNow
  BY DEF storeVars, GrantNow, HeldInPool, Held
<1>2. run' = run => PhaseNow' = PhaseNow
  BY DEF PhaseNow, PhaseOf
<1>3. ASSUME NEW w \in ReservationIds, Start(w)
      PROVE  Life!Request(w)
  <2>1. PhaseNow[w] \in Life!Ended \cup {"absent"}
    BY <1>3, PhaseOfRun DEF Start, Life!Ended, Closed
  <2>2. PhaseNow' = [PhaseNow EXCEPT ![w] = "planning"]
    BY <1>0, <1>3, PhaseMoves DEF Start, RunStates, Activities
  <2> QED BY <1>1, <1>3, <2>1, <2>2 DEF Start, Life!Request
<1>4. ASSUME NEW w \in ReservationIds,
             RetryTimer(w) \/ HelmFails(w) \/ GiveUp(w)
      PROVE  UNCHANGED <<PhaseNow, GrantNow>>
  BY <1>1, <1>2, <1>4 DEF RetryTimer, HelmFails, GiveUp, Retried
<1>5. ASSUME NEW w \in ReservationIds, run[w] # "absent",
             LateAttempts \/ run[w] = "plan", run' = run,
             NEW sawNoRow \in BOOLEAN, sawNoRow /\ Held(w) => LateAttempts,
             NEW answer \in CapacityReservation \cup {PENDING},
             PlanReturns(w, sawNoRow, answer)
      PROVE  Life!Reserve(w) \/ UNCHANGED <<PhaseNow, GrantNow>>
  <2>1. PhaseNow[w] # "absent" /\ (~LateAttempts => PhaseNow[w] = "planning")
    BY <1>0, <1>5, PhaseOfRun DEF RunStates, Activities
  <2>2. Life!Take(w) \/ Life!Exchange(w) \/ GrantNow' = GrantNow
    BY <1>0, <1>5, PlanGrants
  <2> QED BY <1>2, <1>5, <2>1, <2>2 DEF Life!Reserve
<1>5a. ASSUME NEW w \in ReservationIds,
              NEW answer \in CapacityReservation \cup {PENDING},
              PlanReturns(w, w \in blind, answer)
       PROVE  \E sawNoRow \in BOOLEAN :
                 /\ PlanReturns(w, sawNoRow, answer)
                 /\ sawNoRow /\ Held(w) => LateAttempts
  BY <1>5a, RunningPlan DEF Orderly
<1>6. ASSUME NEW w \in ReservationIds, PlanLost(w)
      PROVE  Life!Reserve(w) \/ UNCHANGED <<PhaseNow, GrantNow>>
  <2>1. run' = run /\ run[w] = "plan"
    BY <1>6 DEF PlanLost, Retried, Attempting
  <2>2. CASE UNCHANGED storeVars
    BY <1>1, <1>2, <2>1, <2>2
  <2>3. ASSUME NEW answer \in CapacityReservation \cup {PENDING},
               PlanReturns(w, w \in blind, answer)
        PROVE  Life!Reserve(w) \/ UNCHANGED <<PhaseNow, GrantNow>>
    BY <1>5, <1>5a, <2>1, <2>3
  <2> QED BY <1>6, <2>2, <2>3 DEF PlanLost
<1>7. ASSUME NEW w \in ReservationIds, PlanAnswered(w)
      PROVE  Life!Place(w) \/ Life!Decline(w) \/ Life!Refuse(w)
  <2>1. PICK answer \in CapacityReservation \cup {PENDING} :
            /\ PlanReturns(w, w \in blind, answer)
            /\ Proceed(w, CASE answer.status = "PENDING_CAPACITY" -> "pending"
                            [] answer.status = "RESERVED" -> "helm"
                            [] OTHER -> "stuck")
    BY <1>7 DEF PlanAnswered
  <2>1a. \/ /\ Life!Take(w) \/ Life!Exchange(w)
            /\ answer \in CapacityReservation /\ answer.status = "RESERVED"
         \/ /\ GrantNow' = GrantNow
            /\ answer \in CapacityReservation => GrantNow[w] # {}
            /\ answer = PENDING => GrantNow[w] = {} \/ w \in unseen
    BY <1>0, <1>5a, <2>1, PlanGrants
  <2>2. PhaseNow[w] = "planning"
    BY <1>7, PhaseOfRun DEF PlanAnswered, Attempting
  <2>3. PENDING \notin CapacityReservation
    BY DEF PENDING, CapacityReservation, Statuses, ActiveReservationStatuses
  <2>4. CASE answer = PENDING
    <3>1. PhaseNow' = [PhaseNow EXCEPT ![w] = "pending"]
      BY <1>0, <2>1, <2>3, <2>4, PlanOutcome, PhaseMoves DEF RunStates, Closed
    <3>2. GrantNow' = GrantNow /\ (GrantNow[w] = {} \/ w \in unseen)
      BY <2>1a, <2>3, <2>4
    <3> QED BY <2>2, <3>1, <3>2 DEF Life!Decline, Orderly
  <2>5. CASE answer \in CapacityReservation /\ run' = [run EXCEPT ![w] = "helm"]
    <3>1. PhaseNow' = [PhaseNow EXCEPT ![w] = "placed"]
      BY <1>0, <2>5, PhaseMoves DEF RunStates, Activities
    <3>2. \/ Life!Take(w) \/ Life!Exchange(w)
          \/ GrantNow[w] # {} /\ GrantNow' = GrantNow
      BY <2>1a, <2>5
    <3> QED BY <2>2, <3>1, <3>2 DEF Life!Place
  <2>6. CASE /\ answer \in CapacityReservation /\ answer.status # "RESERVED"
             /\ run' = [run EXCEPT ![w] = "stuck"]
    <3>1. PhaseNow' = [PhaseNow EXCEPT ![w] = "stuck"]
      BY <1>0, <2>6, PhaseMoves DEF RunStates
    <3>2. GrantNow[w] # {} /\ GrantNow' = GrantNow
      BY <2>1a, <2>6
    <3> QED BY <2>2, <3>1, <3>2 DEF Life!Refuse
  <2> QED BY <2>1, <2>4, <2>5, <2>6, PlanOutcome
<1>8. ASSUME NEW w \in ReservationIds, HelmSucceeds(w)
      PROVE  UNCHANGED <<PhaseNow, GrantNow>>
  <2>1. run' = [run EXCEPT ![w] = "activate"] /\ run[w] = "helm"
    BY <1>8 DEF HelmSucceeds, Proceed, Attempting
  <2>2. PhaseNow' = [PhaseNow EXCEPT ![w] = "placed"] /\ PhaseNow[w] = "placed"
    BY <1>0, <2>1, PhaseMoves, PhaseOfRun DEF RunStates, Activities
  <2> QED BY <1>1, <1>8, <2>2 DEF HelmSucceeds, PhaseNow
<1>8a. ASSUME NEW w \in ReservationIds, MarkActive(w), Acting(w, "activate")
       PROVE  (GrantNow[w] # {} /\ GrantNow' = GrantNow) \/ Life!Regrant(w)
  <2>1. CASE reservations[w].status # "RELEASED"
    BY <1>0, <1>8a, <2>1, ActivateGrants
  <2>2. CASE reservations[w].status = "RELEASED"
    BY <1>0, <1>8a, <2>2, ReactivateGrants DEF Orderly
  <2> QED BY <2>1, <2>2
<1>9. ASSUME NEW w \in ReservationIds, ActivateAnswered(w)
      PROVE  Life!Succeed(w)
  <2>1. PhaseNow[w] = "placed" /\ PhaseNow' = [PhaseNow EXCEPT ![w] = "active"]
    BY <1>0, <1>9, PhaseMoves, PhaseOfRun
    DEF ActivateAnswered, Proceed, Attempting, RunStates, Closed
  <2>2. MarkActive(w) /\ Acting(w, "activate")
    BY <1>9 DEF ActivateAnswered, Attempting, Acting
  <2>3. (GrantNow[w] # {} /\ GrantNow' = GrantNow) \/ Life!Regrant(w)
    BY <1>8a, <2>2
  <2> QED BY <2>1, <2>3 DEF Life!Succeed
<1>10. ASSUME NEW w \in ReservationIds, ActivateLost(w)
       PROVE  Life!Straggle(w) \/ UNCHANGED <<PhaseNow, GrantNow>>
  <2>1. /\ PhaseNow[w] # "absent" /\ PhaseNow' = PhaseNow
        /\ Acting(w, "activate")
    BY <1>2, <1>10, PhaseOfRun DEF ActivateLost, Retried, Attempting, Acting
  <2> QED BY <1>1, <1>8a, <1>10, <2>1 DEF ActivateLost, Life!Straggle
<1>11. ASSUME NEW w \in ReservationIds, ReleaseAnswered(w)
       PROVE  Life!GiveBack(w)
  <2>1. PhaseNow[w] = "placed" /\ PhaseNow' = [PhaseNow EXCEPT ![w] = "failed"]
    BY <1>0, <1>11, PhaseMoves, PhaseOfRun
    DEF ReleaseAnswered, Proceed, Attempting, RunStates, Closed
  <2> QED BY <1>0, <1>11, <2>1, ReleaseGrants
          DEF ReleaseAnswered, Attempting, Orderly, Life!GiveBack
<1>12. ASSUME NEW w \in ReservationIds, ReleaseLost(w)
       PROVE  Life!GiveBack(w) \/ UNCHANGED <<PhaseNow, GrantNow>>
  <2>1. PhaseNow[w] = "placed" /\ PhaseNow' = PhaseNow
    BY <1>2, <1>12, PhaseOfRun DEF ReleaseLost, Retried, Attempting
  <2> QED BY <1>0, <1>1, <1>12, <2>1, ReleaseGrants
          DEF ReleaseLost, Attempting, Orderly, Life!GiveBack
<1>13. ASSUME NEW w \in ReservationIds, Cancel(w)
       PROVE  Life!Abandon(w) \/ UNCHANGED <<PhaseNow, GrantNow>>
  <2>1. GrantNow' = GrantNow
    BY <1>1, <1>13 DEF Cancel
  <2>2. CASE run[w] = "plan"
    <3>1. PhaseNow[w] = "planning" /\ PhaseNow' = [PhaseNow EXCEPT ![w] = "failed"]
      BY <1>0, <1>13, <2>2, PhaseMoves, PhaseOfRun DEF Cancel, RunStates, Closed
    <3> QED BY <1>13, <2>1, <3>1 DEF Cancel, Life!Abandon
  <2>3. CASE run[w] \in {"helm", "activate"}
    <3>1. run' = [run EXCEPT ![w] = "release"]
      BY <1>13, <2>3 DEF Cancel
    <3>2. PhaseNow[w] = "placed" /\ PhaseNow' = [PhaseNow EXCEPT ![w] = "placed"]
      BY <1>0, <2>3, <3>1, PhaseMoves, PhaseOfRun DEF RunStates, Activities
    <3> QED BY <2>1, <3>2 DEF PhaseNow
  <2> QED BY <1>13, <2>2, <2>3 DEF Cancel, AccountInv, Activities
<1>14. ASSUME NEW l \in late, LateAttempt(l)
       PROVE  \E w \in ReservationIds :
                 Life!Reserve(w) \/ Life!Straggle(w) \/ UNCHANGED <<PhaseNow, GrantNow>>
  <2>1. PICK w \in ReservationIds : w = l.allocation
    BY <1>0
  <2>2. /\ LateAttempts /\ (l.activity = "release" => Cancellations)
        /\ run[w] # "absent"
        /\ run' = run /\ PhaseNow' = PhaseNow
    BY <1>0, <1>2, <1>14, <2>1 DEF LateAttempt, runVars, Orderly
  <2>3. PhaseNow[w] # "absent"
    BY <1>0, <2>2, PhaseOfRun DEF RunStates, Activities
  <2>4. CASE \E answer \in CapacityReservation \cup {PENDING} :
                 PlanReturns(w, l.blind, answer)
    <3>1. l.blind \in BOOLEAN
      BY <1>0 DEF WorkflowTypeOK, Attempts
    <3> QED BY <1>5, <2>2, <2>4, <3>1
  <2>5. CASE l.activity = "activate" /\ MarkActive(w)
    <3>1. Acting(w, "activate")
      BY <2>1, <2>5 DEF Acting
    <3> QED BY <1>8a, <2>2, <2>3, <2>5, <3>1 DEF Life!Straggle
  <2>6. CASE l.activity = "release" /\ ReleaseIfPresent(w)
    BY <1>0, <2>2, <2>3, <2>6, ReleaseGrants DEF Life!Straggle, Life!Straggling
  <2>7. CASE UNCHANGED storeVars
    BY <1>1, <2>2, <2>7
  <2> QED BY <1>14, <2>1, <2>4, <2>5, <2>6, <2>7 DEF LateAttempt
<1>15. CASE WorkerRestart
  <2>1. PhaseNow' = PhaseNow /\ ~Durable
    BY <1>2, <1>15 DEF WorkerRestart, Restart, runVars
  <2>2. GrantNow' = [w \in ReservationIds |-> {}]
    BY <1>15 DEF WorkerRestart, Restart, EmptyTable, NoRow, GrantNow, HeldInPool, Held,
                 ActiveReservationStatuses
  <2> QED BY <2>1, <2>2 DEF Life!Forget
<1>16. CASE UNCHANGED wfVars
  BY <1>1, <1>2, <1>16 DEF wfVars, runVars
<1> QED
  BY <1>0, <1>3, <1>4, <1>6, <1>7, <1>8, <1>9, <1>10, <1>11, <1>12, <1>13, <1>14, <1>15,
     <1>16
  DEF WorkflowNext

LEMMA SizedInvariant == WorkflowSpec => []SizedRows
<1>1. WorkflowInit => SizedRows
  BY DEF WorkflowInit, StoreInit, EmptyTable, NoRow, SizedRows, Present
<1>2. WorkflowTypeInv /\ SizedRows /\ [WorkflowNext]_wfVars => SizedRows'
  BY SizedStep DEF WorkflowTypeInv
<1> QED BY <1>1, <1>2, WorkflowTypeInvariant, PTL DEF WorkflowSpec

LEMMA OrderlyInvariant == WorkflowSpec => []Orderly
<1>1. WorkflowSpec => [](~LateAttempts => OneWorkerInv)
  <2>1. CASE ~LateAttempts
    BY <2>1, OneWorkerInvariant, PTL
  <2>2. CASE LateAttempts
    BY <2>2, PTL
  <2> QED BY <2>1, <2>2
<1>2. WorkflowSpec => [](~Cancellations => UnreleasedInv)
  <2>1. CASE ~Cancellations
    BY <2>1, UnreleasedInvariant, PTL
  <2>2. CASE Cancellations
    BY <2>2, PTL
  <2> QED BY <2>1, <2>2
<1>3. (~LateAttempts => OneWorkerInv) /\ (~Cancellations => UnreleasedInv) => Orderly
  <2> SUFFICES ASSUME ~LateAttempts => OneWorkerInv, ~Cancellations => UnreleasedInv
               PROVE  Orderly
    OBVIOUS
  <2>1. ~LateAttempts =>
            /\ late = {} /\ unseen = {} /\ \A w \in blind : ~Held(w)
            /\ \A w \in ReservationIds :
                  Acting(w, "activate") => reservations[w].status # "RELEASED"
    BY DEF OneWorkerInv, Acting, Held, Present, ActiveReservationStatuses
  <2>2. ~Cancellations => NothingReleased
    BY DEF UnreleasedInv
  <2> QED BY <2>1, <2>2 DEF Orderly, NothingReleased
<1> QED BY <1>1, <1>2, <1>3, PTL

\* Everything the workflows do, for any catalogue, either store and any number of
\* allocations, is what AllocationLife says of an allocation, exchanges of a grant
\* by overlapping attempts and what comes late after a cancellation included
\* (workflows.py:17-58, activities.py:183-293, scheduler.py:395-438).
THEOREM WorkflowImplementsLife == WorkflowSpec => ImplementsAllocationLife
<1>1. WorkflowInit => Life!LifeInit
  <2> SUFFICES ASSUME WorkflowInit PROVE Life!LifeInit
    OBVIOUS
  <2>1. PhaseNow = [w \in ReservationIds |-> "absent"]
    BY DEF WorkflowInit, PhaseNow, PhaseOf
  <2>2. GrantNow = [w \in ReservationIds |-> {}]
    BY DEF WorkflowInit, StoreInit, EmptyTable, NoRow, GrantNow, HeldInPool, Held,
           ActiveReservationStatuses
  <2> QED BY <2>1, <2>2 DEF Life!LifeInit
<1>2. AccountInv /\ SizedRows /\ Orderly /\ [WorkflowNext]_wfVars
          => [Life!LifeNext]_(Life!lifeVars)
  BY LifeStep
<1> QED BY <1>1, <1>2, AccountInvariant, SizedInvariant, OrderlyInvariant, PTL
        DEF WorkflowSpec, ImplementsAllocationLife, Life!LifeSpec

\* So, as far as AllocationLife promises it: an ACTIVE allocation holds its GPUs, a
\* pending one holds none, and a grant stays until a cancellation gives it back or
\* an overlapping attempt moves it (workflows.py:23-58, scheduler.py:395-438).
THEOREM WorkflowKeepsPromises ==
    WorkflowSpec => /\ [](Life!ActiveIsGranted /\ Life!PendingIsFree)
                    /\ Life!GrantsStay
<1>1. WorkflowSpec => Life!LifeSpec
  BY WorkflowImplementsLife DEF ImplementsAllocationLife
<1>2. Life!CatalogueAssumption
  BY CatalogueAssumption DEF CatalogueAssumption, Life!CatalogueAssumption, Life!Pools,
     Pools, Life!IsGpuPool, IsGpuPool, Life!IsFiniteSet, IsFiniteSet
<1> QED BY <1>1, <1>2, Life!LifeAnswersTrue, Life!LifeGrantsStay, PTL
=============================================================================
