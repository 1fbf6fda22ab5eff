----------------------- MODULE PlacementSchedulerProofs -----------------------
(***************************************************************************)
(* What concurrent placement attempts guarantee, for every catalogue, any  *)
(* set of events and any number of attempts: every attempt only makes      *)
(* calls of the store, so what is proved of a store whose reserves may     *)
(* overlap holds; a placement obeys the tenant's policy; an answer stands  *)
(* until it is released or an overlapping attempt answers; and a pool is   *)
(* passed over only if it was full while the attempt ran, which rests on   *)
(* SnapshotAgrees.                                                         *)
(***************************************************************************)
EXTENDS PlacementScheduler, ReservationStoreProofs

-----------------------------------------------------------------------------
(* Requests *)

\* What an event asks for is something the store can be asked for.
LEMMA RequestsOK ==
    ASSUME NEW data \in Events
    PROVE  /\ BuildPlacementRequest(data).gpu_count \in GpuCounts
           /\ BuildPlacementRequest(data).allocation_id = data.allocation_id
           /\ ReservationIdFor(BuildPlacementRequest(data)) \in ReservationIds
           /\ CandidatePools(BuildPlacementRequest(data)) \subseteq Pools
BY SchedulerAssumption DEF BuildPlacementRequest, CandidatePools

\* The filter lets through only pools that the event's own policy allows.
LEMMA CandidatesWithinPolicy ==
    ASSUME NEW data \in Events,
           NEW p \in CandidatePools(BuildPlacementRequest(data))
    PROVE  WithinPolicy(data, p)
<1> DEFINE preferred == OrDefault(data.preferred_region, DEFAULT_CUSTOMER_REGION)
<1>1. /\ Catalogue[p].healthy
      /\ Catalogue[p].gpu_type = OrDefault(data.gpu_type, Profiles[data.tier].gpu_type)
      /\ Catalogue[p].region \in AllowedRegions(data.allowed_regions, preferred)
      /\ LatencyTo(p, preferred)
            <= OrDefault(data.max_latency_ms, Profiles[data.tier].default_max_latency_ms)
  BY DEF CandidatePools, BuildPlacementRequest
<1>2. \/ Catalogue[p].region = preferred
      \/ /\ data.allowed_regions # NotGiven
         /\ Catalogue[p].region \in data.allowed_regions
  BY <1>1 DEF AllowedRegions, OrDefault
<1> QED BY <1>1, <1>2 DEF WithinPolicy

\* And it loses none of them.
LEMMA PolicyWithinCandidates ==
    ASSUME NEW data \in Events, NEW p \in Pools, WithinPolicy(data, p)
    PROVE  p \in CandidatePools(BuildPlacementRequest(data))
<1> DEFINE preferred == OrDefault(data.preferred_region, DEFAULT_CUSTOMER_REGION)
           request == BuildPlacementRequest(data)
<1>1. Catalogue[p].region \in Regions /\ NotGiven \notin Regions
  BY CatalogueAssumption, PlacementAssumption DEF IsGpuPool
<1>2. Catalogue[p].region \in AllowedRegions(data.allowed_regions, preferred)
  <2>1. CASE Catalogue[p].region = preferred
    BY <2>1 DEF AllowedRegions
  <2>2. CASE data.allowed_regions # NotGiven /\ Catalogue[p].region \in data.allowed_regions
    BY <1>1, <2>2 DEF AllowedRegions, OrDefault
  <2> QED BY <2>1, <2>2 DEF WithinPolicy
<1>3. /\ request.gpu_type = OrDefault(data.gpu_type, Profiles[data.tier].gpu_type)
      /\ request.preferred_region = preferred
      /\ request.allowed_regions = AllowedRegions(data.allowed_regions, preferred)
      /\ request.max_latency_ms
             = OrDefault(data.max_latency_ms, Profiles[data.tier].default_max_latency_ms)
  BY DEF BuildPlacementRequest
<1> HIDE DEF request
<1>4. p \in CandidatePools(request)
  BY <1>2, <1>3 DEF CandidatePools, WithinPolicy
<1> QED BY <1>4 DEF request

\* The parts of the ranking key that come from the catalogue are integers.
LEMMA CatalogueInts ==
    ASSUME NEW p \in Pools
    PROVE  /\ p \in Int
           /\ Catalogue[p].priority \in Int
           /\ \A region : LatencyTo(p, region) \in Int
<1>1. /\ p \in Nat
      /\ Catalogue[p].priority \in Int
      /\ \A r \in DOMAIN Catalogue[p].latency_ms_by_region :
             Catalogue[p].latency_ms_by_region[r] \in Int
  BY CatalogueAssumption DEF IsGpuPool
<1>2. UNKNOWN_LATENCY_MS \in Int
  BY SMT DEF UNKNOWN_LATENCY_MS
<1> QED BY <1>1, <1>2 DEF LatencyTo

\* No pool that sorts behind p is nearer than p.
LEMMA FirstIsNearest ==
    ASSUME NEW w \in Planners, NEW S \in SUBSET Pools, NEW free,
           NEW p \in FirstRanked(Request(w), S, free), NEW q \in S
    PROVE  ~Nearer(w, q, p)
<1> DEFINE Far(x) == IF Catalogue[x].region = Request(w).preferred_region THEN 0 ELSE 1
           Latency(x) == LatencyTo(x, Request(w).preferred_region)
<1>1. p \in Pools /\ q \in Pools
  BY DEF FirstRanked
<1>2. \A x \in Pools : Far(x) \in Int /\ Latency(x) \in Int
  BY CatalogueInts
<1>3. CASE q = p
  BY <1>1, <1>2, <1>3 DEF Nearer
<1>4. CASE q # p
  <2> DEFINE a == PoolScore(Request(w), p, free)
             b == PoolScore(Request(w), q, free)
  <2>1. LexicographicallyLess(a, b)
    BY <1>4 DEF FirstRanked
  <2>2. /\ DOMAIN a = 1..5
        /\ a[1] = Far(p) /\ a[2] = Latency(p)
        /\ b[1] = Far(q) /\ b[2] = Latency(q)
    BY DEF PoolScore
  <2> HIDE DEF a, b
  <2>3. PICK i \in 1..5 : a[i] < b[i] /\ \A j \in 1..5 : j < i => a[j] = b[j]
    BY <2>1, <2>2 DEF LexicographicallyLess
  <2>4. \/ Far(p) < Far(q)
        \/ Far(p) = Far(q) /\ Latency(p) < Latency(q)
        \/ Far(p) = Far(q) /\ Latency(p) = Latency(q)
    <3>1. CASE i = 1 BY <2>2, <2>3, <3>1
    <3>2. CASE i = 2 BY <2>2, <2>3, <3>2
    <3>3. CASE i > 2 BY <2>2, <2>3, <3>3
    <3> QED BY <3>1, <3>2, <3>3
  <2>5. Far(p) \in Int /\ Far(q) \in Int /\ Latency(p) \in Int /\ Latency(q) \in Int
    BY <1>1, <1>2
  <2>6. Nearer(w, q, p) <=> \/ Far(q) < Far(p)
                            \/ Far(q) = Far(p) /\ Latency(q) < Latency(p)
    BY DEF Nearer
  <2> HIDE DEF Far, Latency
  <2> QED BY <2>4, <2>5, <2>6
<1> QED BY <1>3, <1>4

-----------------------------------------------------------------------------
(* Types *)

\* What SchedulerTypeOK says of one attempt, and which fields it has.
AttemptOK(w) ==
    /\ DOMAIN planners[w] = DOMAIN Idle
    /\ planners[w].pc \in PlannerStates
    /\ planners[w].pc # "idle" =>
          /\ planners[w].data \in Events
          /\ Request(w) = BuildPlacementRequest(planners[w].data)
          /\ Candidates(w) = CandidatePools(Request(w))
    /\ planners[w].decision \in CapacityReservation \cup {PENDING, Undecided}
    /\ (planners[w].decision = Undecided) = (planners[w].pc # "done")
    /\ planners[w].pc = "try" =>
          /\ planners[w].untried \subseteq Candidates(w)
          /\ planners[w].untried # {}
    /\ planners[w].blind => Durable /\ planners[w].pc = "try"

AttemptsOK ==
    /\ DOMAIN planners = Planners
    /\ \A w \in Planners : AttemptOK(w)

\* SchedulerTypeOK with the fields of the records.
SchedulerTypeInv == SchedulerTypeOK /\ AttemptsOK

\* An attempt under way asks for a reservation the store can make.
LEMMA AttemptAsks ==
    ASSUME AttemptsOK, NEW w \in Planners, planners[w].pc # "idle"
    PROVE  /\ Id(w) \in ReservationIds
           /\ Request(w).gpu_count \in GpuCounts
           /\ Candidates(w) \subseteq Pools
BY RequestsOK DEF AttemptsOK, AttemptOK, Id

\* Nothing else is taken for the decision of an attempt that has none.
LEMMA Decided ==
    /\ PENDING # Undecided
    /\ \A row \in CapacityReservation : row # Undecided /\ row # PENDING
BY DEF PENDING, Undecided, CapacityReservation, Statuses, ActiveReservationStatuses

LEMMA HeldIsRow ==
    ASSUME StoreTypeOK, NEW id \in ReservationIds, Held(id)
    PROVE  reservations[id] \in CapacityReservation
BY DEF StoreTypeOK, Held, NoRow, ActiveReservationStatuses

\* An attempt that has just been answered: what it asked for stays.
Answered(w) ==
    /\ DOMAIN planners[w]' = DOMAIN Idle
    /\ planners[w].pc' = "done"
    /\ planners[w].blind' = FALSE
    /\ planners[w].data' = planners[w].data
    /\ Request(w)' = Request(w)
    /\ Candidates(w)' = Candidates(w)

LEMMA AnswerEffect ==
    ASSUME AttemptsOK, NEW w \in Planners, NEW decision, Answer(w, decision)
    PROVE  /\ DOMAIN planners' = Planners
           /\ \A v \in Planners \ {w} : planners'[v] = planners[v]
           /\ Answered(w)
           /\ planners[w].decision' = decision
BY DEF AttemptsOK, AttemptOK, Answer, Answered, Request, Candidates, Idle

LEMMA LookUpEffect ==
    ASSUME AttemptsOK, NEW w \in Planners, NEW data \in Events, LookUp(w, data)
    PROVE  /\ UNCHANGED storeVars
           /\ planners[w].pc = "idle"
           /\ DOMAIN planners' = Planners
           /\ \A v \in Planners \ {w} : planners'[v] = planners[v]
           /\ DOMAIN planners[w]' = DOMAIN Idle
           /\ planners[w].data' = data
           /\ planners[w].blind' = FALSE
           /\ Request(w)' = BuildPlacementRequest(data)
           /\ Candidates(w)' = CandidatePools(BuildPlacementRequest(data))
           /\ \/ planners[w].pc' = "snapshot" /\ planners[w].decision' = Undecided
              \/ /\ planners[w].pc' = "done"
                 /\ \/ /\ Held(Id(w)')
                       /\ planners[w].decision' = reservations[Id(w)']
                    \/ /\ Candidates(w)' = {}
                       /\ planners[w].decision' = PENDING
<1> DEFINE request == BuildPlacementRequest(data)
           id == ReservationIdFor(request)
           candidates == CandidatePools(request)
           next == [Idle EXCEPT
                      !.data = data, !.request = request, !.candidates = candidates,
                      !.pc = IF Held(id) \/ candidates = {} THEN "done" ELSE "snapshot",
                      !.decision = IF Held(id) THEN reservations[id]
                                   ELSE IF candidates = {} THEN PENDING
                                   ELSE Undecided]
<1>1. /\ planners[w].pc = "idle"
      /\ planners' = [planners EXCEPT ![w] = next]
      /\ UNCHANGED storeVars
  BY DEF LookUp
<1>2. /\ DOMAIN next = DOMAIN Idle
      /\ next.blind = FALSE
      /\ next.data = data /\ next.request = request /\ next.candidates = candidates
      /\ next.pc = IF Held(id) \/ candidates = {} THEN "done" ELSE "snapshot"
      /\ next.decision = IF Held(id) THEN reservations[id]
                         ELSE IF candidates = {} THEN PENDING ELSE Undecided
  BY DEF Idle
<1> HIDE DEF next
<1>3. /\ DOMAIN planners' = Planners /\ planners'[w] = next
      /\ \A v \in Planners \ {w} : planners'[v] = planners[v]
  BY <1>1 DEF AttemptsOK
<1>4. Request(w)' = request /\ Candidates(w)' = candidates /\ Id(w)' = id
  BY <1>2, <1>3 DEF Request, Candidates, Id
<1> QED BY <1>1, <1>2, <1>3, <1>4

LEMMA SnapshotEffect ==
    ASSUME AttemptsOK, NEW w \in Planners, Snapshot(w)
    PROVE  /\ UNCHANGED storeVars
           /\ planners[w].pc = "snapshot"
           /\ DOMAIN planners' = Planners
           /\ \A v \in Planners \ {w} : planners'[v] = planners[v]
           /\ planners[w].data' = planners[w].data
           /\ DOMAIN planners[w]' = DOMAIN Idle
           /\ Request(w)' = Request(w)
           /\ Candidates(w)' = Candidates(w)
           /\ LET fitting == {p \in Candidates(w) : TotalGpus(p) - ReservedGpusByPool(p)
                                                       >= Request(w).gpu_count}
              IN  \/ /\ fitting = {}
                     /\ planners[w].pc' = "done"
                     /\ planners[w].blind' = FALSE
                     /\ planners[w].decision' = PENDING
                  \/ /\ fitting # {}
                     /\ planners[w].pc' = "try"
                     /\ planners[w].blind' = FindsNoRow(w)
                     /\ planners[w].untried' = fitting
                     /\ planners[w].free' = [p \in Candidates(w) |->
                                               TotalGpus(p) - ReservedGpusByPool(p)]
                     /\ planners[w].decision' = planners[w].decision
<1> DEFINE free == [p \in Candidates(w) |-> TotalGpus(p) - ReservedGpusByPool(p)]
           fitting == {p \in Candidates(w) : TotalGpus(p) - ReservedGpusByPool(p)
                                                >= Request(w).gpu_count}
<1>0. fitting = {p \in Candidates(w) : free[p] >= Request(w).gpu_count}
  OBVIOUS
<1>1. /\ planners[w].pc = "snapshot" /\ UNCHANGED storeVars
      /\ \/ fitting = {} /\ Answer(w, PENDING)
         \/ /\ fitting # {}
            /\ planners' = [planners EXCEPT ![w] =
                  [@ EXCEPT !.pc = "try", !.free = free, !.untried = fitting,
                            !.blind = FindsNoRow(w)]]
  BY <1>0 DEF Snapshot
<1> HIDE DEF free, fitting
<1>2. CASE fitting = {} /\ Answer(w, PENDING)
  BY <1>1, <1>2, AnswerEffect DEF fitting, Answered
<1>3. CASE /\ fitting # {}
           /\ planners' = [planners EXCEPT ![w] =
                 [@ EXCEPT !.pc = "try", !.free = free, !.untried = fitting,
                            !.blind = FindsNoRow(w)]]
  <2>1. /\ DOMAIN planners' = Planners
        /\ \A v \in Planners \ {w} : planners'[v] = planners[v]
        /\ DOMAIN planners[w]' = DOMAIN Idle
        /\ planners[w].data' = planners[w].data
        /\ Request(w)' = Request(w)
        /\ Candidates(w)' = Candidates(w)
        /\ planners[w].pc' = "try"
        /\ planners[w].blind' = FindsNoRow(w)
        /\ planners[w].untried' = fitting
        /\ planners[w].free' = free
        /\ planners[w].decision' = planners[w].decision
    BY <1>3 DEF AttemptsOK, AttemptOK, Request, Candidates, Idle
  <2> QED BY <1>1, <1>3, <2>1 DEF fitting, free
<1> QED BY <1>1, <1>2, <1>3

LEMMA TryReservedEffect ==
    ASSUME AttemptsOK, StoreTypeOK, StoreTypeOK',
           NEW w \in Planners, planners[w].pc # "idle", NEW p, TryReserved(w, p)
    PROVE  /\ DOMAIN planners' = Planners
           /\ \A v \in Planners \ {w} : planners'[v] = planners[v]
           /\ Answered(w)
           /\ Held(Id(w))'
           /\ planners[w].decision' = reservations'[Id(w)]
<1>1. PICK row : row = reservations'[Id(w)]
  OBVIOUS
<1>2. Answer(w, row)
  BY <1>1 DEF TryReserved
<1>3. /\ DOMAIN planners' = Planners
      /\ \A v \in Planners \ {w} : planners'[v] = planners[v]
      /\ Answered(w)
      /\ planners[w].decision' = row
  BY <1>2, AnswerEffect
<1>4. PICK id \in ReservationIds : id = Id(w)
  BY AttemptAsks
<1>5. reservations'[id].status \in ActiveReservationStatuses
  BY <1>4 DEF TryReserved, ReserveExisting, ReserveNew, Overwrite, Held, storeVars,
              StoreTypeOK, ActiveReservationStatuses
<1>6. Id(w)' = Id(w)
  BY <1>3 DEF Answered, Id
<1> QED BY <1>1, <1>3, <1>4, <1>5, <1>6 DEF Held

LEMMA TryFullEffect ==
    ASSUME AttemptsOK, NEW w \in Planners, planners[w].pc = "try", NEW p, TryFull(w, p)
    PROVE  /\ UNCHANGED storeVars
           /\ ~HasRoom(p, Request(w).gpu_count)
           /\ DOMAIN planners' = Planners
           /\ \A v \in Planners \ {w} : planners'[v] = planners[v]
           /\ DOMAIN planners[w]' = DOMAIN Idle
           /\ planners[w].data' = planners[w].data
           /\ Request(w)' = Request(w)
           /\ Candidates(w)' = Candidates(w)
           /\ \/ /\ planners[w].untried = {p}
                 /\ planners[w].pc' = "done"
                 /\ planners[w].blind' = FALSE
                 /\ planners[w].decision' = PENDING
              \/ /\ planners[w].untried # {p}
                 /\ planners[w].pc' = "try"
                 /\ planners[w].blind' = FindsNoRow(w)
                 /\ planners[w].untried' = planners[w].untried \ {p}
                 /\ planners[w].free' = planners[w].free
                 /\ planners[w].decision' = planners[w].decision
<1>1. UNCHANGED storeVars /\ ~HasRoom(p, Request(w).gpu_count)
  BY DEF TryFull, FoundFull, ReserveFull
<1>2. CASE planners[w].untried = {p} /\ Answer(w, PENDING)
  BY <1>1, <1>2, AnswerEffect DEF Answered
<1>3. CASE /\ planners[w].untried # {p}
           /\ planners' = [planners EXCEPT ![w] =
                 [@ EXCEPT !.untried = planners[w].untried \ {p},
                           !.blind = FindsNoRow(w)]]
  <2>1. /\ DOMAIN planners' = Planners
        /\ \A v \in Planners \ {w} : planners'[v] = planners[v]
        /\ DOMAIN planners[w]' = DOMAIN Idle
        /\ planners[w].data' = planners[w].data
        /\ Request(w)' = Request(w)
        /\ Candidates(w)' = Candidates(w)
        /\ planners[w].pc' = "try"
        /\ planners[w].blind' = FindsNoRow(w)
        /\ planners[w].untried' = planners[w].untried \ {p}
        /\ planners[w].free' = planners[w].free
        /\ planners[w].decision' = planners[w].decision
    BY <1>3 DEF AttemptsOK, AttemptOK, Request, Candidates, Idle
  <2> QED BY <1>1, <1>3, <2>1
<1> QED BY <1>2, <1>3 DEF TryFull

LEMMA EndAttemptEffect ==
    ASSUME AttemptsOK, NEW w \in Planners, EndAttempt(w)
    PROVE  /\ UNCHANGED storeVars
           /\ DOMAIN planners' = Planners
           /\ \A v \in Planners \ {w} : planners'[v] = planners[v]
           /\ planners'[w] = Idle
BY DEF AttemptsOK, EndAttempt

\* An attempt that looks for a pool has a pool to try.
LEMMA Tried ==
    ASSUME AttemptsOK, NEW w \in Planners, TryPool(w)
    PROVE  /\ planners[w].pc = "try"
           /\ \E p \in Pools :
                 /\ p \in Candidates(w)
                 /\ p \in FirstRanked(Request(w), planners[w].untried, planners[w].free)
                 /\ TryReserved(w, p) \/ TryFull(w, p)
<1>1. planners[w].pc = "try" /\ planners[w].untried \subseteq Candidates(w)
  BY DEF TryPool, AttemptsOK, AttemptOK
<1>2. Candidates(w) \subseteq Pools
  BY <1>1, AttemptAsks
<1> QED BY <1>1, <1>2 DEF TryPool, FirstRanked

\* v writes over the row of its reservation, made since its call began.
Overwrites(v) ==
    /\ planners[v].pc = "try" /\ planners[v].blind /\ planners'[v].pc = "done"
    /\ \E p \in Pools : Overwrite(Id(v), p, Request(v).gpu_count)

\* Attempts change the table only through calls of the store.
LEMMA StoreCalls ==
    ASSUME AttemptsOK, [SchedulerNext]_schedulerVars
    PROVE  [StoreNext]_storeVars \/ \E v \in Planners : Overwrites(v)
<1>1. CASE UNCHANGED schedulerVars
  BY <1>1 DEF schedulerVars, storeVars
<1>2. ASSUME NEW w \in Planners, NEW data \in Events, LookUp(w, data)
      PROVE  [StoreNext]_storeVars
  BY <1>2 DEF LookUp
<1>3. ASSUME NEW w \in Planners, Snapshot(w) \/ EndAttempt(w)
      PROVE  [StoreNext]_storeVars
  BY <1>3 DEF Snapshot, EndAttempt
<1>4. ASSUME NEW w \in Planners, TryPool(w)
      PROVE  [StoreNext]_storeVars \/ Overwrites(w)
  <2>1. PICK p \in Pools : TryReserved(w, p) \/ TryFull(w, p)
    BY <1>4, Tried
  <2>2. PICK id \in ReservationIds, n \in GpuCounts : id = Id(w) /\ n = Request(w).gpu_count
    BY <1>4, Tried, AttemptAsks
  <2>3. CASE TryFull(w, p)
    BY <2>3 DEF TryFull, FoundFull
  <2>4. CASE TryReserved(w, p) /\ (ReserveExisting(id) \/ ReserveNew(id, p, n))
    BY <2>4 DEF StoreNext, Reserve
  <2>5. CASE TryReserved(w, p) /\ planners[w].blind /\ Overwrite(id, p, n)
    <3>1. planners[w].pc = "try" /\ planners'[w].pc = "done"
      <4>1. PICK row : Answer(w, row)
        BY <2>5 DEF TryReserved
      <4> QED BY <1>4, <4>1, Tried, AnswerEffect DEF Answered
    <3> QED BY <2>2, <2>5, <3>1 DEF Overwrites
  <2> QED BY <2>1, <2>2, <2>3, <2>4, <2>5 DEF TryReserved
<1>5. CASE OtherCalls
  BY <1>5 DEF OtherCalls, StoreNext
<1> QED BY <1>1, <1>2, <1>3, <1>4, <1>5 DEF SchedulerNext

LEMMA StoreSteps ==
    ASSUME AttemptsOK, [SchedulerNext]_schedulerVars
    PROVE  [OverlappedNext]_storeVars
<1>1. ASSUME NEW v \in Planners, Overwrites(v)
      PROVE  OverlappedNext
  <2>1. Id(v) \in ReservationIds /\ Request(v).gpu_count \in GpuCounts
    BY <1>1, AttemptAsks DEF Overwrites
  <2> QED BY <1>1, <2>1 DEF Overwrites, OverlappedNext
<1> QED BY <1>1, StoreCalls DEF OverlappedNext

\* The candidates recorded as full are pools.
LEMMA HistoryTyped ==
    ASSUME AttemptsOK, AttemptsOK', seenFull \in [Planners -> SUBSET Pools], Record
    PROVE  /\ seenFull' \in [Planners -> SUBSET Pools]
           /\ disowned' \in SUBSET Planners
<1>1. disowned' \in SUBSET Planners
  BY DEF Record
<1>2. ASSUME NEW w \in Planners
      PROVE  seenFull'[w] \in SUBSET Pools
  <2>1. CASE Planning(w)'
    <3>1. seenFull'[w] = (IF Planning(w) THEN seenFull[w] ELSE {}) \cup FullNow(w)'
      BY <2>1 DEF Record, Planning
    <3>2. FullNow(w)' \subseteq Candidates(w)'
      BY DEF FullNow
    <3>3. Candidates(w)' \subseteq Pools
      BY <2>1, RequestsOK DEF Planning, AttemptsOK, AttemptOK
    <3> QED BY <3>1, <3>2, <3>3
  <2>2. CASE planners'[w].pc = "done"
    BY <2>2 DEF Record, Planning
  <2>3. CASE planners'[w].pc = "idle"
    BY <2>3 DEF Record, Planning
  <2> QED BY <2>1, <2>2, <2>3 DEF AttemptsOK, AttemptOK, PlannerStates, Planning
<1> DEFINE Next(w) ==
        CASE Planning(w)' -> (IF Planning(w) THEN seenFull[w] ELSE {}) \cup FullNow(w)'
          [] planners'[w].pc = "done" -> seenFull[w]
          [] planners'[w].pc = "idle" -> {}
<1>3. seenFull' = [w \in Planners |-> Next(w)]
  BY DEF Record
<1> HIDE DEF Next
<1> QED BY <1>1, <1>2, <1>3

LEMMA SchedulerTypeStep ==
    ASSUME SchedulerTypeInv, [SchedulerNext]_schedulerVars
    PROVE  SchedulerTypeInv'
<1> USE DEF SchedulerTypeInv
<1>1. CASE UNCHANGED schedulerVars
  BY <1>1 DEF schedulerVars, storeVars, history, SchedulerTypeOK, StoreTypeOK,
              AttemptsOK, AttemptOK, Request, Candidates, Present, Held
<1>2. CASE SchedulerNext
  <2>1. StoreTypeOK /\ StoreTypeOK'
    BY StoreSteps, StoreTypeStep DEF SchedulerTypeOK
  <2>2. ASSUME NEW w \in Planners, AttemptOK(w)', DOMAIN planners' = Planners,
               \A v \in Planners \ {w} : planners'[v] = planners[v]
        PROVE  AttemptsOK'
    BY <2>2 DEF AttemptsOK, AttemptOK, Request, Candidates
  <2>3. ASSUME NEW w \in Planners, NEW data \in Events, LookUp(w, data)
        PROVE  AttemptsOK'
    <3>1. Id(w)' \in ReservationIds
      BY <2>3, LookUpEffect, RequestsOK DEF Id
    <3>2. Held(Id(w)') => reservations[Id(w)'] \in CapacityReservation
      BY <2>1, <3>1, HeldIsRow
    <3>3. AttemptOK(w)'
      BY <2>3, <3>2, LookUpEffect, Decided DEF AttemptOK, PlannerStates
    <3> QED BY <2>2, <2>3, <3>3, LookUpEffect
  <2>4. ASSUME NEW w \in Planners, Snapshot(w) PROVE AttemptsOK'
    <3>1. AttemptOK(w) /\ planners[w].pc = "snapshot"
      BY <2>4, SnapshotEffect DEF AttemptsOK
    <3>2. AttemptOK(w)'
      BY <2>4, <3>1, SnapshotEffect, Decided DEF AttemptOK, PlannerStates, FindsNoRow
    <3> QED BY <2>2, <2>4, <3>2, SnapshotEffect
  <2>5. ASSUME NEW w \in Planners, TryPool(w) PROVE AttemptsOK'
    <3>1. AttemptOK(w) /\ planners[w].pc = "try"
      BY <2>5, Tried DEF AttemptsOK
    <3>2. PICK p \in Pools : TryReserved(w, p) \/ TryFull(w, p)
      BY <2>5, Tried
    <3>3. CASE TryReserved(w, p)
      <4>1. /\ DOMAIN planners' = Planners
            /\ \A v \in Planners \ {w} : planners'[v] = planners[v]
            /\ Answered(w)
            /\ Held(Id(w))'
            /\ planners[w].decision' = reservations'[Id(w)]
        BY <2>1, <3>1, <3>3, TryReservedEffect
      <4>2. PICK id \in ReservationIds : id = Id(w) /\ id = Id(w)'
        BY <3>1, <4>1, AttemptAsks DEF Answered, Id
      <4>3. reservations'[id] \in CapacityReservation
        BY <2>1, <4>1, <4>2 DEF Held, StoreTypeOK, NoRow, ActiveReservationStatuses
      <4>4. AttemptOK(w)'
        BY <3>1, <4>1, <4>2, <4>3, Decided DEF AttemptOK, Answered, PlannerStates
      <4> QED BY <2>2, <4>1, <4>4
    <3>4. CASE TryFull(w, p)
      <4>0. /\ DOMAIN planners[w]' = DOMAIN Idle
            /\ planners[w].data' = planners[w].data
            /\ Request(w)' = Request(w)
            /\ Candidates(w)' = Candidates(w)
            /\ planners[w].pc' \in {"try", "done"}
        BY <3>1, <3>4, TryFullEffect
      <4>1. ASSUME planners[w].pc' = "done" PROVE AttemptOK(w)'
        <5>1. planners[w].decision' = PENDING /\ planners[w].blind' = FALSE
          BY <3>1, <3>4, <4>1, TryFullEffect
        <5> QED BY <3>1, <4>0, <4>1, <5>1, Decided DEF AttemptOK, PlannerStates
      <4>2. ASSUME planners[w].pc' = "try" PROVE AttemptOK(w)'
        <5>1. /\ planners[w].blind' = FindsNoRow(w)
              /\ planners[w].untried # {p}
              /\ planners[w].untried' = planners[w].untried \ {p}
              /\ planners[w].decision' = planners[w].decision
          BY <3>1, <3>4, <4>2, TryFullEffect
        <5>2. planners[w].blind' => Durable
          BY <5>1 DEF FindsNoRow
        <5> QED BY <3>1, <4>0, <4>2, <5>1, <5>2 DEF AttemptOK, PlannerStates
      <4> QED BY <2>2, <3>1, <3>4, <4>0, <4>1, <4>2, TryFullEffect
    <3> QED BY <3>2, <3>3, <3>4
  <2>6. ASSUME NEW w \in Planners, EndAttempt(w) PROVE AttemptsOK'
    <3>1. AttemptOK(w)'
      BY <2>6, EndAttemptEffect DEF AttemptOK, Idle, PlannerStates
    <3> QED BY <2>2, <2>6, <3>1, EndAttemptEffect
  <2>7. ASSUME OtherCalls PROVE AttemptsOK'
    BY <2>7 DEF OtherCalls, AttemptsOK, AttemptOK, Request, Candidates
  <2>8. AttemptsOK'
    BY <1>2, <2>3, <2>4, <2>5, <2>6, <2>7 DEF SchedulerNext
  <2>9. seenFull' \in [Planners -> SUBSET Pools] /\ disowned' \in SUBSET Planners
    BY <1>2, <2>8, HistoryTyped DEF SchedulerNext, SchedulerTypeOK
  <2> QED BY <2>1, <2>8, <2>9 DEF SchedulerTypeOK, AttemptsOK, AttemptOK
<1> QED BY <1>1, <1>2

LEMMA SchedulerInitType == SchedulerInit => SchedulerTypeInv
BY DEF SchedulerInit, SchedulerTypeInv, SchedulerTypeOK, AttemptsOK, AttemptOK, Idle,
       PlannerStates, StoreInit, StoreTypeOK, EmptyTable

\* SchedulerTypeOK: the attempts, their decisions and the table stay well typed,
\* and an attempt works on the request and the candidates of its own event
\* (scheduler.py:494-525).
THEOREM SchedulerTypeCorrect == SchedulerSpec => []SchedulerTypeOK
<1>1. SchedulerTypeInv => SchedulerTypeOK
  BY DEF SchedulerTypeInv
<1> QED BY <1>1, SchedulerInitType, SchedulerTypeStep, PTL DEF SchedulerSpec

\* GpuPlacementScheduler adds nothing to what the store's callers may do: its
\* attempts are sequences of store calls, whatever their interleaving, also where
\* two of them reserve one reservation and overlap, so what is proved of a store
\* whose reserves may overlap holds of a scheduler (scheduler.py:494-531).
THEOREM SchedulerImplementsStore == SchedulerSpec => OverlappedStoreSpec
<1>1. SchedulerInit => StoreInit
  BY DEF SchedulerInit
<1>2. SchedulerTypeInv /\ [SchedulerNext]_schedulerVars => [OverlappedNext]_storeVars
  BY StoreSteps DEF SchedulerTypeInv
<1> QED BY <1>1, <1>2, SchedulerInitType, SchedulerTypeStep, PTL
        DEF SchedulerSpec, OverlappedStoreSpec

-----------------------------------------------------------------------------
(* Policy *)

\* Some event that asks for the reservation allows the pool.
Allowed(id, p) ==
    \E data \in Events :
        /\ ReservationIdFor(BuildPlacementRequest(data)) = id
        /\ WithinPolicy(data, p)

\* Rows outlive the attempts that made them, so the policy has to hold of the
\* table as well.
PolicyInv ==
    /\ SchedulerTypeInv
    /\ \A id \in ReservationIds : Present(id) => Allowed(id, reservations[id].pool_id)
    /\ \A w \in Planners : Placed(w) => Allowed(Id(w), planners[w].decision.pool_id)

\* mark_active and release leave the pool of a row alone.
LEMMA OtherCallsKeepPools ==
    ASSUME StoreTypeOK, OtherCalls, NEW id \in ReservationIds, Present(id)'
    PROVE  Present(id) /\ reservations'[id].pool_id = reservations[id].pool_id
BY DEF OtherCalls, MarkActive, Release, StoreTypeOK, CapacityReservation, Present, NoRow

LEMMA PolicyStep ==
    ASSUME PolicyInv, [SchedulerNext]_schedulerVars
    PROVE  PolicyInv'
<1> USE DEF PolicyInv
<1>0. /\ SchedulerTypeInv' /\ SchedulerTypeInv
      /\ AttemptsOK /\ AttemptsOK' /\ StoreTypeOK /\ StoreTypeOK'
  BY SchedulerTypeStep DEF SchedulerTypeInv, SchedulerTypeOK
<1>1. CASE UNCHANGED schedulerVars
  BY <1>0, <1>1 DEF schedulerVars, storeVars, Present, Placed, Id, Request
<1>2. ASSUME NEW w \in Planners, reservations' = reservations,
             \A v \in Planners \ {w} : planners'[v] = planners[v],
             Placed(w)' => \/ Allowed(Id(w)', planners'[w].decision.pool_id)
                          \/ /\ Present(Id(w)')
                             /\ Id(w)' \in ReservationIds
                             /\ planners[w].decision' = reservations[Id(w)']
      PROVE  PolicyInv'
  <2>1. \A id \in ReservationIds :
            Present(id)' => Allowed(id, reservations[id].pool_id)'
    BY <1>2 DEF Present
  <2>2. Placed(w)' => Allowed(Id(w), planners[w].decision.pool_id)'
    BY <1>2
  <2>3. ASSUME NEW v \in Planners \ {w}, Placed(v)'
        PROVE  Allowed(Id(v), planners[v].decision.pool_id)'
    BY <1>2, <2>3 DEF Placed, Id, Request
  <2> QED BY <1>0, <2>1, <2>2, <2>3
<1>3. ASSUME NEW w \in Planners, NEW data \in Events, LookUp(w, data)
      PROVE  PolicyInv'
  <2>1. /\ reservations' = reservations
        /\ \A v \in Planners \ {w} : planners'[v] = planners[v]
        /\ Id(w)' \in ReservationIds
        /\ \/ planners[w].decision' \in {Undecided, PENDING}
           \/ /\ Held(Id(w)')
              /\ planners[w].decision' = reservations[Id(w)']
    BY <1>0, <1>3, LookUpEffect, RequestsOK DEF storeVars, Id
  <2>2. Held(Id(w)') => Present(Id(w)')
    BY DEF Held, Present, ActiveReservationStatuses
  <2> QED BY <1>2, <2>1, <2>2, Decided DEF Placed
<1>4. ASSUME NEW w \in Planners, Snapshot(w) PROVE PolicyInv'
  <2>1. planners[w].decision = Undecided
    BY <1>0, <1>4, SnapshotEffect DEF AttemptsOK, AttemptOK
  <2>2. /\ reservations' = reservations
        /\ \A v \in Planners \ {w} : planners'[v] = planners[v]
        /\ planners[w].decision' \in {Undecided, PENDING}
    BY <1>0, <1>4, <2>1, SnapshotEffect DEF storeVars
  <2> QED BY <1>2, <2>2, Decided DEF Placed
<1>5. ASSUME NEW w \in Planners, TryPool(w) PROVE PolicyInv'
  <2>1. PICK p \in Pools : p \in Candidates(w) /\ (TryReserved(w, p) \/ TryFull(w, p))
    BY <1>0, <1>5, Tried
  <2>2. /\ planners[w].pc = "try" /\ planners[w].decision = Undecided
        /\ planners[w].data \in Events
        /\ Request(w) = BuildPlacementRequest(planners[w].data)
        /\ Candidates(w) = CandidatePools(Request(w))
    BY <1>0, <1>5, Tried DEF AttemptsOK, AttemptOK
  <2>3. PICK id \in ReservationIds : id = Id(w)
    BY <1>0, <2>2, AttemptAsks
  <2>4. Allowed(id, p)
    <3>1. PICK data \in Events : data = planners[w].data
      BY <2>2
    <3>2. WithinPolicy(data, p)
      BY <2>1, <2>2, <3>1, CandidatesWithinPolicy
    <3> QED BY <2>2, <2>3, <3>1, <3>2 DEF Allowed, Id
  <2>5. CASE TryReserved(w, p)
    <3>1. /\ \A v \in Planners \ {w} : planners'[v] = planners[v]
          /\ id = Id(w)'
          /\ Held(id)'
          /\ planners[w].decision' = reservations'[id]
      BY <1>0, <2>2, <2>3, <2>5, TryReservedEffect DEF Answered, Id
    <3>2. CASE ReserveExisting(Id(w))
      <4>1. Present(id) /\ reservations' = reservations
        BY <2>3, <3>2 DEF ReserveExisting, Held, Present, ActiveReservationStatuses, storeVars
      <4> QED BY <1>2, <2>3, <3>1, <4>1
    <3>3. CASE \/ ReserveNew(Id(w), p, Request(w).gpu_count)
               \/ Overwrite(Id(w), p, Request(w).gpu_count)
      <4>1. /\ reservations'[id].pool_id = p
            /\ \A i \in ReservationIds \ {id} : reservations'[i] = reservations[i]
        BY <1>0, <2>3, <3>3 DEF ReserveNew, Overwrite, StoreTypeOK
      <4>2. \A i \in ReservationIds : Present(i)' => Allowed(i, reservations'[i].pool_id)
        BY <2>4, <4>1 DEF Present
      <4>3. Allowed(Id(w)', planners'[w].decision.pool_id)
        BY <2>4, <3>1, <4>1
      <4>4. ASSUME NEW v \in Planners \ {w}, Placed(v)'
            PROVE  Allowed(Id(v)', planners'[v].decision.pool_id)
        BY <3>1, <4>4 DEF Placed, Id, Request
      <4> QED BY <1>0, <4>2, <4>3, <4>4
    <3> QED BY <2>5, <3>2, <3>3 DEF TryReserved
  <2>6. CASE TryFull(w, p)
    <3>1. /\ reservations' = reservations
          /\ \A v \in Planners \ {w} : planners'[v] = planners[v]
          /\ planners[w].decision' \in {Undecided, PENDING}
      BY <1>0, <2>2, <2>6, TryFullEffect DEF storeVars
    <3> QED BY <1>2, <3>1, Decided DEF Placed
  <2> QED BY <2>1, <2>5, <2>6
<1>6. ASSUME NEW w \in Planners, EndAttempt(w) PROVE PolicyInv'
  <2>1. /\ reservations' = reservations
        /\ \A v \in Planners \ {w} : planners'[v] = planners[v]
        /\ planners[w].decision' = Undecided
    BY <1>0, <1>6, EndAttemptEffect DEF storeVars, Idle
  <2> QED BY <1>2, <2>1, Decided DEF Placed
<1>7. CASE OtherCalls
  <2>1. planners' = planners
    BY <1>7 DEF OtherCalls
  <2>2. \A id \in ReservationIds : Present(id)' => Allowed(id, reservations'[id].pool_id)
    BY <1>0, <1>7, OtherCallsKeepPools
  <2> QED BY <1>0, <2>1, <2>2 DEF Placed, Id, Request
<1> QED BY <1>1, <1>3, <1>4, <1>5, <1>6, <1>7 DEF SchedulerNext

\* PlacedWithinPolicy: no interleaving of attempts, activations and releases
\* places an allocation outside what its own event allows, also where ids that
\* are joined from other parts read the same (scheduler.py:236-243, 533-542).
THEOREM PlacementsObeyPolicy == SchedulerSpec => []PlacedWithinPolicy
<1>1. SchedulerInit => PolicyInv
  BY SchedulerInitType, Decided
  DEF SchedulerInit, PolicyInv, StoreInit, EmptyTable, NoRow, Present, Placed, Idle
<1>2. PolicyInv => PlacedWithinPolicy
  <2> SUFFICES ASSUME PolicyInv, NEW w \in Planners, Placed(w),
                      planners[w].data.allocation_id # NotGiven
               PROVE  WithinPolicy(planners[w].data, planners[w].decision.pool_id)
    BY DEF PlacedWithinPolicy
  <2>1. PICK data \in Events :
            /\ ReservationIdFor(BuildPlacementRequest(data)) = Id(w)
            /\ WithinPolicy(data, planners[w].decision.pool_id)
    BY DEF PolicyInv, Allowed
  <2>2. PICK own \in Events :
            own = planners[w].data /\ Request(w) = BuildPlacementRequest(own)
    BY Decided DEF PolicyInv, SchedulerTypeInv, AttemptsOK, AttemptOK, Placed
  <2>3. own = data
    BY <2>1, <2>2, AllocationIdAssumption DEF Id
  <2> QED BY <2>1, <2>2, <2>3
<1> QED BY <1>1, <1>2, PolicyStep, PTL DEF SchedulerSpec

-----------------------------------------------------------------------------
(* Answers stand *)

\* An attempt is over when it was, or has just been answered.
LEMMA HowAttemptsEnd ==
    ASSUME SchedulerTypeInv, SchedulerNext, NEW w \in Planners, planners'[w].pc = "done"
    PROVE  \/ planners'[w] = planners[w]
           \/ planners[w].pc # "done" /\ planners[w].decision' = PENDING
           \/ /\ planners[w].pc # "done"
              /\ Held(Id(w))'
              /\ planners[w].decision' = reservations'[Id(w)']
<1>0. AttemptsOK /\ StoreTypeOK /\ StoreTypeOK'
  BY SchedulerTypeStep DEF SchedulerTypeInv, SchedulerTypeOK
<1>1. ASSUME NEW v \in Planners, NEW data \in Events, LookUp(v, data), v = w
      PROVE  \/ planners[w].pc # "done" /\ planners[w].decision' = PENDING
             \/ /\ planners[w].pc # "done"
                /\ Held(Id(w))'
                /\ planners[w].decision' = reservations'[Id(w)']
  BY <1>0, <1>1, LookUpEffect DEF Held, storeVars
<1>2. ASSUME NEW v \in Planners, NEW data \in Events, LookUp(v, data), v # w
      PROVE  planners'[w] = planners[w]
  BY <1>0, <1>2, LookUpEffect
<1>3. ASSUME NEW v \in Planners, Snapshot(v)
      PROVE  \/ planners'[w] = planners[w]
             \/ planners[w].pc # "done" /\ planners[w].decision' = PENDING
  BY <1>0, <1>3, SnapshotEffect
<1>4. ASSUME NEW v \in Planners, TryPool(v)
      PROVE  \/ planners'[w] = planners[w]
             \/ planners[w].pc # "done" /\ planners[w].decision' = PENDING
             \/ /\ planners[w].pc # "done"
                /\ Held(Id(w))'
                /\ planners[w].decision' = reservations'[Id(w)']
  <2>1. planners[v].pc = "try"
    BY <1>0, <1>4, Tried
  <2>2. PICK p \in Pools : TryReserved(v, p) \/ TryFull(v, p)
    BY <1>0, <1>4, Tried
  <2>3. CASE TryReserved(v, p)
    <3>1. Id(v)' = Id(v)
      BY <1>0, <2>1, <2>3, TryReservedEffect DEF Answered, Id
    <3> QED BY <1>0, <2>1, <2>3, <3>1, TryReservedEffect
  <2>4. CASE TryFull(v, p)
    BY <1>0, <2>1, <2>4, TryFullEffect
  <2> QED BY <2>2, <2>3, <2>4
<1>5. ASSUME NEW v \in Planners, EndAttempt(v)
      PROVE  planners'[w] = planners[w]
  BY <1>0, <1>5, EndAttemptEffect DEF Idle
<1>6. ASSUME OtherCalls PROVE planners'[w] = planners[w]
  BY <1>6 DEF OtherCalls
<1> QED BY <1>1, <1>2, <1>3, <1>4, <1>5, <1>6 DEF SchedulerNext

LEMMA DecisionStep ==
    ASSUME SchedulerTypeInv, DecisionStands, [SchedulerNext]_schedulerVars
    PROVE  DecisionStands'
<1>0. AttemptsOK /\ AttemptsOK' /\ StoreTypeOK /\ StoreTypeOK'
  BY SchedulerTypeStep DEF SchedulerTypeInv, SchedulerTypeOK
<1>1. CASE UNCHANGED schedulerVars
  BY <1>1 DEF schedulerVars, storeVars, history, DecisionStands, Placed, Held, Id, Request
<1>2. CASE SchedulerNext
  <2> SUFFICES ASSUME NEW w \in Planners, Placed(w)', w \notin disowned'
               PROVE  /\ Held(Id(w))'
                      /\ reservations'[Id(w)'].pool_id = planners'[w].decision.pool_id
                      /\ reservations'[Id(w)'].gpu_count = planners'[w].decision.gpu_count
    BY DEF DecisionStands
  <2>1. planners'[w].decision \in CapacityReservation /\ planners'[w].pc = "done"
    BY <1>0, Decided DEF Placed, AttemptsOK, AttemptOK
  <2>2. CASE planners'[w] = planners[w]
    <3>1. /\ Placed(w) /\ Id(w)' = Id(w)
          /\ planners[w].pc = "done"
      BY <2>1, <2>2 DEF Placed, Id, Request
    <3>2. /\ w \notin disowned /\ Held(Id(w))'
          /\ \A v \in Planners : ~MadeAgain(v, Id(w))
      BY <1>2, <2>1, <3>1 DEF SchedulerNext, Record
    <3>3. PICK id \in ReservationIds : id = Id(w) /\ id = Id(w)'
      BY <1>0, <3>1, AttemptAsks
    <3>4. /\ Held(id) /\ Held(id)'
          /\ reservations[id].pool_id = planners[w].decision.pool_id
          /\ reservations[id].gpu_count = planners[w].decision.gpu_count
      BY <3>1, <3>2, <3>3 DEF DecisionStands, Held
    <3>5. CASE [StoreNext]_storeVars
      <4>1. HeldStays
        BY <1>0, <3>5, HeldStaysStep
      <4> QED BY <2>2, <3>2, <3>3, <3>4, <4>1 DEF HeldStays
    <3>6. ASSUME NEW v \in Planners, Overwrites(v)
          PROVE  reservations'[id] = reservations[id]
      <4>1. Id(v) # id
        BY <3>2, <3>3, <3>6 DEF MadeAgain, Overwrites
      <4> QED BY <1>0, <3>6, <4>1 DEF Overwrites, Overwrite, StoreTypeOK
    <3> QED BY <1>0, <1>2, <2>2, <3>2, <3>3, <3>4, <3>5, <3>6, StoreCalls
  <2>3. CASE Held(Id(w))' /\ planners[w].decision' = reservations'[Id(w)']
    BY <2>3
  <2> QED BY <1>2, <2>1, <2>2, <2>3, HowAttemptsEnd, Decided
<1> QED BY <1>1, <1>2

\* DecisionStands: what a workflow was told holds in the table until somebody
\* releases the reservation or an attempt that overlapped answers, for any number
\* of attempts and retries.
THEOREM DecisionsStand == SchedulerSpec => []DecisionStands
<1>1. SchedulerInit => DecisionStands
  BY Decided DEF SchedulerInit, DecisionStands, Placed, Idle
<1> QED BY <1>1, SchedulerInitType, SchedulerTypeStep, DecisionStep, PTL DEF SchedulerSpec

-----------------------------------------------------------------------------
(* Pools passed over *)

\* Whatever is full while an attempt runs is recorded, and a pool that the
\* attempt has dropped from its list is on record.
SeenOf(w) ==
    /\ Planning(w) => FullNow(w) \subseteq seenFull[w]
    /\ planners[w].pc = "try" => Candidates(w) \ planners[w].untried \subseteq seenFull[w]
    /\ planners[w].decision = PENDING => Candidates(w) \subseteq seenFull[w]

SeenInv == SchedulerTypeInv /\ \A w \in Planners : SeenOf(w)

LEMMA RecordKeeps ==
    ASSUME Record, NEW w \in Planners
    PROVE  /\ Planning(w)' =>
                 /\ FullNow(w)' \subseteq seenFull'[w]
                 /\ Planning(w) => seenFull[w] \subseteq seenFull'[w]
           /\ planners'[w].pc = "done" => seenFull'[w] = seenFull[w]
<1>1. ASSUME Planning(w)'
      PROVE  seenFull'[w] = (IF Planning(w) THEN seenFull[w] ELSE {}) \cup FullNow(w)'
  BY <1>1 DEF Record, Planning
<1>2. ASSUME planners'[w].pc = "done" PROVE seenFull'[w] = seenFull[w]
  BY <1>2 DEF Record, Planning
<1> QED BY <1>1, <1>2

LEMMA SeenStep ==
    ASSUME SeenInv, [SchedulerNext]_schedulerVars
    PROVE  SeenInv'
<1> USE DEF SeenInv
<1>0. SchedulerTypeInv' /\ AttemptsOK /\ AttemptsOK'
  BY SchedulerTypeStep DEF SchedulerTypeInv
<1>1. CASE UNCHANGED schedulerVars
  BY <1>0, <1>1 DEF schedulerVars, storeVars, history, SeenOf, Planning, FullNow,
                    Candidates, Request, HasRoom, UsedGpus, HeldUnits, HeldInPool, Held
<1>2. CASE SchedulerNext
  <2>0. Record
    BY <1>2 DEF SchedulerNext
  <2>1. ASSUME NEW v \in Planners, planners'[v] = planners[v]
        PROVE  SeenOf(v)'
    <3>1. /\ Planning(v)' = Planning(v) /\ Candidates(v)' = Candidates(v)
          /\ planners[v].decision = PENDING => planners[v].pc = "done"
      BY <1>0, <2>1, Decided DEF Planning, Candidates, AttemptsOK, AttemptOK
    <3> QED BY <2>0, <2>1, <3>1, RecordKeeps DEF SeenOf, Planning
  <2>2. ASSUME NEW w \in Planners, SeenOf(w)',
               \A v \in Planners \ {w} : planners'[v] = planners[v]
        PROVE  SeenInv'
    BY <1>0, <2>1, <2>2
  <2>3. ASSUME NEW w \in Planners, NEW data \in Events, LookUp(w, data)
        PROVE  SeenInv'
    <3>1. /\ planners[w].pc' \in {"snapshot", "done"}
          /\ planners[w].pc' = "snapshot" => planners[w].decision' = Undecided
          /\ planners[w].decision' = PENDING =>
                \/ Held(Id(w)') /\ planners[w].decision' = reservations[Id(w)']
                \/ Candidates(w)' = {}
          /\ \A v \in Planners \ {w} : planners'[v] = planners[v]
          /\ Id(w)' \in ReservationIds
      BY <1>0, <2>3, LookUpEffect, RequestsOK, Decided DEF Id
    <3>2. planners[w].decision' = PENDING => Candidates(w)' = {}
      BY <3>1, HeldIsRow, Decided DEF SchedulerTypeInv, SchedulerTypeOK
    <3>3. SeenOf(w)'
      BY <2>0, <3>1, <3>2, RecordKeeps DEF SeenOf
    <3> QED BY <2>2, <3>1, <3>3
  <2>4. ASSUME NEW w \in Planners, Snapshot(w) PROVE SeenInv'
    <3> DEFINE fitting == {p \in Candidates(w) : TotalGpus(p) - ReservedGpusByPool(p)
                                                    >= Request(w).gpu_count}
    <3>1. /\ planners[w].pc = "snapshot" /\ planners[w].decision = Undecided
          /\ Candidates(w) \subseteq Pools
      BY <1>0, <2>4, SnapshotEffect, AttemptAsks DEF AttemptsOK, AttemptOK
    <3>2. Candidates(w) \ fitting \subseteq FullNow(w)
      BY <3>1, SnapshotAgrees DEF FullNow, HasRoom, SchedulerTypeInv, SchedulerTypeOK
    <3>3. Candidates(w) \ fitting \subseteq seenFull[w]
      BY <3>1, <3>2 DEF SeenOf, Planning
    <3>4. /\ Candidates(w)' = Candidates(w)
          /\ \A v \in Planners \ {w} : planners'[v] = planners[v]
          /\ \/ /\ fitting = {} /\ planners[w].pc' = "done"
                /\ planners[w].decision' = PENDING
             \/ /\ planners[w].pc' = "try" /\ planners[w].untried' = fitting
                /\ planners[w].decision' = Undecided
      BY <1>0, <2>4, <3>1, SnapshotEffect
    <3> HIDE DEF fitting
    <3>5. SeenOf(w)'
      BY <2>0, <3>1, <3>3, <3>4, RecordKeeps, Decided DEF SeenOf, Planning
    <3> QED BY <2>2, <3>4, <3>5
  <2>5. ASSUME NEW w \in Planners, TryPool(w) PROVE SeenInv'
    <3>1. planners[w].pc = "try" /\ planners[w].decision = Undecided
      BY <1>0, <2>5, Tried DEF AttemptsOK, AttemptOK
    <3>2. PICK p \in Pools : p \in Candidates(w) /\ (TryReserved(w, p) \/ TryFull(w, p))
      BY <1>0, <2>5, Tried
    <3>3. CASE TryReserved(w, p)
      <4>1. StoreTypeOK /\ StoreTypeOK'
        BY <1>0 DEF SchedulerTypeInv, SchedulerTypeOK
      <4>2. /\ \A v \in Planners \ {w} : planners'[v] = planners[v]
            /\ Answered(w) /\ Held(Id(w))'
            /\ planners[w].decision' = reservations'[Id(w)]
        BY <1>0, <3>1, <3>3, <4>1, TryReservedEffect
      <4>3. PICK id \in ReservationIds : id = Id(w) /\ id = Id(w)'
        BY <1>0, <3>1, <4>2, AttemptAsks DEF Answered, Id
      <4>4. reservations'[id] \in CapacityReservation
        BY <4>1, <4>2, <4>3 DEF Held, StoreTypeOK, NoRow, ActiveReservationStatuses
      <4>5. planners[w].decision' # PENDING
        BY <4>2, <4>3, <4>4, Decided
      <4>6. SeenOf(w)'
        BY <4>2, <4>5 DEF SeenOf, Planning, Answered
      <4> QED BY <2>2, <4>2, <4>6
    <3>4. CASE TryFull(w, p)
      <4>1. /\ ~HasRoom(p, Request(w).gpu_count)
            /\ Candidates(w)' = Candidates(w)
            /\ \A v \in Planners \ {w} : planners'[v] = planners[v]
            /\ \/ /\ planners[w].untried = {p} /\ planners[w].pc' = "done"
                  /\ planners[w].decision' = PENDING
               \/ /\ planners[w].pc' = "try"
                  /\ planners[w].untried' = planners[w].untried \ {p}
                  /\ planners[w].decision' = Undecided
        BY <1>0, <3>1, <3>4, TryFullEffect
      <4>2. p \in seenFull[w]
        BY <3>1, <3>2, <4>1 DEF SeenOf, Planning, FullNow
      <4>3. Candidates(w) \ planners[w].untried \subseteq seenFull[w]
        BY <3>1 DEF SeenOf
      <4>4. SeenOf(w)'
        BY <2>0, <3>1, <4>1, <4>2, <4>3, RecordKeeps, Decided DEF SeenOf, Planning
      <4> QED BY <2>2, <4>1, <4>4
    <3> QED BY <3>2, <3>3, <3>4
  <2>6. ASSUME NEW w \in Planners, EndAttempt(w) PROVE SeenInv'
    <3>1. SeenOf(w)'
      BY <1>0, <2>6, EndAttemptEffect, Decided DEF SeenOf, Planning, Idle
    <3> QED BY <1>0, <2>2, <2>6, <3>1, EndAttemptEffect
  <2>7. ASSUME OtherCalls PROVE SeenInv'
    BY <1>0, <2>1, <2>7 DEF OtherCalls
  <2> QED BY <1>2, <2>3, <2>4, <2>5, <2>6, <2>7 DEF SchedulerNext
<1> QED BY <1>1, <1>2

LEMMA SchedulerInitSeen == SchedulerInit => SeenInv
BY SchedulerInitType, Decided DEF SchedulerInit, SeenInv, SeenOf, Planning, Idle

\* PendingOnlyIfEachSeenFull: no request is left pending because of a stale
\* snapshot alone (scheduler.py:511-525).
THEOREM PendingIsJustified == SchedulerSpec => []PendingOnlyIfEachSeenFull
<1>1. SeenInv => PendingOnlyIfEachSeenFull
  BY DEF SeenInv, SeenOf, PendingOnlyIfEachSeenFull
<1> QED BY <1>1, SchedulerInitSeen, SeenStep, PTL DEF SchedulerSpec

\* What FallbackOnlyFromFullPools says of one step.
FallsBackOnlyFromFull ==
    \A w \in Planners :
        /\ Planning(w)
        /\ planners'[w].pc = "done"
        /\ reservations'[Id(w)] # reservations[Id(w)]
        => \A q \in Candidates(w) :
              Nearer(w, q, planners'[w].decision.pool_id) => q \in seenFull[w]

LEMMA FallbackStep ==
    ASSUME SeenInv, SchedulerNext
    PROVE  FallsBackOnlyFromFull
<1> SUFFICES ASSUME NEW w \in Planners, Planning(w), planners'[w].pc = "done",
                    reservations'[Id(w)] # reservations[Id(w)],
                    NEW q \in Candidates(w), Nearer(w, q, planners'[w].decision.pool_id)
             PROVE  q \in seenFull[w]
  BY DEF FallsBackOnlyFromFull
<1>0. /\ AttemptsOK /\ AttemptsOK' /\ StoreTypeOK /\ StoreTypeOK'
      /\ planners'[w] # planners[w]
      /\ planners[w].pc # "idle"
  BY SchedulerTypeStep DEF SeenInv, SchedulerTypeInv, SchedulerTypeOK, Planning
<1>1. ASSUME NEW v \in Planners, NEW data \in Events, LookUp(v, data) PROVE FALSE
  BY <1>0, <1>1, LookUpEffect
<1>2. ASSUME NEW v \in Planners, Snapshot(v) PROVE FALSE
  BY <1>0, <1>2, SnapshotEffect DEF storeVars
<1>3. ASSUME NEW v \in Planners, EndAttempt(v) PROVE FALSE
  BY <1>0, <1>3, EndAttemptEffect DEF Idle
<1>4. ASSUME OtherCalls PROVE FALSE
  BY <1>0, <1>4 DEF OtherCalls
<1>5. ASSUME NEW v \in Planners, TryPool(v) PROVE q \in seenFull[w]
  <2>1. planners[v].pc = "try"
    BY <1>0, <1>5, Tried
  <2>2. PICK p \in Pools :
            /\ p \in FirstRanked(Request(v), planners[v].untried, planners[v].free)
            /\ TryReserved(v, p) \/ TryFull(v, p)
    BY <1>0, <1>5, Tried
  <2>3. CASE TryFull(v, p)
    BY <1>0, <2>1, <2>3, TryFullEffect DEF storeVars
  <2>4. CASE TryReserved(v, p)
    <3>1. v = w
      BY <1>0, <2>1, <2>4, TryReservedEffect
    <3>2. PICK id \in ReservationIds : id = Id(w) /\ id = Id(w)'
      BY <1>0, <2>1, <2>4, <3>1, AttemptAsks, TryReservedEffect DEF Answered, Id
    <3>3. \/ ReserveNew(id, p, Request(w).gpu_count)
          \/ Overwrite(id, p, Request(w).gpu_count)
      BY <2>4, <3>1, <3>2 DEF TryReserved, ReserveExisting, storeVars
    <3>4. planners'[w].decision.pool_id = p
      <4>1. planners[w].decision' = reservations'[id]
        BY <1>0, <2>1, <2>4, <3>1, <3>2, TryReservedEffect
      <4>2. reservations'[id].pool_id = p
        BY <1>0, <3>3 DEF ReserveNew, Overwrite, StoreTypeOK
      <4> QED BY <4>1, <4>2
    <3>5. PICK untried, free :
              /\ untried \in SUBSET Pools
              /\ untried = planners[w].untried /\ free = planners[w].free
      BY <1>0, <2>1, <3>1, AttemptAsks DEF AttemptsOK, AttemptOK
    <3>6. q \notin untried
      BY <2>2, <3>1, <3>4, <3>5, FirstIsNearest
    <3> QED BY <2>1, <3>1, <3>5, <3>6 DEF SeenInv, SeenOf
  <2> QED BY <2>2, <2>3, <2>4
<1> QED BY <1>1, <1>2, <1>3, <1>4, <1>5 DEF SchedulerNext

\* FallbackOnlyFromFullPools: no attempt passes over a nearer pool that had room
\* all the time (scheduler.py:513-520).
THEOREM FallbackIsJustified == SchedulerSpec => FallbackOnlyFromFullPools
<1>1. SeenInv /\ [SchedulerNext]_schedulerVars => [FallsBackOnlyFromFull]_schedulerVars
  BY FallbackStep
<1> QED BY <1>1, SchedulerInitSeen, SeenStep, PTL
        DEF SchedulerSpec, FallbackOnlyFromFullPools, FallsBackOnlyFromFull

-----------------------------------------------------------------------------
(* What the scheduler inherits from the store *)

\* No number of concurrent attempts, overlapping retries and releases overbooks a
\* pool, unless a released reservation is activated (scheduler.py:494-531).
COROLLARY SchedulerKeepsCapacity == SchedulerSpec => []OverbookingNeedsReactivation
BY SchedulerImplementsStore, CapacityHolds, PTL

-----------------------------------------------------------------------------
(* The order of the pools *)

\* The ranking key orders pools strictly and totally: its last part is the pool.
LEMMA ScoreOrder ==
    ASSUME NEW request, request.gpu_count \in Int, NEW S \in SUBSET Pools, NEW free,
           \A p \in S : free[p] \in Int
    PROVE  LET Before(p, q) == LexicographicallyLess(PoolScore(request, p, free),
                                                     PoolScore(request, q, free))
           IN  /\ \A p \in S : ~Before(p, p)
               /\ \A p, q \in S : p # q => Before(p, q) \/ Before(q, p)
               /\ \A p, q, r \in S : Before(p, q) /\ Before(q, r) => Before(p, r)
<1> DEFINE Score(p) == PoolScore(request, p, free)
           a(p) == IF Catalogue[p].region = request.preferred_region THEN 0 ELSE 1
           b(p) == LatencyTo(p, request.preferred_region)
           c(p) == free[p] - request.gpu_count
           d(p) == -Catalogue[p].priority
           Less(p, q) ==
               \/ a(p) < a(q)
               \/ a(p) = a(q) /\ b(p) < b(q)
               \/ a(p) = a(q) /\ b(p) = b(q) /\ c(p) < c(q)
               \/ a(p) = a(q) /\ b(p) = b(q) /\ c(p) = c(q) /\ d(p) < d(q)
               \/ a(p) = a(q) /\ b(p) = b(q) /\ c(p) = c(q) /\ d(p) = d(q) /\ p < q
<1>1. \A p \in S : /\ a(p) \in Int /\ b(p) \in Int /\ c(p) \in Int /\ d(p) \in Int
                   /\ p \in Int
  BY CatalogueInts
<1>2. \A p \in S : Score(p) = << a(p), b(p), c(p), d(p), p >>
  BY DEF PoolScore
<1> HIDE DEF a, b, c, d, Score
<1>3. ASSUME NEW p \in S, NEW q \in S
      PROVE  LexicographicallyLess(Score(p), Score(q)) <=> Less(p, q)
  <2> DEFINE s == Score(p)
             t == Score(q)
  <2>1. /\ DOMAIN s = 1..5
        /\ s[1] = a(p) /\ s[2] = b(p) /\ s[3] = c(p) /\ s[4] = d(p) /\ s[5] = p
        /\ t[1] = a(q) /\ t[2] = b(q) /\ t[3] = c(q) /\ t[4] = d(q) /\ t[5] = q
    BY <1>2
  <2> HIDE DEF s, t
  <2>2. LexicographicallyLess(s, t) <=>
            \E i \in 1..5 : s[i] < t[i] /\ \A j \in 1..5 : j < i => s[j] = t[j]
    BY <2>1 DEF LexicographicallyLess
  <2>3. ASSUME NEW i \in 1..5, s[i] < t[i], \A j \in 1..5 : j < i => s[j] = t[j]
        PROVE  Less(p, q)
    <3>1. CASE i = 1 BY <2>1, <2>3, <3>1
    <3>2. CASE i = 2 BY <2>1, <2>3, <3>2
    <3>3. CASE i = 3 BY <2>1, <2>3, <3>3
    <3>4. CASE i = 4 BY <2>1, <2>3, <3>4
    <3>5. CASE i = 5 BY <2>1, <2>3, <3>5
    <3> QED BY <3>1, <3>2, <3>3, <3>4, <3>5
  <2>4. ASSUME Less(p, q)
        PROVE  \E i \in 1..5 : s[i] < t[i] /\ \A j \in 1..5 : j < i => s[j] = t[j]
    <3>1. PICK i \in 1..5 :
              /\ s[i] < t[i]
              /\ i > 1 => s[1] = t[1]
              /\ i > 2 => s[2] = t[2]
              /\ i > 3 => s[3] = t[3]
              /\ i > 4 => s[4] = t[4]
      <4>1. CASE a(p) < a(q) BY <2>1, <4>1
      <4>2. CASE a(p) = a(q) /\ b(p) < b(q) BY <2>1, <4>2
      <4>3. CASE a(p) = a(q) /\ b(p) = b(q) /\ c(p) < c(q) BY <2>1, <4>3
      <4>4. CASE a(p) = a(q) /\ b(p) = b(q) /\ c(p) = c(q) /\ d(p) < d(q)
        BY <2>1, <4>4
      <4>5. CASE a(p) = a(q) /\ b(p) = b(q) /\ c(p) = c(q) /\ d(p) = d(q) /\ p < q
        BY <2>1, <4>5
      <4> QED BY <2>4, <4>1, <4>2, <4>3, <4>4, <4>5
    <3>2. \A j \in 1..5 : j < i => j = 1 \/ j = 2 \/ j = 3 \/ j = 4
      OBVIOUS
    <3> QED BY <3>1, <3>2
  <2> QED BY <2>2, <2>3, <2>4 DEF s, t
<1>4. \A p \in S : ~Less(p, p)
  BY <1>1
<1>5. \A p, q \in S : p # q => Less(p, q) \/ Less(q, p)
  BY <1>1
<1>6. \A p, q, r \in S : Less(p, q) /\ Less(q, r) => Less(p, r)
  BY <1>1
<1> HIDE DEF Less
<1> QED BY <1>3, <1>4, <1>5, <1>6 DEF Score

\* sorted() has one head, whatever the free GPUs: the ranking key never ties.
LEMMA RankingHasOneHead ==
    ASSUME NEW request, request.gpu_count \in Int, NEW S \in SUBSET Pools, S # {},
           NEW free, \A p \in S : free[p] \in Int
    PROVE  \E p \in S : FirstRanked(request, S, free) = {p}
<1> DEFINE Before(p, q) == LexicographicallyLess(PoolScore(request, p, free),
                                                 PoolScore(request, q, free))
           Ahead(p) == {q \in S : Before(q, p)}
<1>1. /\ \A p \in S : ~Before(p, p)
      /\ \A p, q \in S : p # q => Before(p, q) \/ Before(q, p)
      /\ \A p, q, r \in S : Before(p, q) /\ Before(q, r) => Before(p, r)
  BY ScoreOrder
<1>2. FirstRanked(request, S, free) = {p \in S : \A q \in S \ {p} : Before(p, q)}
  BY DEF FirstRanked
<1> HIDE DEF Before
<1>3. IsFiniteSet(S)
  BY CatalogueAssumption, FS_Subset
<1> DEFINE T == {Ahead(p) : p \in S}
<1>4. PICK s \in T : \A t \in T : ~(t \subseteq s /\ t # s)
  <2>1. T \in SUBSET SUBSET S /\ T # {}
    OBVIOUS
  <2> HIDE DEF T
  <2> QED BY <1>3, <2>1, SmallestSubset
<1>5. PICK p \in S : s = Ahead(p)
  BY <1>4
<1>6. \A q \in S : ~Before(q, p)
  <2> SUFFICES ASSUME NEW q \in S, Before(q, p) PROVE FALSE
    OBVIOUS
  <2>1. Ahead(q) \subseteq Ahead(p) /\ q \in Ahead(p) /\ q \notin Ahead(q)
    BY <1>1
  <2> QED BY <1>4, <1>5, <2>1
<1> QED BY <1>1, <1>2, <1>6

\* What an attempt counted as free is a number for every pool it has left.
FreeCounted(w) ==
    planners[w].pc = "try" => \A p \in planners[w].untried : planners[w].free[p] \in Int

RankInv == SchedulerTypeInv /\ \A w \in Planners : FreeCounted(w)

LEMMA RankStep ==
    ASSUME RankInv, [SchedulerNext]_schedulerVars
    PROVE  RankInv'
<1> USE DEF RankInv
<1>1. SchedulerTypeInv' /\ AttemptsOK /\ StoreTypeOK /\ StoreTypeOK'
  BY SchedulerTypeStep DEF SchedulerTypeInv, SchedulerTypeOK
<1>2. ASSUME NEW w \in Planners, FreeCounted(w)',
             \A v \in Planners \ {w} : planners'[v] = planners[v]
      PROVE  RankInv'
  BY <1>1, <1>2 DEF FreeCounted
<1>3. ASSUME NEW w \in Planners, NEW data \in Events, LookUp(w, data)
      PROVE  RankInv'
  BY <1>1, <1>2, <1>3, LookUpEffect DEF FreeCounted
<1>4. ASSUME NEW w \in Planners, Snapshot(w) PROVE RankInv'
  <2>1. Candidates(w) \subseteq Pools
    BY <1>1, <1>4, SnapshotEffect, AttemptAsks
  <2>2. \A p \in Pools : TotalGpus(p) - ReservedGpusByPool(p) \in Int
    <3>1. \A p \in Pools : HeldUnits(p) \subseteq ReservationIds \X GpuCounts
      BY DEF HeldUnits
    <3>2. \A p \in Pools : UsedGpus(p) \in Nat
      BY <3>1, UnitsFinite DEF UsedGpus
    <3> QED BY <1>1, <3>2, TotalGpusNat, SnapshotAgrees
  <2> DEFINE free == [p \in Candidates(w) |-> TotalGpus(p) - ReservedGpusByPool(p)]
             fitting == {p \in Candidates(w) : TotalGpus(p) - ReservedGpusByPool(p)
                                                  >= Request(w).gpu_count}
  <2>3. \/ planners[w].pc' = "done"
        \/ planners[w].untried' = fitting /\ planners[w].free' = free
    BY <1>1, <1>4, SnapshotEffect
  <2>4. \A p \in fitting : free[p] \in Int
    BY <2>1, <2>2
  <2> HIDE DEF free, fitting
  <2>5. FreeCounted(w)'
    BY <2>3, <2>4 DEF FreeCounted
  <2> QED BY <1>1, <1>2, <1>4, <2>5, SnapshotEffect
<1>5. ASSUME NEW w \in Planners, TryPool(w) PROVE RankInv'
  <2>1. PICK p : planners[w].pc = "try" /\ (TryReserved(w, p) \/ TryFull(w, p))
    BY <1>1, <1>5, Tried
  <2>2. CASE TryReserved(w, p)
    BY <1>1, <1>2, <2>1, <2>2, TryReservedEffect DEF FreeCounted, Answered
  <2>3. CASE TryFull(w, p)
    <3>1. FreeCounted(w)'
      BY <1>1, <2>1, <2>3, TryFullEffect DEF FreeCounted
    <3> QED BY <1>1, <1>2, <2>1, <2>3, <3>1, TryFullEffect
  <2> QED BY <2>1, <2>2, <2>3
<1>6. ASSUME NEW w \in Planners, EndAttempt(w) PROVE RankInv'
  BY <1>1, <1>2, <1>6, EndAttemptEffect DEF FreeCounted, Idle
<1>7. ASSUME UNCHANGED planners PROVE RankInv'
  BY <1>1, <1>7 DEF FreeCounted
<1> QED BY <1>3, <1>4, <1>5, <1>6, <1>7 DEF SchedulerNext, OtherCalls, schedulerVars

\* NextPoolIsDetermined: for every catalogue and every count of free GPUs, an
\* attempt that looks for a pool has one next pool to try (scheduler.py:544-562).
THEOREM NextPoolDetermined == SchedulerSpec => []NextPoolIsDetermined
<1>1. SchedulerInit => RankInv
  BY SchedulerInitType DEF SchedulerInit, RankInv, FreeCounted, Idle
<1>2. RankInv => NextPoolIsDetermined
  <2> SUFFICES ASSUME RankInv, NEW w \in Planners, planners[w].pc = "try"
               PROVE  \E p \in planners[w].untried :
                          FirstRanked(Request(w), planners[w].untried, planners[w].free)
                              = {p}
    BY DEF NextPoolIsDetermined
  <2>1. Candidates(w) \subseteq Pools /\ Request(w).gpu_count \in Int
    BY AttemptAsks, StoreAssumption DEF RankInv, SchedulerTypeInv, GpuCounts
  <2>2. planners[w].untried \in SUBSET Pools /\ planners[w].untried # {}
    BY <2>1 DEF RankInv, SchedulerTypeInv, AttemptsOK, AttemptOK
  <2>3. \A p \in planners[w].untried : planners[w].free[p] \in Int
    BY DEF RankInv, FreeCounted
  <2> QED BY <2>1, <2>2, <2>3, RankingHasOneHead
<1> QED BY <1>1, <1>2, RankStep, PTL DEF SchedulerSpec

-----------------------------------------------------------------------------
(* A pending answer, seen by the tenant *)

\* PendingOnlyIfEachSeenFull in the tenant's terms: no pool that the event itself
\* allows had room all the time while a pending attempt ran; the filter has
\* dropped none that the policy admits (scheduler.py:522-542).
THEOREM PendingExhaustsPolicy ==
    SchedulerSpec => [](\A w \in Planners : planners[w].decision = PENDING =>
                            \A p \in Pools :
                                WithinPolicy(planners[w].data, p) => p \in seenFull[w])
<1>1. SchedulerTypeInv /\ PendingOnlyIfEachSeenFull =>
          \A w \in Planners : planners[w].decision = PENDING =>
              \A p \in Pools : WithinPolicy(planners[w].data, p) => p \in seenFull[w]
  <2> SUFFICES ASSUME SchedulerTypeInv, PendingOnlyIfEachSeenFull,
                      NEW w \in Planners, planners[w].decision = PENDING,
                      NEW p \in Pools, WithinPolicy(planners[w].data, p)
               PROVE  p \in seenFull[w]
    OBVIOUS
  <2>1. planners[w].pc = "done"
    BY Decided DEF SchedulerTypeInv, AttemptsOK, AttemptOK
  <2>2. /\ planners[w].data \in Events
        /\ Candidates(w) = CandidatePools(BuildPlacementRequest(planners[w].data))
    BY <2>1 DEF SchedulerTypeInv, AttemptsOK, AttemptOK
  <2> QED BY <2>2, PolicyWithinCandidates DEF PendingOnlyIfEachSeenFull
<1> QED BY <1>1, SchedulerInitType, SchedulerTypeStep, PendingIsJustified, PTL
        DEF SchedulerSpec
=============================================================================
