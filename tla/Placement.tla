------------------------------- MODULE Placement -------------------------------
(***************************************************************************)
(* The placement policy: how plan_gpu_allocation turns an allocation event *)
(* into a PlacementRequest (src/temporal/activities.py), and which pools   *)
(* the scheduler considers, in which order (src/placement/scheduler.py).   *)
(* No state: PlacementScheduler uses these definitions step by step.       *)
(*                                                                         *)
(* Names (regions, types, tiers, tenants) are members of small sets, one   *)
(* spelling each: lower-casing is done before any comparison the model     *)
(* makes.  A field that is missing, null or empty is NotGiven.             *)
(***************************************************************************)
EXTENDS GpuPools

CONSTANTS
    Profiles,                   \* tier -> GpuProfile, the GPU profile catalogue
    DEFAULT_CUSTOMER_REGION,
    NotGiven,
    Hyphenated(_)               \* the text of the parts of an id, joined by hyphens

\* What load_gpu_profiles accepts.
IsGpuProfile(profile) ==
    /\ profile.gpu_count \in Nat \ {0}
    /\ profile.gpu_type \in GpuTypes
    /\ profile.default_max_latency_ms \in Nat \ {0}

ASSUME PlacementAssumption ==
    /\ \A tier \in DOMAIN Profiles : IsGpuProfile(Profiles[tier])
    /\ DEFAULT_CUSTOMER_REGION \in Regions
    /\ NotGiven \notin Regions \cup GpuTypes

-----------------------------------------------------------------------------
(* From event to request *)

OrDefault(value, default) == IF value = NotGiven THEN default ELSE value

\* normalize_allowed_regions; the scheduler only ever uses the result as a set.
AllowedRegions(raw_allowed_regions, preferred_region) ==
    IF raw_allowed_regions = NotGiven THEN {preferred_region}
    ELSE {OrDefault(r, preferred_region) : r \in raw_allowed_regions}
            \cup {preferred_region}

\* The input that plan_gpu_allocation does not reject with a ValueError.
ValidInput(data) ==
    /\ data.tier \in DOMAIN Profiles
    /\ data.preferred_region \in Regions \cup {NotGiven}
    /\ data.gpu_type \in GpuTypes \cup {NotGiven}
    /\ \/ data.allowed_regions = NotGiven
       \/ data.allowed_regions \in SUBSET (Regions \cup {NotGiven}) \ {{}}
    /\ data.max_latency_ms # NotGiven => data.max_latency_ms > 0

BuildPlacementRequest(data) ==
    LET profile == Profiles[data.tier]
        preferred_region == OrDefault(data.preferred_region, DEFAULT_CUSTOMER_REGION)
    IN  [customer_id      |-> data.customer_id,
         tier             |-> data.tier,
         gpu_count        |-> profile.gpu_count,
         gpu_type         |-> OrDefault(data.gpu_type, profile.gpu_type),
         preferred_region |-> preferred_region,
         allowed_regions  |-> AllowedRegions(data.allowed_regions, preferred_region),
         max_latency_ms   |-> OrDefault(data.max_latency_ms,
                                        profile.default_max_latency_ms),
         allocation_id    |-> data.allocation_id]

\* The identity of a reservation: the allocation when the event names one, the
\* tenant and what it asked for when it does not.  The parts may contain hyphens,
\* so different ones can read the same: Hyphenated need not be one to one.
ReservationIdFor(request) ==
    Hyphenated(IF request.allocation_id # NotGiven
               THEN << "resv", request.allocation_id >>
               ELSE << "resv", request.customer_id, request.tier, request.gpu_type,
                       request.gpu_count >>)

-----------------------------------------------------------------------------
(* Candidates and their order *)

\* The candidates, with no limit on the latency.
CandidatePoolsAtAnyDistance(request) ==
    {p \in Pools :
        /\ Catalogue[p].healthy
        /\ Catalogue[p].gpu_type = request.gpu_type
        /\ Catalogue[p].region \in request.allowed_regions}

CandidatePools(request) ==
    {p \in Pools :
        /\ Catalogue[p].healthy
        /\ Catalogue[p].gpu_type = request.gpu_type
        /\ Catalogue[p].region \in request.allowed_regions
        /\ LatencyTo(p, request.preferred_region) <= request.max_latency_ms}

\* pool_score, with the best fit ahead of the region and the latency.
PoolScoreByFit(request, p, free) ==
    << free[p] - request.gpu_count,
       IF Catalogue[p].region = request.preferred_region THEN 0 ELSE 1,
       LatencyTo(p, request.preferred_region),
       -Catalogue[p].priority,
       p >>

\* pool_score of a scheduler that only balances the load.
PoolScoreByLoad(request, p, free) ==
    << free[p] - request.gpu_count, -Catalogue[p].priority >>

\* The ranking key; free is the scheduler's snapshot of the free GPUs.
PoolScore(request, p, free) ==
    << IF Catalogue[p].region = request.preferred_region THEN 0 ELSE 1,
       LatencyTo(p, request.preferred_region),
       free[p] - request.gpu_count,
       -Catalogue[p].priority,
       p >>

\* Tuples of one length, compared as Python does.
LexicographicallyLess(a, b) ==
    \E i \in DOMAIN a :
        /\ a[i] < b[i]
        /\ \A j \in DOMAIN a : j < i => a[j] = b[j]

\* The head of _rank_pools restricted to S: sorted() puts p before the others.
FirstRanked(request, S, free) ==
    {p \in S : \A q \in S \ {p} :
        LexicographicallyLess(PoolScore(request, p, free),
                              PoolScore(request, q, free))}

-----------------------------------------------------------------------------
(* The policy the documentation promises a tenant, stated on the event. *)

\* README.md:163-173: a healthy pool of the asked type, in the preferred region
\* or a region the event itself lists, within the latency budget.
WithinPolicy(data, p) ==
    LET preferred_region == OrDefault(data.preferred_region, DEFAULT_CUSTOMER_REGION)
        profile == Profiles[data.tier]
    IN  /\ Catalogue[p].healthy
        /\ Catalogue[p].gpu_type = OrDefault(data.gpu_type, profile.gpu_type)
        /\ \/ Catalogue[p].region = preferred_region
           \/ /\ data.allowed_regions # NotGiven
              /\ Catalogue[p].region \in data.allowed_regions
        /\ LatencyTo(p, preferred_region)
              <= OrDefault(data.max_latency_ms, profile.default_max_latency_ms)
=============================================================================
