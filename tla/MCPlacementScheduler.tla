------------------------ MODULE MCPlacementScheduler ------------------------
(***************************************************************************)
(* A near pool of two GPUs, a far pool of one, and pools that no request   *)
(* may use: one unhealthy, one of another type, one too far away.  Two     *)
(* attempts run at a time, for any of the events.                          *)
(***************************************************************************)
EXTENDS PlacementScheduler, Sequences, TLC

MCSymmetry == Permutations(Planners)

MCPool(region, type, gpus, healthy, latency) ==
    [region |-> region, gpu_type |-> type, total_gpus |-> gpus,
     healthy |-> healthy, priority |-> 0, latency_ms_by_region |-> latency]

ToPhoenix(ms) == [r \in {"phoenix"} |-> ms]

MCCatalogue ==
    << MCPool("phoenix", "a100", 2, TRUE, << >>),
       MCPool("ashburn", "a100", 1, TRUE, ToPhoenix(64)),
       MCPool("phoenix", "a100", 2, FALSE, << >>),
       MCPool("ashburn", "mock", 2, TRUE, ToPhoenix(20)),
       MCPool("london", "a100", 2, TRUE, << >>) >>

MCProfiles ==
    [tier \in {"standard", "eu-standard", "premium"} |->
        [gpu_count |-> IF tier = "premium" THEN 2 ELSE 1,
         gpu_type |-> "a100", default_max_latency_ms |-> 100]]

MCEvent(allocation, customer, tier, preferred_region, allowed_regions) ==
    [customer_id |-> customer, tier |-> tier, allocation_id |-> allocation,
     preferred_region |-> preferred_region, gpu_type |-> NotGiven,
     allowed_regions |-> allowed_regions, max_latency_ms |-> NotGiven]

\* Two events without an allocation_id, at home only, and at home or in two named
\* regions.  They share a reservation, as two events of one tenant would: the ids
\* of the two tenants read the same, resv-acme-eu-standard-a100-1.  Two
\* allocations compete with them: one GPU in ashburn, and two at home, for which
\* london, though it lists it, is too far away.
MCEvents ==
    { MCEvent(NotGiven, "acme-eu", "standard", NotGiven, NotGiven),
      MCEvent(NotGiven, "acme", "eu-standard", NotGiven, {"ashburn", "london"}),
      MCEvent("b", "acme", "standard", "ashburn", NotGiven),
      MCEvent("c", "acme", "premium", NotGiven, {"london"}) }

\* The ids of MCEvents that have five parts all read the same.
MCHyphenated(parts) ==
    IF Len(parts) = 5 THEN << "resv", "acme-eu-standard-a100-1" >> ELSE parts

MCReservationIds ==
    {ReservationIdFor(BuildPlacementRequest(data)) : data \in Events}
=============================================================================
