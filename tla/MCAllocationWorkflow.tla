------------------------- MODULE MCAllocationWorkflow -------------------------
(***************************************************************************)
(* Two allocations compete for a pool of one GPU and a pool of two; the    *)
(* second asks for two GPUs, and is left pending when the first is in the  *)
(* larger pool.  They belong to one customer, or to two.                   *)
(***************************************************************************)
EXTENDS AllocationWorkflow

CONSTANTS w1, w2

MCPool(gpus) ==
    [region |-> "phoenix", gpu_type |-> "a100", total_gpus |-> gpus,
     healthy |-> TRUE, priority |-> 0, latency_ms_by_region |-> << >>]

MCCatalogue == << MCPool(1), MCPool(2) >>
MCDemand == [w \in ReservationIds |-> IF w = w1 THEN 1 ELSE 2]
MCOneCustomer == [w \in ReservationIds |-> "c1"]
MCTwoCustomers == [w \in ReservationIds |-> IF w = w1 THEN "c1" ELSE "c2"]

\* One pool of one GPU, for the counterexamples.
MCOnePool == << MCPool(1) >>
MCOneGpu == [w \in ReservationIds |-> 1]
=============================================================================
