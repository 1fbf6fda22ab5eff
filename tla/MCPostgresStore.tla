---------------------------- MODULE MCPostgresStore ----------------------------
(* Two pools of two GPUs, so that a second reservation can overbook either. *)
EXTENDS PostgresStore, TLC

MCPool(gpus) ==
    [region |-> "phoenix", gpu_type |-> "a100", total_gpus |-> gpus,
     healthy |-> TRUE, priority |-> 0, latency_ms_by_region |-> << >>]

MCCatalogue == << MCPool(2), MCPool(2) >>

MCSmallCatalogue == << MCPool(1), MCPool(1) >>

MCSymmetry == Permutations(ReservationIds) \cup Permutations(Transactions)
=============================================================================
