------------------------------- MODULE GpuPools -------------------------------
(***************************************************************************)
(* The catalogue of GPU pools that load_gpu_pools reads from the           *)
(* configuration when a worker starts, and the latency the scheduler       *)
(* attributes to a pool.  The catalogue never changes while a worker runs. *)
(*                                                                         *)
(* A pool is named by a natural number whose order stands for the order of *)
(* the pool_id strings: the last component of the ranking key compares     *)
(* pool_ids and nothing else looks inside them.                            *)
(***************************************************************************)
EXTENDS Integers, FiniteSets

CONSTANTS
    Regions,
    GpuTypes,
    Catalogue       \* pool_id -> GpuPool

UNKNOWN_LATENCY_MS == 1000000

Pools == DOMAIN Catalogue

\* What from_mapping accepts.
IsGpuPool(pool) ==
    /\ pool.region \in Regions
    /\ pool.gpu_type \in GpuTypes
    /\ pool.total_gpus \in Nat       \* a negative total is rejected
    /\ pool.healthy \in BOOLEAN
    /\ pool.priority \in Int
    /\ DOMAIN pool.latency_ms_by_region \subseteq Regions
    /\ \A r \in DOMAIN pool.latency_ms_by_region :
           pool.latency_ms_by_region[r] \in Int

ASSUME CatalogueAssumption ==
    /\ Pools \subseteq Nat
    /\ IsFiniteSet(Pools)       \* a JSON list
    /\ Pools # {}               \* the scheduler refuses an empty catalogue
    /\ \A p \in Pools : IsGpuPool(Catalogue[p])

\* The catalogue's own figure, else 5 ms inside the region, else unknown.
LatencyTo(p, customer_region) ==
    LET known == Catalogue[p].latency_ms_by_region
    IN  IF customer_region \in DOMAIN known THEN known[customer_region]
        ELSE IF customer_region = Catalogue[p].region THEN 5
        ELSE UNKNOWN_LATENCY_MS
=============================================================================
