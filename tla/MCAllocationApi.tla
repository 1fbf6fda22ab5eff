---------------------------- MODULE MCAllocationApi ----------------------------
(***************************************************************************)
(* Two scenarios, chosen at the start: two requests share the producer,    *)
(* nobody asks for a status and the workflows run on; or one allocation is *)
(* requested, its workflow may close and start again, and clients ask for  *)
(* its status.                                                             *)
(***************************************************************************)
EXTENDS AllocationApi

CONSTANT Asked       \* the request that clients ask for

VARIABLE asking

MCInit == ApiInit /\ asking \in BOOLEAN

MCNext ==
    /\ ApiNext
    /\ asking' = asking
    /\ IF asking THEN /\ \A r \in Requests \ {Asked} : pc'[r] = "idle"
                      /\ \A c \in Clients : lookUp'[c].of \in {None, Asked}
                 ELSE /\ \A k \in Keys : workflow'[k] \in {"absent", "running"}
                      /\ \A c \in Clients : lookUp'[c].of = None

MCSpec == MCInit /\ [][MCNext]_<<apiVars, asking>> /\ ApiFairness
=============================================================================
