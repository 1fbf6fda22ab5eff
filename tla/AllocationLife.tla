----------------------------- MODULE AllocationLife -----------------------------
(***************************************************************************)
(* What a tenant may rely on about an allocation, whatever attempts,       *)
(* retries, lost answers and cancellations lie behind it: in which order   *)
(* its phases follow each other (src/temporal/workflows.py), and in which  *)
(* of them GPUs are granted to it and given back.                          *)
(*                                                                         *)
(* A grant is the set of the pools in which GPUs are held for the          *)
(* allocation: one pool, or none.                                          *)
(***************************************************************************)
EXTENDS GpuPools, TLAPS

CONSTANTS
    Allocations,
    MaxGpus,        \* no allocation asks for more GPUs than this
    GpusOf,         \* the GPUs an allocation asks for
    Durable,        \* TRUE: the grants outlive the worker process
    Exclusive,      \* TRUE: every attempt has ended when the next one begins
    Cancellable     \* TRUE: allocations may be cancelled

VARIABLES
    phase,          \* allocation -> where it is
    grant           \* allocation -> the pools in which it holds GPUs
lifeVars == <<phase, grant>>

Ended == {"active", "pending", "failed"}
Phases == {"absent", "planning", "placed", "stuck"} \cup Ended

LifeInit ==
    /\ phase = [a \in Allocations |-> "absent"]
    /\ grant = [a \in Allocations |-> {}]

-----------------------------------------------------------------------------

\* The GPUs granted in pool p, one element <<a, k>> per GPU.
GrantedUnits(p) ==
    {u \in Allocations \X (1..MaxGpus) :
        p \in grant[u[1]] /\ u[2] <= GpusOf[u[1]]}

HasRoomFor(a, p) ==
    Catalogue[p].total_gpus - Cardinality(GrantedUnits(p)) >= GpusOf[a]

Take(a) ==
    /\ grant[a] = {}
    /\ \E p \in Pools : HasRoomFor(a, p) /\ grant' = [grant EXCEPT ![a] = {p}]

\* Of two overlapping attempts the one that saw no grant puts its own in the
\* place of the other's.
Exchange(a) ==
    /\ Durable /\ ~Exclusive
    /\ grant[a] # {}
    /\ \E p \in Pools : HasRoomFor(a, p) /\ grant' = [grant EXCEPT ![a] = {p}]

\* An attempt made before a cancellation may still act after it.
Straggling == Cancellable /\ ~Exclusive

\* What was given back is granted again, whether or not the pool has room.
Regrant(a) ==
    /\ Straggling
    /\ grant[a] = {}
    /\ \E p \in Pools : grant' = [grant EXCEPT ![a] = {p}]

Enter(a, next) == phase' = [phase EXCEPT ![a] = next]

-----------------------------------------------------------------------------

\* The allocation is requested, or its event is handled again.
Request(a) ==
    /\ phase[a] \in Ended \cup {"absent"}
    /\ Enter(a, "planning")
    /\ UNCHANGED grant

\* GPUs are granted, or exchanged, and nobody has been told of it.
Reserve(a) ==
    /\ phase[a] # "absent"
    /\ Exclusive => phase[a] = "planning"
    /\ Take(a) \/ Exchange(a)
    /\ UNCHANGED phase

\* The plan answers with GPUs, granted now or by an earlier attempt.
Place(a) ==
    /\ phase[a] = "planning"
    /\ Take(a) \/ Exchange(a) \/ (grant[a] # {} /\ UNCHANGED grant)
    /\ Enter(a, "placed")

\* The plan answers with the grant of an earlier run, which is not accepted.
Refuse(a) ==
    /\ phase[a] = "planning"
    /\ grant[a] # {}
    /\ Enter(a, "stuck")
    /\ UNCHANGED grant

\* The plan answers that there is no capacity.
Decline(a) ==
    /\ phase[a] = "planning"
    /\ Exclusive => grant[a] = {}
    /\ Enter(a, "pending")
    /\ UNCHANGED grant

\* Cancelled in its plan, whose grant is not given back.
Abandon(a) ==
    /\ Cancellable
    /\ phase[a] = "planning"
    /\ Enter(a, "failed")
    /\ UNCHANGED grant

\* Cancelled later: the GPUs are given back, and the allocation fails only then.
GiveBack(a) ==
    /\ Cancellable
    /\ phase[a] = "placed"
    /\ grant' = [grant EXCEPT ![a] = {}]
    /\ Enter(a, "failed") \/ UNCHANGED phase

Succeed(a) ==
    /\ phase[a] = "placed"
    /\ (grant[a] # {} /\ UNCHANGED grant) \/ Regrant(a)
    /\ Enter(a, "active")

\* An activation, or a release, of before the cancellation takes effect.
Straggle(a) ==
    /\ phase[a] # "absent"
    /\ Regrant(a) \/ (Straggling /\ grant' = [grant EXCEPT ![a] = {}])
    /\ UNCHANGED phase

\* The worker process ends and its memory with it.
Forget ==
    /\ ~Durable
    /\ grant' = [a \in Allocations |-> {}]
    /\ UNCHANGED phase

LifeNext ==
    \/ \E a \in Allocations :
          \/ Request(a) \/ Reserve(a) \/ Place(a) \/ Refuse(a) \/ Decline(a)
          \/ Abandon(a) \/ GiveBack(a) \/ Succeed(a) \/ Straggle(a)
    \/ Forget

LifeSpec == LifeInit /\ [][LifeNext]_lifeVars

-----------------------------------------------------------------------------
(* Promises *)

LifeTypeOK ==
    /\ phase \in [Allocations -> Phases]
    /\ grant \in [Allocations -> SUBSET Pools]

\* An allocation reported as ACTIVE holds GPUs, as long as nothing makes the
\* process forget them (workflows.py:41-58) and no release of before a
\* cancellation comes late.
ActiveIsGranted ==
    Durable /\ ~Straggling =>
        \A a \in Allocations : phase[a] = "active" => grant[a] # {}

\* An allocation that was never asked for, or whose tenant was told that there
\* is no capacity, holds no GPUs (workflows.py:23-28); a late attempt may take
\* them all the same.
PendingIsFree ==
    Exclusive => \A a \in Allocations :
        phase[a] \in {"absent", "pending"} => grant[a] = {}

\* Grants that outlive the process are given back only after a cancellation, and
\* while attempts do not overlap only between the plan and the failure
\* (workflows.py:46-52); and only overlapping attempts exchange granted GPUs for
\* those of another pool (scheduler.py:395-438).
GrantsStay ==
    [][\A a \in Allocations : grant[a] # {} =>
          \/ grant'[a] = grant[a]
          \/ /\ grant'[a] = {}
             /\ Durable => Cancellable /\ (Exclusive => phase[a] = "placed")
          \/ grant'[a] # {} /\ Durable /\ ~Exclusive]_lifeVars

LifeInv == LifeTypeOK /\ ActiveIsGranted /\ PendingIsFree

\* Every step keeps the promises, for any number of allocations.
LEMMA LifeInvStep ==
    ASSUME LifeInv, [LifeNext]_lifeVars
    PROVE  LifeInv'
<1> USE DEF LifeInv, LifeTypeOK, ActiveIsGranted, PendingIsFree, Phases, Ended
<1>1. ASSUME NEW a \in Allocations, Request(a)
      PROVE  LifeInv'
  BY <1>1 DEF Request, Enter
<1>2. ASSUME NEW a \in Allocations, Take(a) \/ Exchange(a) \/ Regrant(a)
      PROVE  /\ grant' \in [Allocations -> SUBSET Pools]
             /\ grant'[a] # {}
             /\ \A b \in Allocations \ {a} : grant'[b] = grant[b]
  BY <1>2 DEF Take, Exchange, Regrant
<1>3. ASSUME NEW a \in Allocations, Reserve(a)
      PROVE  LifeInv'
  BY <1>2, <1>3 DEF Reserve
<1>4. ASSUME NEW a \in Allocations, Place(a)
      PROVE  LifeInv'
  BY <1>2, <1>4 DEF Place, Enter
<1>5. ASSUME NEW a \in Allocations, Refuse(a) \/ Decline(a) \/ Abandon(a)
      PROVE  LifeInv'
  BY <1>5 DEF Refuse, Decline, Abandon, Enter
<1>6. ASSUME NEW a \in Allocations, Succeed(a)
      PROVE  LifeInv'
  BY <1>2, <1>6 DEF Succeed, Enter
<1>7. ASSUME NEW a \in Allocations, GiveBack(a)
      PROVE  LifeInv'
  BY <1>7 DEF GiveBack, Enter
<1>8. ASSUME NEW a \in Allocations, Straggle(a)
      PROVE  LifeInv'
  <2>1. Straggling /\ grant' \in [Allocations -> SUBSET Pools]
    BY <1>2, <1>8 DEF Straggle, Regrant
  <2> QED BY <1>8, <2>1 DEF Straggle, Straggling
<1>9. CASE Forget
  BY <1>9 DEF Forget
<1>10. CASE UNCHANGED lifeVars
  BY <1>10 DEF lifeVars, Straggling
<1> QED BY <1>1, <1>3, <1>4, <1>5, <1>6, <1>7, <1>8, <1>9, <1>10 DEF LifeNext

LEMMA LifeInvariant == LifeSpec => []LifeInv
<1>1. LifeInit => LifeInv
  BY DEF LifeInit, LifeInv, LifeTypeOK, ActiveIsGranted, PendingIsFree, Phases
<1>2. LifeInv /\ [LifeNext]_lifeVars => LifeInv'
  BY LifeInvStep
<1> QED BY <1>1, <1>2, PTL DEF LifeSpec

\* An allocation that is reported ACTIVE holds GPUs, and one reported pending
\* holds none (workflows.py:23-58).
THEOREM LifeAnswersTrue == LifeSpec => [](ActiveIsGranted /\ PendingIsFree)
<1>1. LifeInv => ActiveIsGranted /\ PendingIsFree
  BY DEF LifeInv
<1> QED BY <1>1, LifeInvariant, PTL

\* A grant stays where it is until a cancellation gives it back or an overlapping
\* attempt moves it (workflows.py:46-52, scheduler.py:395-438).
THEOREM LifeGrantsStay == LifeSpec => GrantsStay
<1> DEFINE Stays ==
        \A a \in Allocations : grant[a] # {} =>
            \/ grant'[a] = grant[a]
            \/ /\ grant'[a] = {}
               /\ Durable => Cancellable /\ (Exclusive => phase[a] = "placed")
            \/ grant'[a] # {} /\ Durable /\ ~Exclusive
<1>1. LifeInv /\ [LifeNext]_lifeVars => [Stays]_lifeVars
  <2> SUFFICES ASSUME LifeTypeOK, LifeNext PROVE Stays
    BY DEF LifeInv
  <2>1. ASSUME NEW a \in Allocations, Take(a) \/ Regrant(a) \/ Exchange(a)
        PROVE  Stays
    BY <2>1 DEF Take, Regrant, Exchange, LifeTypeOK
  <2>2. ASSUME NEW a \in Allocations, GiveBack(a) \/ Straggle(a)
        PROVE  Stays
    BY <2>1, <2>2 DEF GiveBack, Straggle, Straggling, LifeTypeOK
  <2>3. ASSUME NEW a \in Allocations, Reserve(a) \/ Place(a) \/ Succeed(a)
        PROVE  Stays
    BY <2>1, <2>3 DEF Reserve, Place, Succeed
  <2> QED
    BY <2>2, <2>3 DEF LifeNext, Request, Refuse, Decline, Abandon, Forget
<1> QED BY <1>1, LifeInvariant, PTL DEF LifeSpec, GrantsStay
=============================================================================
