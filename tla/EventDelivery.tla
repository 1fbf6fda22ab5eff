----------------------------- MODULE EventDelivery -----------------------------
(***************************************************************************)
(* What the worker side promises to whoever publishes allocation events:   *)
(* a valid event starts the workflow of its key or goes to the dead-letter *)
(* routine, a malformed one goes there, nothing else starts a workflow,    *)
(* and the group commits only what was handled, never back.  How a         *)
(* dispatcher does it is in KafkaDispatcher, which implements this; the    *)
(* API is composed with it in AllocationApi.                               *)
(*                                                                         *)
(* Offsets count from 1.  An event may be handled more than once.          *)
(***************************************************************************)
EXTENDS Naturals, Sequences, TLAPS

CONSTANTS
    Keys,           \* what names a workflow: allocation_id, or else customer_id
    Outcomes        \* how a workflow may close

VARIABLES
    topic,          \* the events published so far
    committed,      \* the last offset the group has committed
    started,        \* offsets whose start Temporal accepted
    deadLettered,   \* offsets handed to send_to_dlq
    workflow        \* key -> state of the latest run of gpu-alloc-{key}
deliveryVars == <<topic, committed, started, deadLettered, workflow>>

\* What decode_message makes of a value; "undecodable" is not UTF-8.
EventKinds == {"valid", "malformed", "undecodable"}
Event == [kind : EventKinds, key : Keys]

DeliveryTypeOK ==
    /\ topic \in Seq(Event)
    /\ committed \in 0..Len(topic)
    /\ started \in SUBSET DOMAIN topic
    /\ deadLettered \in SUBSET DOMAIN topic
    /\ workflow \in [Keys -> {"absent", "running"} \cup Outcomes]

Handled(o) == o \in started \cup deadLettered

DeliveryInit ==
    /\ topic = << >>
    /\ committed = 0
    /\ started = {}
    /\ deadLettered = {}
    /\ workflow = [k \in Keys |-> "absent"]

Publish(event) ==
    /\ topic' = Append(topic, event)
    /\ UNCHANGED <<committed, started, deadLettered, workflow>>

\* An id is taken while its workflow runs, and free again when it has closed.
StartWorkflow(o) ==
    /\ topic[o].kind = "valid"
    /\ workflow[topic[o].key] # "running"
    /\ workflow' = [workflow EXCEPT ![topic[o].key] = "running"]
    /\ started' = started \cup {o}
    /\ UNCHANGED <<topic, committed, deadLettered>>

\* Also a valid event: its start may fail, or its result not come in time.
DeadLetter(o) ==
    /\ topic[o].kind # "undecodable"
    /\ deadLettered' = deadLettered \cup {o}
    /\ UNCHANGED <<topic, committed, started, workflow>>

CloseWorkflow(k) ==
    /\ workflow[k] = "running"
    /\ \E how \in Outcomes : workflow' = [workflow EXCEPT ![k] = how]
    /\ UNCHANGED <<topic, committed, started, deadLettered>>

\* The commit that takes the offset of an event for the one to read next.
CommitOneMore(n) ==
    /\ n >= committed
    /\ \A o \in 1..n : Handled(o)
    /\ committed' = n + 1
    /\ UNCHANGED <<topic, started, deadLettered, workflow>>

\* A commit covers every offset before it.
Commit(n) ==
    /\ n >= committed
    /\ \A o \in 1..n : Handled(o)
    /\ committed' = n
    /\ UNCHANGED <<topic, started, deadLettered, workflow>>

WorkerNext ==
    \/ \E o \in DOMAIN topic : StartWorkflow(o) \/ DeadLetter(o) \/ Commit(o)
    \/ \E k \in Keys : CloseWorkflow(k)

DeliveryNext == WorkerNext \/ \E event \in Event : Publish(event)

DeliverySpec == DeliveryInit /\ [][DeliveryNext]_deliveryVars

-----------------------------------------------------------------------------

\* An event the consumer can get to: nothing before it blocks the partition.
Reachable(o) ==
    /\ o \in DOMAIN topic
    /\ \A n \in 1..o : topic[n].kind # "undecodable"

AllHandled == \A o \in DOMAIN topic : Reachable(o) => Handled(o)

\* The promise of progress.  For a topic of bounded length, which only grows, it
\* is that each event that can be reached is handled some time.
CatchesUp == []<>AllHandled

\* A workflow exists only for a valid event of its key that Temporal accepted
\* (worker.py:526-568).
WorkflowsHaveEvents ==
    \A k \in Keys : workflow[k] # "absent" =>
        \E o \in started : topic[o].kind = "valid" /\ topic[o].key = k

\* What the group has committed was handled (worker.py:462-506).
CommittedIsHandled == \A o \in 1..committed : Handled(o)

\* The group's offset never moves back (worker.py:493-506).
OffsetNeverMovesBack == [][committed <= committed']_deliveryVars

-----------------------------------------------------------------------------

DeliveryInv ==
    /\ DeliveryTypeOK
    /\ WorkflowsHaveEvents
    /\ CommittedIsHandled

\* A published event is the last one, and the others keep their offsets.
LEMMA PublishAppends ==
    ASSUME topic \in Seq(Event), NEW event \in Event, Publish(event)
    PROVE  /\ topic' \in Seq(Event)
           /\ Len(topic') = Len(topic) + 1
           /\ DOMAIN topic' = DOMAIN topic \cup {Len(topic) + 1}
           /\ \A o \in DOMAIN topic : topic'[o] = topic[o]
           /\ topic'[Len(topic) + 1] = event
BY DEF Publish

\* Every step keeps the state well typed.
LEMMA DeliveryTypeStep ==
    ASSUME DeliveryTypeOK, [DeliveryNext]_deliveryVars
    PROVE  DeliveryTypeOK'
<1> USE DEF DeliveryTypeOK
<1>1. DOMAIN topic = 1..Len(topic) /\ Len(topic) \in Nat
  OBVIOUS
<1>2. ASSUME NEW o \in DOMAIN topic, StartWorkflow(o) PROVE DeliveryTypeOK'
  BY <1>2 DEF StartWorkflow
<1>3. ASSUME NEW o \in DOMAIN topic, DeadLetter(o) PROVE DeliveryTypeOK'
  BY <1>3 DEF DeadLetter
<1>4. ASSUME NEW o \in DOMAIN topic, Commit(o) PROVE DeliveryTypeOK'
  BY <1>1, <1>4 DEF Commit
<1>5. ASSUME NEW k \in Keys, CloseWorkflow(k) PROVE DeliveryTypeOK'
  BY <1>5 DEF CloseWorkflow
<1>6. ASSUME NEW event \in Event, Publish(event) PROVE DeliveryTypeOK'
  BY <1>1, <1>6, PublishAppends DEF Publish
<1>7. CASE UNCHANGED deliveryVars
  BY <1>7 DEF deliveryVars
<1> QED BY <1>2, <1>3, <1>4, <1>5, <1>6, <1>7 DEF DeliveryNext, WorkerNext

\* Every step keeps the invariant, and the offset.
LEMMA DeliveryStep ==
    ASSUME DeliveryInv, [DeliveryNext]_deliveryVars
    PROVE  DeliveryInv' /\ committed <= committed'
<1> USE DEF DeliveryInv, WorkflowsHaveEvents, CommittedIsHandled, Handled
<1>1. /\ DeliveryTypeOK'
      /\ committed \in Nat
      /\ \A o \in 1..committed : o \in DOMAIN topic
      /\ started \subseteq DOMAIN topic
      /\ workflow \in [Keys -> {"absent", "running"} \cup Outcomes]
  BY DeliveryTypeStep DEF DeliveryTypeOK
<1>2. ASSUME NEW o \in DOMAIN topic, StartWorkflow(o)
      PROVE  DeliveryInv' /\ committed <= committed'
  <2>1. WorkflowsHaveEvents'
    BY <1>1, <1>2 DEF StartWorkflow
  <2> QED BY <1>1, <1>2, <2>1 DEF StartWorkflow
<1>3. ASSUME NEW o \in DOMAIN topic, DeadLetter(o)
      PROVE  DeliveryInv' /\ committed <= committed'
  BY <1>1, <1>3 DEF DeadLetter
<1>4. ASSUME NEW o \in DOMAIN topic, Commit(o)
      PROVE  DeliveryInv' /\ committed <= committed'
  BY <1>1, <1>4 DEF Commit, DeliveryTypeOK
<1>5. ASSUME NEW k \in Keys, CloseWorkflow(k)
      PROVE  DeliveryInv' /\ committed <= committed'
  BY <1>1, <1>5 DEF CloseWorkflow
<1>6. ASSUME NEW event \in Event, Publish(event)
      PROVE  DeliveryInv' /\ committed <= committed'
  <2>1. \A o \in DOMAIN topic : topic'[o] = topic[o]
    BY <1>6, PublishAppends DEF DeliveryTypeOK
  <2> QED BY <1>1, <1>6, <2>1 DEF Publish
<1>7. CASE UNCHANGED deliveryVars
  BY <1>1, <1>7 DEF deliveryVars
<1> QED BY <1>2, <1>3, <1>4, <1>5, <1>6, <1>7 DEF DeliveryNext, WorkerNext

\* What is promised to a publisher, for any keys and any number of events: there
\* is no workflow without its event, nothing unhandled is committed, and no
\* commit is taken back (worker.py:462-568).
THEOREM DeliveryKeepsPromises ==
    DeliverySpec => /\ [](WorkflowsHaveEvents /\ CommittedIsHandled)
                    /\ OffsetNeverMovesBack
<1>1. DeliveryInit => DeliveryInv
  BY DEF DeliveryInit, DeliveryInv, DeliveryTypeOK, WorkflowsHaveEvents,
         CommittedIsHandled
<1>2. DeliveryInv /\ [DeliveryNext]_deliveryVars => DeliveryInv'
  BY DeliveryStep
<1>3. DeliveryInv => WorkflowsHaveEvents /\ CommittedIsHandled
  BY DEF DeliveryInv
<1>4. DeliveryInv /\ [DeliveryNext]_deliveryVars => [committed <= committed']_deliveryVars
  BY DeliveryStep
<1> QED BY <1>1, <1>2, <1>3, <1>4, PTL DEF DeliverySpec, OffsetNeverMovesBack
=============================================================================
