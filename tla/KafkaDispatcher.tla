---------------------------- MODULE KafkaDispatcher ----------------------------
(***************************************************************************)
(* KafkaWorkflowDispatcher of src/temporal/worker.py: worker processes of  *)
(* one consumer group take allocation events from the topic, start a       *)
(* Temporal workflow for each, wait for its result, route failed events to *)
(* the dead-letter topic and commit.  The topic has the one partition of   *)
(* the default KAFKA_TOPIC_PARTITIONS.                                     *)
(*                                                                         *)
(* A dispatcher is a thread; the coroutine that starts the workflow runs   *)
(* on the worker's event loop, which activities block, and outlives the    *)
(* time the thread waits for it.  Kafka's group and Temporal's server are  *)
(* modelled from how the dispatcher uses them.  To the publishers all this *)
(* is EventDelivery.                                                       *)
(***************************************************************************)
EXTENDS Naturals, Sequences, FiniteSets

CONSTANTS
    Workers,        \* worker processes, one dispatcher each
    Keys,           \* what names a workflow: allocation_id, or else customer_id
    Events,         \* the events that may be published
    MaxEvents,      \* bound: the length of the topic
    MaxFailures     \* bound: crashes, evictions and fatal Kafka errors

NoWorker == "none"

VARIABLES
    topic,          \* the events published so far
    pc,             \* what each dispatcher does next
    position,       \* the last offset each dispatcher was given
    owner,          \* the group member the partition is assigned to
    committed,      \* the last offset the group has committed
    coroutines,     \* execute_workflow coroutines that have not reached Temporal
    awaiting,       \* dispatchers whose coroutine awaits a running workflow
    workflow,       \* key -> state of the latest run of gpu-alloc-{key}
    started,        \* history: offsets whose start Temporal accepted
    queued,         \* dispatcher -> offsets in its DLQ producer's queue
    dlq,            \* offsets delivered to the dead-letter topic
    counted,        \* offsets counted in dlq_messages_total
    dlqErrors,      \* offsets whose send_to_dlq recorded an error
    failures        \* failures so far
dlqVars == <<queued, dlq, counted, dlqErrors>>
temporalVars == <<coroutines, awaiting, workflow, started>>
dispatcherVars ==
    <<topic, pc, position, owner, committed, temporalVars, dlqVars, failures>>

Outcomes == {"completed", "failed"}

Delivery == INSTANCE EventDelivery WITH deadLettered <- counted \cup dlqErrors

ASSUME DispatcherAssumption ==
    /\ Events \subseteq Delivery!Event
    /\ MaxEvents \in Nat
    /\ MaxFailures \in Nat
    /\ NoWorker \notin Workers

-----------------------------------------------------------------------------

DispatcherStates == {"down", "polling", "waiting", "invalid", "failed", "commit"}
WorkflowStates == {"absent", "running"} \cup Outcomes
Offsets == 1..MaxEvents

\* A coroutine is current while its dispatcher waits for it.
Coroutines == [worker : Workers, event : Offsets, current : BOOLEAN]

DispatcherTypeOK ==
    /\ topic \in Seq(Events) /\ Len(topic) <= MaxEvents
    /\ pc \in [Workers -> DispatcherStates]
    /\ position \in [Workers -> 0..MaxEvents]
    /\ owner \in Workers \cup {NoWorker}
    /\ committed \in 0..MaxEvents
    /\ coroutines \in SUBSET Coroutines
    /\ awaiting \in SUBSET Workers
    /\ workflow \in [Keys -> WorkflowStates]
    /\ started \in SUBSET Offsets
    /\ queued \in [Workers -> SUBSET Offsets]
    /\ dlq \in SUBSET Offsets
    /\ counted \in SUBSET Offsets
    /\ dlqErrors \in SUBSET Offsets
    /\ failures \in 0..MaxFailures

DispatcherInit ==
    /\ topic = << >>
    /\ pc = [d \in Workers |-> "down"]
    /\ position = [d \in Workers |-> 0]
    /\ owner = NoWorker
    /\ committed = 0
    /\ coroutines = {}
    /\ awaiting = {}
    /\ workflow = [k \in Keys |-> "absent"]
    /\ started = {}
    /\ queued = [d \in Workers |-> {}]
    /\ dlq = {}
    /\ counted = {}
    /\ dlqErrors = {}
    /\ failures = 0

Go(d, next) == pc' = [pc EXCEPT ![d] = next]

Leave(d) == owner' = IF owner = d THEN NoWorker ELSE owner

\* The thread that ends with the first failure instead of reconnecting.
CloseAndStop(d) ==
    /\ Go(d, "stopped")
    /\ Leave(d)
    /\ queued' = [queued EXCEPT ![d] = {}]
    /\ UNCHANGED dlq

\* close_kafka_clients: the group is left, and flush(5) delivers some of what
\* the DLQ producer still holds before the producer is dropped.
CloseClients(d) ==
    /\ Go(d, "down")
    /\ Leave(d)
    /\ queued' = [queued EXCEPT ![d] = {}]
    /\ \E delivered \in SUBSET queued[d] : dlq' = dlq \cup delivered

-----------------------------------------------------------------------------
(* Kafka clients and the consumer group *)

Publish(event) ==
    /\ Len(topic) < MaxEvents
    /\ topic' = Append(topic, event)
    /\ UNCHANGED <<pc, position, owner, committed, temporalVars, dlqVars, failures>>

\* initialize_kafka_clients; a failure is retried after a sleep.
Connect(d) ==
    /\ pc[d] = "down"
    /\ Go(d, "polling")
    /\ UNCHANGED <<topic, position, owner, committed, temporalVars, dlqVars, failures>>

\* The group assigns the free partition to a member that polls; it is given
\* the event after the last committed one, or the earliest.
Assign(d) ==
    /\ pc[d] = "polling"
    /\ owner = NoWorker
    /\ owner' = d
    /\ position' = [position EXCEPT ![d] = committed]
    /\ UNCHANGED <<topic, pc, committed, temporalVars, dlqVars, failures>>

Fails == failures < MaxFailures /\ failures' = failures + 1

\* The broker takes the partition from a member: its session ends, or an event
\* takes longer than max.poll.interval.ms, five minutes by default.
Evict(d) ==
    /\ Fails
    /\ owner = d
    /\ owner' = NoWorker
    /\ UNCHANGED <<topic, pc, position, committed, temporalVars, dlqVars>>

\* handle_kafka_error of an error that is not retryable: RuntimeError.
FatalKafkaError(d) ==
    /\ Fails
    /\ pc[d] = "polling"
    /\ CloseClients(d)
    /\ UNCHANGED <<topic, position, committed, temporalVars, counted, dlqErrors>>

\* The process ends, with its event loop and its producer queue.
Crash(d) ==
    /\ Fails
    /\ pc[d] # "down"
    /\ Go(d, "down")
    /\ Leave(d)
    /\ coroutines' = {c \in coroutines : c.worker # d}
    /\ awaiting' = awaiting \ {d}
    /\ queued' = [queued EXCEPT ![d] = {}]
    /\ UNCHANGED <<topic, position, committed, workflow, started, dlq, counted, dlqErrors>>

-----------------------------------------------------------------------------
(* poll_once *)

\* consumer.poll returns the event at position + 1.
Given(d) ==
    /\ pc[d] = "polling"
    /\ owner = d
    /\ position[d] < Len(topic)
    /\ position' = [position EXCEPT ![d] = @ + 1]

\* The consumer that commits what it is given (enable.auto.commit).
PollValidAutoCommit(d) ==
    /\ Given(d)
    /\ topic[position[d] + 1].kind = "valid"
    /\ coroutines' = coroutines \cup
          {[worker |-> d, event |-> position[d] + 1, current |-> TRUE]}
    /\ Go(d, "waiting")
    /\ committed' = position[d] + 1
    /\ UNCHANGED <<topic, owner, awaiting, workflow, started, dlqVars, failures>>

\* start_workflow hands execute_workflow to the event loop and waits.
PollValid(d) ==
    /\ Given(d)
    /\ topic[position[d] + 1].kind = "valid"
    /\ coroutines' = coroutines \cup
          {[worker |-> d, event |-> position[d] + 1, current |-> TRUE]}
    /\ Go(d, "waiting")
    /\ UNCHANGED <<topic, owner, committed, awaiting, workflow, started, dlqVars, failures>>

PollMalformed(d) ==
    /\ Given(d)
    /\ topic[position[d] + 1].kind = "malformed"
    /\ Go(d, "invalid")
    /\ UNCHANGED <<topic, owner, committed, temporalVars, dlqVars, failures>>

\* The value is not UTF-8: message_value raises UnicodeDecodeError, a
\* ValueError, in decode_message, and again as an argument of send_to_dlq.
PollUndecodable(d) ==
    /\ Given(d)
    /\ topic[position[d] + 1].kind = "undecodable"
    /\ CloseClients(d)
    /\ UNCHANGED <<topic, committed, temporalVars, counted, dlqErrors, failures>>

\* send_to_dlq: produce raises, or flush(5) delivers the event, or it does not.
RouteToDlq(d) ==
    /\ pc[d] \in {"invalid", "failed"}
    /\ Go(d, "commit")
    /\ \/ /\ dlqErrors' = dlqErrors \cup {position[d]}
          /\ UNCHANGED <<queued, dlq, counted>>
       \/ /\ dlq' = dlq \cup {position[d]}
          /\ counted' = counted \cup {position[d]}
          /\ UNCHANGED <<queued, dlqErrors>>
       \/ /\ queued' = [queued EXCEPT ![d] = @ \cup {position[d]}]
          /\ counted' = counted \cup {position[d]}
          /\ UNCHANGED <<dlq, dlqErrors>>
    /\ UNCHANGED <<topic, position, owner, committed, temporalVars, failures>>

DlqDelivers(d) ==
    /\ \E e \in queued[d] :
          /\ queued' = [queued EXCEPT ![d] = @ \ {e}]
          /\ dlq' = dlq \cup {e}
    /\ UNCHANGED <<topic, pc, position, owner, committed, temporalVars, counted, dlqErrors, failures>>

\* The commit that the group takes from any member that had the partition.
CommitFromAnyone(d) ==
    /\ pc[d] = "commit"
    /\ committed' = position[d]
    /\ Go(d, "polling")
    /\ UNCHANGED <<topic, position, owner, temporalVars, dlqVars, failures>>

\* commit_message, accepted from the member the partition is assigned to.
CommitAccepted(d) ==
    /\ pc[d] = "commit"
    /\ owner = d
    /\ committed' = position[d]
    /\ Go(d, "polling")
    /\ UNCHANGED <<topic, position, owner, temporalVars, dlqVars, failures>>

\* commit_message swallows the exception.
CommitFails(d) ==
    /\ pc[d] = "commit"
    /\ Go(d, "polling")
    /\ UNCHANGED <<topic, position, owner, committed, temporalVars, dlqVars, failures>>

-----------------------------------------------------------------------------
(* execute_workflow on the event loop, and Temporal *)

Waits(c) == c.current /\ pc[c.worker] = "waiting"

\* client.start_workflow: the id is free, or taken by a running workflow, or
\* the call fails after or before the server has started the workflow.
ReachTemporal(c) ==
    LET key == topic[c.event].key
        failed == IF Waits(c) THEN [pc EXCEPT ![c.worker] = "failed"] ELSE pc
    IN  /\ c \in coroutines
        /\ coroutines' = coroutines \ {c}
        /\ \/ /\ workflow[key] # "running"
              /\ workflow' = [workflow EXCEPT ![key] = "running"]
              /\ started' = started \cup {c.event}
              /\ \/ /\ awaiting' = IF Waits(c) THEN awaiting \cup {c.worker} ELSE awaiting
                    /\ UNCHANGED pc
                 \/ /\ pc' = failed
                    /\ UNCHANGED awaiting
           \/ /\ pc' = failed
              /\ UNCHANGED <<workflow, started, awaiting>>
        /\ UNCHANGED <<topic, position, owner, committed, dlqVars, failures>>

\* A workflow closes; handle.result() returns, or raises WorkflowFailureError.
WorkflowCloses(k) ==
    /\ workflow[k] = "running"
    /\ \E how \in Outcomes :
          LET told == {d \in awaiting : topic[position[d]].key = k}
          IN  /\ workflow' = [workflow EXCEPT ![k] = how]
              /\ awaiting' = awaiting \ told
              /\ pc' = [d \in Workers |->
                           IF d \notin told THEN pc[d]
                           ELSE IF how = "completed" THEN "commit" ELSE "failed"]
    /\ UNCHANGED <<topic, position, owner, committed, coroutines, started, dlqVars, failures>>

\* The wait for the result that has no time limit.
TimeoutNever(d) == FALSE

\* workflow_future.result(timeout=...) raises TimeoutError, or the call that
\* awaits the result fails; the coroutine and the workflow go on.
Timeout(d) ==
    /\ pc[d] = "waiting"
    /\ Go(d, "failed")
    /\ awaiting' = awaiting \ {d}
    /\ coroutines' = {IF c.worker = d THEN [c EXCEPT !.current = FALSE] ELSE c :
                          c \in coroutines}
    /\ UNCHANGED <<topic, position, owner, committed, workflow, started, dlqVars, failures>>

-----------------------------------------------------------------------------

DispatcherNext ==
    \/ \E d \in Workers :
          \/ Connect(d) \/ Assign(d) \/ Evict(d) \/ FatalKafkaError(d) \/ Crash(d)
          \/ PollValid(d) \/ PollMalformed(d) \/ PollUndecodable(d)
          \/ RouteToDlq(d) \/ DlqDelivers(d)
          \/ CommitAccepted(d) \/ CommitFails(d)
          \/ Timeout(d)
    \/ \E c \in coroutines : ReachTemporal(c)
    \/ \E k \in Keys : WorkflowCloses(k)
    \/ \E event \in Events : Publish(event)

DispatcherSpec == DispatcherInit /\ [][DispatcherNext]_dispatcherVars

\* What the dispatcher's thread does by itself, one step after the other.
ThreadStep(d) ==
    \/ Connect(d)
    \/ PollValid(d) \/ PollMalformed(d) \/ PollUndecodable(d)
    \/ RouteToDlq(d)
    \/ CommitAccepted(d) \/ CommitFails(d)

\* The thread runs, the group assigns a free partition, waiting times out, and a
\* queued DLQ record is delivered.  No publication or commit has to be accepted,
\* no workflow has to close, and ReachTemporal and the failures may never happen.
FairDispatcherSpec ==
    /\ DispatcherSpec
    /\ \A d \in Workers :
          /\ WF_dispatcherVars(ThreadStep(d))
          /\ WF_dispatcherVars(Assign(d))
          /\ WF_dispatcherVars(DlqDelivers(d))
          /\ WF_dispatcherVars(Timeout(d))

-----------------------------------------------------------------------------
(* Properties *)

Handled(o) == Delivery!Handled(o)

\* Whatever crashes, evictions, failed commits and timeouts happen, the group
\* never commits past an event that was neither given to Temporal nor handed to
\* send_to_dlq (worker.py:462-506).
NothingSkipped == \A o \in 1..committed : Handled(o)

\* What the threads, the event loop and the group do together is what publishers
\* are promised: only valid events start workflows, one run of a key at a time,
\* and the group's offset never moves back (worker.py:462-568).
ImplementsEventDelivery == Delivery!DeliverySpec

\* Every event is given to Temporal or handed to send_to_dlq some time, unless a
\* value that is not UTF-8 is before it; also when workflows never close, commits
\* fail and the dead-letter topic refuses everything (worker.py:526-568).
EventsHandled == Delivery!CatchesUp

\* src/README.md:132: the worker waits for the workflow result before committing
\* the Kafka offset.
CommitWaitsForResult ==
    \A o \in 1..committed : workflow[topic[o].key] # "running"

\* src/README.md:144: invalid events are published to the dead-letter topic.
InvalidEventsReachDlq ==
    \A o \in Offsets : (o \in DOMAIN topic /\ topic[o].kind # "valid") ~> (o \in dlq)
=============================================================================
