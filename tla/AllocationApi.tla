----------------------------- MODULE AllocationApi -----------------------------
(***************************************************************************)
(* The gateway of src/api/main.py against the worker side of               *)
(* EventDelivery: allocate_gpu publishes an event through a producer that  *)
(* all handler threads share and waits for its delivery report;            *)
(* get_allocation_status asks Temporal for the workflow of an allocation.  *)
(*                                                                         *)
(* Each request has an allocation_id of its own (a UUID), so requests and  *)
(* keys are one set; a client that repeats a failed request sends another. *)
(* The producer's queue and the broker are modelled from how the API uses  *)
(* confluent_kafka: messages are sent again when their acknowledgement is  *)
(* lost (the producer is not idempotent), reports are served by whichever  *)
(* thread is in flush, and flush counts the messages of all of them.       *)
(***************************************************************************)
EXTENDS EventDelivery

CONSTANTS
    Clients,        \* look-ups that can be under way at the same time
    MaxEvents       \* bound: the length of the topic

VARIABLES
    pc,             \* what the handler thread of each request does, or its answer
    producer,       \* the module's producer, named after the request that made it
    via,            \* request -> the producer that has its message
    message,        \* request -> state of its message in that producer
    report,         \* request -> what track_delivery was called with
    lookUp          \* client -> the latest look-up
requestVars == <<pc, producer, via, message, report>>
apiVars == <<deliveryVars, requestVars, lookUp>>

Requests == Keys
None == "none"

ASSUME ApiAssumption ==
    /\ None \notin Requests
    /\ "failed" \in Outcomes
    /\ Outcomes \cap {"absent", "running", "queued", "none", "unavailable", "error"} = {}
    /\ MaxEvents \in Nat

Working == {"checking", "creating", "producing", "flushing"}
Answers == {"accepted", "invalid tier", "failed"}     \* 202, 400 and 500

\* What a look-up can tell of a workflow; "unavailable" is 503, "error" 500.
Statuses == {"absent", "running"} \cup Outcomes
\* The look-up that takes NOT_FOUND for a failure.
ShownFailed(state) == IF state = "absent" THEN "failed" ELSE state

Shown(state) == IF state = "absent" THEN "queued" ELSE state
NoAnswer == {"none", "unavailable", "error"}
LookUpState ==
    [of : Keys \cup {None}, phase : {"idle", "describing", "fetching"},
     seen : SUBSET Statuses,    \* history: the workflow's states since it began
     answer : {Shown(state) : state \in Statuses} \cup NoAnswer]

ApiTypeOK ==
    /\ DeliveryTypeOK
    /\ pc \in [Requests -> {"idle", "gone"} \cup Working \cup Answers]
    /\ producer \in Requests \cup {None}
    /\ via \in [Requests -> Requests \cup {None}]
    /\ message \in [Requests -> {"none", "queued", "acknowledged", "refused"}]
    /\ report \in [Requests -> {"none", "ok", "error"}]
    /\ lookUp \in [Clients -> LookUpState]
    /\ \A c \in Clients : lookUp[c].phase # "idle" => lookUp[c].of \in Keys

ApiInit ==
    /\ DeliveryInit
    /\ pc = [r \in Requests |-> "idle"]
    /\ producer = None
    /\ via = [r \in Requests |-> None]
    /\ message = [r \in Requests |-> "none"]
    /\ report = [r \in Requests |-> "none"]
    /\ lookUp = [c \in Clients |->
                    [of |-> None, phase |-> "idle", seen |-> {}, answer |-> "none"]]

Go(r, next) == pc' = [pc EXCEPT ![r] = next]

\* Requests whose message is still in a producer's queue, reported or not.
QueueOf(p) == {r \in Requests : via[r] = p /\ message[r] # "none"}

-----------------------------------------------------------------------------
(* allocate_gpu *)

Receive(r) ==
    /\ pc[r] = "idle"
    /\ \/ Go(r, "checking")
       \/ Go(r, "invalid tier")
    /\ UNCHANGED <<deliveryVars, producer, via, message, report, lookUp>>

\* get_producer: the test of the module's producer, its creation and its use
\* are separate steps of threads that hold no lock.
CheckProducer(r) ==
    /\ pc[r] = "checking"
    /\ Go(r, IF producer = None THEN "creating" ELSE "producing")
    /\ UNCHANGED <<deliveryVars, producer, via, message, report, lookUp>>

\* A producer that is no longer the module's and that no thread flushes ends,
\* and what it has queued is lost.
DropUnused ==
    message' = [s \in Requests |->
        IF \/ via[s] = producer'
           \/ \E t \in Requests : pc'[t] = "flushing" /\ via[t] = via[s]
        THEN message[s] ELSE "none"]

CreateProducer(r) ==
    /\ pc[r] = "creating"
    /\ \/ producer' = r /\ Go(r, "producing")
       \/ producer' = producer /\ Go(r, "failed")
    /\ DropUnused
    /\ UNCHANGED <<deliveryVars, via, report, lookUp>>

\* produce queues the message, or raises because the queue is full.
Produce(r) ==
    /\ pc[r] = "producing"
    /\ \/ /\ via' = [via EXCEPT ![r] = producer]
          /\ message' = [message EXCEPT ![r] = "queued"]
          /\ Go(r, "flushing")
       \/ /\ Go(r, "failed")
          /\ UNCHANGED <<via, message>>
    /\ UNCHANGED <<deliveryVars, producer, report, lookUp>>

\* The callback that reports to the request whose thread it runs in.
ServeOwnReport(r, s) ==
    /\ pc[r] = "flushing"
    /\ s \in QueueOf(via[r])
    /\ message[s] # "queued"
    /\ report' = [report EXCEPT ![r] = IF message[s] = "acknowledged" THEN "ok" ELSE "error"]
    /\ message' = [message EXCEPT ![s] = "none"]
    /\ UNCHANGED <<deliveryVars, pc, producer, via, lookUp>>

\* flush serves a delivery report of any request's message.
ServeReport(r, s) ==
    /\ pc[r] = "flushing"
    /\ s \in QueueOf(via[r])
    /\ message[s] # "queued"
    /\ report' = [report EXCEPT ![s] =
          IF pc[s] # "flushing" THEN @ ELSE IF message[s] = "acknowledged" THEN "ok" ELSE "error"]
    /\ message' = [message EXCEPT ![s] = "none"]
    /\ UNCHANGED <<deliveryVars, pc, producer, via, lookUp>>

Answer(r, answer) ==
    /\ Go(r, answer)
    /\ UNCHANGED <<deliveryVars, producer, via, report, lookUp>>
    /\ DropUnused

\* flush returns 0: the queue is empty, and so the report has been served.
FlushReturns(r) ==
    /\ pc[r] = "flushing"
    /\ QueueOf(via[r]) = {}
    /\ Answer(r, IF report[r] = "ok" THEN "accepted" ELSE "failed")

\* The flush without a timeout.
FlushWaits(r) == FALSE

\* flush gives up after KAFKA_PRODUCER_FLUSH_TIMEOUT_SECONDS with messages left,
\* whoever's they are; they stay in the queue.
FlushTimesOut(r) ==
    /\ pc[r] = "flushing"
    /\ QueueOf(via[r]) # {}
    /\ Answer(r, "failed")

\* The process ends with its threads and its queues; the client gets no answer.
Restart ==
    /\ producer' = None
    /\ pc' = [r \in Requests |-> IF pc[r] \in Working THEN "gone" ELSE pc[r]]
    /\ message' = [r \in Requests |-> "none"]
    /\ UNCHANGED <<deliveryVars, via, report, lookUp>>

-----------------------------------------------------------------------------
(* The broker *)

\* The message reaches the topic; its acknowledgement reaches the producer or is
\* lost, and then the message is sent again.
Deliver(r) ==
    /\ message[r] = "queued"
    /\ Len(topic) < MaxEvents
    /\ Publish([kind |-> "valid", key |-> r])
    /\ \/ message' = [message EXCEPT ![r] = "acknowledged"]
       \/ UNCHANGED message
    /\ UNCHANGED <<pc, producer, via, report, lookUp>>

\* The broker refuses it, or message.timeout.ms passes: it may be in the topic.
Refuse(r) ==
    /\ message[r] = "queued"
    /\ message' = [message EXCEPT ![r] = "refused"]
    /\ UNCHANGED <<deliveryVars, pc, producer, via, report, lookUp>>

-----------------------------------------------------------------------------
(* get_allocation_status *)

LookUp(c, k) ==
    /\ lookUp[c].phase = "idle"
    /\ lookUp' = [lookUp EXCEPT ![c] =
          [of |-> k, phase |-> "describing", seen |-> {workflow[k]}, answer |-> "none"]]
    /\ UNCHANGED <<deliveryVars, requestVars>>

Reply(c, status) ==
    lookUp' = [lookUp EXCEPT ![c].phase = "idle", ![c].answer = status]

\* The look-up that answers every error of the call with "queued".
DescribeOrQueued(c) ==
    /\ lookUp[c].phase = "describing"
    /\ LET state == workflow[lookUp[c].of]
       IN  \/ state \in Outcomes \ {"failed"} /\ lookUp' = [lookUp EXCEPT ![c].phase = "fetching"]
           \/ state \in {"running", "failed"} /\ Reply(c, state)
           \/ Reply(c, "queued")
    /\ UNCHANGED <<deliveryVars, requestVars>>

\* NOT_FOUND is answered as "queued", a state that is not COMPLETED by its name;
\* a client that cannot be made and any other error are answered with 503.
Describe(c) ==
    /\ lookUp[c].phase = "describing"
    /\ LET state == workflow[lookUp[c].of]
       IN  \/ /\ state \in {"absent", "running", "failed"}
              /\ Reply(c, Shown(state))
           \/ /\ state \in Outcomes \ {"failed"}
              /\ lookUp' = [lookUp EXCEPT ![c].phase = "fetching"]
           \/ Reply(c, "unavailable")
    /\ UNCHANGED <<deliveryVars, requestVars>>

\* handle.result() waits for the latest run, which need not be the one described;
\* it raises when that run failed or the call times out.
FetchResult(c) ==
    /\ lookUp[c].phase = "fetching"
    /\ \/ /\ workflow[lookUp[c].of] \in Outcomes \ {"failed"}
          /\ Reply(c, workflow[lookUp[c].of])
       \/ Reply(c, "error")
    /\ UNCHANGED <<deliveryVars, requestVars>>

-----------------------------------------------------------------------------

\* A look-up under way sees the worker side move.
Watched ==
    lookUp' = [c \in Clients |->
                  IF lookUp[c].phase = "idle" THEN lookUp[c]
                  ELSE [lookUp[c] EXCEPT !.seen = @ \cup {workflow'[lookUp[c].of]}]]

WorkerStep(A) == A /\ Watched /\ UNCHANGED requestVars

RequestStep(r) ==
    \/ CheckProducer(r) \/ CreateProducer(r) \/ Produce(r)
    \/ \E s \in Requests : ServeReport(r, s)
    \/ FlushReturns(r) \/ FlushTimesOut(r)

ApiNext ==
    \/ \E r \in Requests :
          Receive(r) \/ RequestStep(r) \/ Deliver(r) \/ Refuse(r)
    \/ Restart
    \/ \E c \in Clients :
          \/ \E k \in Keys : LookUp(c, k)
          \/ Describe(c)
          \/ FetchResult(c)
    \/ WorkerStep(WorkerNext)

ApiSpec == ApiInit /\ [][ApiNext]_apiVars

\* Threads run, and flush returns after its timeout at the latest.  Neither Kafka
\* nor the workers need do anything.
ApiFairness == \A r \in Requests : WF_apiVars(RequestStep(r))

-----------------------------------------------------------------------------

Published(r) == \E o \in DOMAIN topic : topic[o].key = r

\* src/README.md:127: a request is answered 202 only when its own event is in the
\* topic, whichever thread was given the delivery report and whatever happened
\* to the other messages of the producer (api/main.py:180-207).
AcceptedIsPublished == \A r \in Requests : pc[r] = "accepted" => Published(r)

\* Every request is answered although the thread waits for the messages of other
\* requests, unless the process ends (api/main.py:198-203).
RequestsAreAnswered ==
    \A r \in Requests : pc[r] \in Working ~> pc[r] \in Answers \cup {"gone"}

\* The status that a look-up answers was the workflow's at some time during the
\* look-up, also when another run starts between the two calls to Temporal
\* (api/main.py:292-335).
LookUpIsTruthful ==
    \A c \in Clients :
        lookUp[c].answer \in NoAnswer \cup {Shown(state) : state \in lookUp[c].seen}

\* A client is told that an allocation runs or has ended only of one whose own
\* event is in the topic and was started, whatever became of the request that
\* published it: answered 202, failed or lost (api/main.py:300-335).
StatusHasEvent ==
    \A c \in Clients : lookUp[c].answer \in Statuses \ {"absent"} =>
        \E o \in started : topic[o].kind = "valid" /\ topic[o].key = lookUp[c].of
=============================================================================
