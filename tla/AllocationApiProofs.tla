------------------------- MODULE AllocationApiProofs -------------------------
(***************************************************************************)
(* A request is answered 202 only for an event that is in the topic, for   *)
(* any number of requests, clients and restarts.  A message that was       *)
(* acknowledged is in the topic, a report says what happened to the        *)
(* message of its own request, and the topic forgets nothing.              *)
(***************************************************************************)
EXTENDS AllocationApi

-----------------------------------------------------------------------------
(* Type correctness *)

LookUpsOK ==
    /\ lookUp \in [Clients -> LookUpState]
    /\ \A c \in Clients : lookUp[c].phase # "idle" => lookUp[c].of \in Keys

\* A look-up stays a look-up.
LEMMA LookUpTypeStep ==
    ASSUME LookUpsOK, workflow \in [Keys -> Statuses],
           NEW c \in Clients,
           \/ \E k \in Keys : LookUp(c, k)
           \/ Describe(c)
           \/ FetchResult(c)
    PROVE  LookUpsOK'
<1> USE DEF LookUpsOK, LookUpState
<1>1. ASSUME NEW l \in LookUpState, l.phase # "idle" => l.of \in Keys,
             lookUp' = [lookUp EXCEPT ![c] = l]
      PROVE  LookUpsOK'
  BY <1>1
<1>2. ASSUME NEW k \in Keys, LookUp(c, k) PROVE LookUpsOK'
  <2>1. [of |-> k, phase |-> "describing", seen |-> {workflow[k]}, answer |-> "none"]
            \in LookUpState
    BY DEF NoAnswer
  <2> QED BY <1>1, <1>2, <2>1 DEF LookUp
<1>3. ASSUME NEW status \in {Shown(state) : state \in Statuses} \cup NoAnswer, Reply(c, status)
      PROVE  LookUpsOK'
  <2>1. [lookUp[c] EXCEPT !.phase = "idle", !.answer = status] \in LookUpState
    OBVIOUS
  <2>2. lookUp' = [lookUp EXCEPT ![c] = [lookUp[c] EXCEPT !.phase = "idle", !.answer = status]]
    BY <1>3 DEF Reply
  <2> QED BY <1>1, <2>1, <2>2
<1>4. CASE Describe(c)
  <2>1. PICK state \in Statuses : state = workflow[lookUp[c].of]
    BY <1>4 DEF Describe
  <2>2. lookUp[c].of \in Keys
    BY <1>4 DEF Describe
  <2>3. CASE lookUp' = [lookUp EXCEPT ![c].phase = "fetching"]
    <3>1. [lookUp[c] EXCEPT !.phase = "fetching"] \in LookUpState
      OBVIOUS
    <3> QED BY <1>1, <2>2, <2>3, <3>1
  <2> QED BY <1>3, <1>4, <2>1, <2>3 DEF Describe, NoAnswer
<1>5. CASE FetchResult(c)
  <2>1. lookUp[c].of \in Keys
    BY <1>5 DEF FetchResult
  <2>2. CASE Reply(c, "error")
    BY <1>3, <2>2 DEF NoAnswer
  <2>3. CASE /\ workflow[lookUp[c].of] \in Outcomes \ {"failed"}
             /\ Reply(c, workflow[lookUp[c].of])
    <3>1. PICK status \in Statuses : status = workflow[lookUp[c].of]
      BY <2>1
    <3>2. Reply(c, status)
      BY <2>3, <3>1 DEF Reply
    <3>3. Shown(status) = status
      BY <2>3, <3>1, ApiAssumption DEF Shown
    <3> QED BY <1>3, <3>2, <3>3
  <2> QED BY <1>5, <2>2, <2>3 DEF FetchResult
<1> QED BY <1>2, <1>4, <1>5

\* Every step keeps the state well typed.
LEMMA ApiTypeStep ==
    ASSUME ApiTypeOK, [ApiNext]_apiVars
    PROVE  ApiTypeOK'
<1> USE ApiAssumption DEF ApiTypeOK, LookUpsOK, Working, Answers, requestVars, Requests
<1>1. ASSUME UNCHANGED deliveryVars PROVE DeliveryTypeOK'
  BY <1>1 DEF deliveryVars, DeliveryTypeOK
<1>2. ASSUME NEW r \in Requests, Receive(r) \/ CheckProducer(r) PROVE ApiTypeOK'
  BY <1>1, <1>2 DEF Receive, CheckProducer, Go
<1>3. ASSUME NEW r \in Requests, CreateProducer(r) PROVE ApiTypeOK'
  <2>1. message' \in [Requests -> {"none", "queued", "acknowledged", "refused"}]
    BY <1>3 DEF CreateProducer, DropUnused
  <2> QED BY <1>1, <1>3, <2>1 DEF CreateProducer, Go
<1>4. ASSUME NEW r \in Requests, Produce(r) PROVE ApiTypeOK'
  <2>1. /\ pc' = [pc EXCEPT ![r] = "flushing"] \/ pc' = [pc EXCEPT ![r] = "failed"]
        /\ via' = [via EXCEPT ![r] = producer] \/ via' = via
        /\ message' = [message EXCEPT ![r] = "queued"] \/ message' = message
        /\ UNCHANGED <<deliveryVars, producer, report, lookUp>>
    BY <1>4 DEF Produce, Go
  <2>2. /\ pc' \in [Requests -> {"idle", "gone"} \cup Working \cup Answers]
        /\ via' \in [Requests -> Requests \cup {None}]
        /\ message' \in [Requests -> {"none", "queued", "acknowledged", "refused"}]
    BY <2>1
  <2> QED BY <1>1, <2>1, <2>2
<1>5. ASSUME NEW r \in Requests, NEW s \in Requests, ServeReport(r, s) PROVE ApiTypeOK'
  <2>1. report' \in [Requests -> {"none", "ok", "error"}]
    BY <1>5 DEF ServeReport
  <2>2. message' \in [Requests -> {"none", "queued", "acknowledged", "refused"}]
    BY <1>5 DEF ServeReport
  <2>3. UNCHANGED <<deliveryVars, pc, producer, via, lookUp>>
    BY <1>5 DEF ServeReport
  <2> QED BY <1>1, <2>1, <2>2, <2>3
<1>6. ASSUME NEW r \in Requests, FlushReturns(r) \/ FlushTimesOut(r) PROVE ApiTypeOK'
  <2>1. /\ message' \in [Requests -> {"none", "queued", "acknowledged", "refused"}]
        /\ pc' = [pc EXCEPT ![r] = "accepted"] \/ pc' = [pc EXCEPT ![r] = "failed"]
        /\ UNCHANGED <<deliveryVars, producer, via, report, lookUp>>
    BY <1>6 DEF FlushReturns, FlushTimesOut, Answer, DropUnused, Go
  <2> QED BY <1>1, <2>1
<1>7. CASE Restart
  BY <1>1, <1>7 DEF Restart
<1>8. ASSUME NEW r \in Requests, Deliver(r) PROVE ApiTypeOK'
  <2>1. [kind |-> "valid", key |-> r] \in Event /\ Publish([kind |-> "valid", key |-> r])
    BY <1>8 DEF Deliver, Event, EventKinds
  <2>2. DeliveryTypeOK'
    BY <2>1, DeliveryTypeStep DEF DeliveryNext
  <2> QED BY <1>8, <2>2 DEF Deliver
<1>9. ASSUME NEW r \in Requests, Refuse(r) PROVE ApiTypeOK'
  BY <1>1, <1>9 DEF Refuse
<1>10. ASSUME NEW c \in Clients,
              (\E k \in Keys : LookUp(c, k)) \/ Describe(c) \/ FetchResult(c)
       PROVE  ApiTypeOK'
  <2>1. UNCHANGED <<deliveryVars, requestVars>>
    BY <1>10 DEF LookUp, Describe, FetchResult
  <2>2. LookUpsOK'
    BY <1>10, LookUpTypeStep DEF DeliveryTypeOK, Statuses
  <2> QED BY <1>1, <2>1, <2>2
<1>11. CASE WorkerStep(WorkerNext)
  <2>1. WorkerNext /\ Watched /\ UNCHANGED requestVars
    BY <1>11 DEF WorkerStep
  <2>2. DeliveryTypeOK'
    BY <2>1, DeliveryTypeStep DEF DeliveryNext
  <2>3. workflow' \in [Keys -> Statuses]
    BY <2>2 DEF DeliveryTypeOK, Statuses
  <2>4. ASSUME NEW c \in Clients
        PROVE  /\ lookUp'[c] \in LookUpState
               /\ lookUp'[c].phase # "idle" => lookUp'[c].of \in Keys
    <3>1. CASE lookUp[c].phase = "idle"
      BY <2>1, <3>1 DEF Watched
    <3>2. CASE lookUp[c].phase # "idle"
      <4>1. lookUp'[c] = [lookUp[c] EXCEPT !.seen = @ \cup {workflow'[lookUp[c].of]}]
        BY <2>1, <3>2 DEF Watched
      <4>2. PICK status \in Statuses : status = workflow'[lookUp[c].of]
        BY <2>3, <3>2
      <4>3. lookUp'[c] = [lookUp[c] EXCEPT !.seen = @ \cup {status}]
        BY <4>1, <4>2
      <4>4. lookUp[c] \in LookUpState
        OBVIOUS
      <4>5. [lookUp[c] EXCEPT !.seen = @ \cup {status}] \in LookUpState
        BY ONLY <4>4, <4>2 DEF LookUpState
      <4>6. lookUp'[c].of = lookUp[c].of
        BY ONLY <4>3, <4>4 DEF LookUpState
      <4> QED BY <4>3, <4>5, <4>6, <3>2
    <3> QED BY <3>1, <3>2
  <2>5. LookUpsOK'
    BY <2>1, <2>4 DEF Watched
  <2> QED BY <2>1, <2>2, <2>5
<1>12. CASE UNCHANGED apiVars
  BY <1>1, <1>12 DEF apiVars
<1> QED
  BY <1>2, <1>3, <1>4, <1>5, <1>6, <1>7, <1>8, <1>9, <1>10, <1>11, <1>12
  DEF ApiNext, RequestStep

LEMMA ApiTypeInit == ApiInit => ApiTypeOK
BY ApiAssumption
DEF ApiInit, DeliveryInit, ApiTypeOK, DeliveryTypeOK, Working, Answers, LookUpState,
    NoAnswer, Requests

\* The API and the worker side stay well typed whatever fails (api/main.py:158-335).
THEOREM ApiTypeCorrect == ApiSpec => []ApiTypeOK
<1> QED BY ApiTypeInit, ApiTypeStep, PTL DEF ApiSpec

-----------------------------------------------------------------------------
(* Accepted means published *)

\* What confirms a request: its message's acknowledgement, its report, its answer.
Confirmed(r) == message[r] = "acknowledged" \/ report[r] = "ok" \/ pc[r] = "accepted"

ConfirmInv == ApiTypeOK /\ \A r \in Requests : Confirmed(r) => Published(r)

\* The topic forgets nothing.
LEMMA PublishedStays ==
    ASSUME ApiTypeOK, [ApiNext]_apiVars, NEW r \in Requests, Published(r)
    PROVE  Published(r)'
<1>1. CASE topic' = topic
  BY <1>1 DEF Published
<1>2. ASSUME NEW s \in Requests, Deliver(s) PROVE Published(r)'
  <2>1. [kind |-> "valid", key |-> s] \in Event /\ Publish([kind |-> "valid", key |-> s])
    BY <1>2 DEF Deliver, Event, EventKinds, Requests
  <2>2. \A o \in DOMAIN topic : o \in DOMAIN topic' /\ topic'[o] = topic[o]
    BY <2>1, PublishAppends DEF ApiTypeOK, DeliveryTypeOK
  <2> QED BY <2>2 DEF Published
<1>3. ASSUME NEW s \in Requests, Receive(s) \/ RequestStep(s) \/ Refuse(s) PROVE topic' = topic
  BY <1>3 DEF Receive, RequestStep, CheckProducer, CreateProducer, Produce, ServeReport,
              FlushReturns, FlushTimesOut, Answer, Refuse, deliveryVars
<1>4. ASSUME NEW c \in Clients,
             Restart \/ (\E k \in Keys : LookUp(c, k)) \/ Describe(c) \/ FetchResult(c)
      PROVE  topic' = topic
  BY <1>4 DEF Restart, LookUp, Describe, FetchResult, deliveryVars
<1>5. CASE Restart
  BY <1>1, <1>5 DEF Restart, deliveryVars
<1>6. CASE WorkerStep(WorkerNext)
  BY <1>1, <1>6 DEF WorkerStep, WorkerNext, StartWorkflow, DeadLetter, Commit, CloseWorkflow
<1>7. CASE UNCHANGED apiVars
  BY <1>1, <1>7 DEF apiVars, deliveryVars
<1> QED BY <1>1, <1>2, <1>3, <1>4, <1>5, <1>6, <1>7 DEF ApiNext

\* Confirmation comes from the topic, one request at a time.
LEMMA ConfirmStep ==
    ASSUME ConfirmInv, ApiTypeOK', [ApiNext]_apiVars, NEW r \in Requests, Confirmed(r)'
    PROVE  Published(r)'
<1> USE DEF ConfirmInv, ApiTypeOK
<1>1. CASE Confirmed(r)
  BY <1>1, PublishedStays
<1> SUFFICES ASSUME ~Confirmed(r) PROVE Published(r)'
  BY <1>1
<1>2. ASSUME NEW s \in Requests, Deliver(s) PROVE Published(r)'
  <2>1. s = r
    BY <1>2 DEF Deliver, Confirmed
  <2>2. [kind |-> "valid", key |-> r] \in Event /\ Publish([kind |-> "valid", key |-> r])
    BY <1>2, <2>1 DEF Deliver, Event, EventKinds, Requests
  <2>3. \E o \in DOMAIN topic' : topic'[o].key = r
    BY <2>2, PublishAppends DEF DeliveryTypeOK
  <2> QED BY <2>3 DEF Published
<1>3. ASSUME NEW s \in Requests, Receive(s) \/ Refuse(s) \/ CheckProducer(s) \/ Produce(s)
      PROVE  ~Confirmed(r)'
  BY <1>3 DEF Receive, Refuse, CheckProducer, Produce, Confirmed, Go
<1>4. ASSUME NEW s \in Requests, CreateProducer(s) PROVE ~Confirmed(r)'
  BY <1>4 DEF CreateProducer, DropUnused, Confirmed, Go
<1>5. ASSUME NEW s \in Requests, NEW t \in Requests, ServeReport(s, t) PROVE ~Confirmed(r)'
  BY <1>5 DEF ServeReport, Confirmed
<1>6. ASSUME NEW s \in Requests, FlushReturns(s) \/ FlushTimesOut(s) PROVE ~Confirmed(r)'
  <2>1. \/ pc' = [pc EXCEPT ![s] = "failed"]
        \/ pc' = [pc EXCEPT ![s] = "accepted"] /\ report[s] = "ok"
    BY <1>6 DEF FlushReturns, FlushTimesOut, Answer, Go
  <2>2. /\ message'[r] \in {message[r], "none"} /\ report' = report
    BY <1>6 DEF FlushReturns, FlushTimesOut, Answer, DropUnused
  <2> QED BY <2>1, <2>2 DEF Confirmed
<1>7. CASE Restart
  BY <1>7 DEF Restart, Confirmed
<1>8. CASE UNCHANGED requestVars
  BY <1>8 DEF requestVars, Confirmed
<1>9. CASE UNCHANGED apiVars
  BY <1>8, <1>9 DEF apiVars
<1>10. ASSUME NEW c \in Clients,
              (\E k \in Keys : LookUp(c, k)) \/ Describe(c) \/ FetchResult(c)
       PROVE  UNCHANGED requestVars
  BY <1>10 DEF LookUp, Describe, FetchResult
<1>11. ASSUME WorkerStep(WorkerNext) PROVE UNCHANGED requestVars
  BY <1>11 DEF WorkerStep
<1> QED
  BY <1>2, <1>3, <1>4, <1>5, <1>6, <1>7, <1>8, <1>9, <1>10, <1>11 DEF ApiNext, RequestStep

\* Whichever thread serves the reports, whatever is lost, sent twice or left in
\* the queue: 202 is answered only for a published event (api/main.py:180-207).
THEOREM ApiAcceptsOnlyPublished == ApiSpec => []AcceptedIsPublished
<1>1. ApiInit => ConfirmInv
  BY ApiTypeInit DEF ApiInit, ConfirmInv, Confirmed
<1>2. ConfirmInv /\ [ApiNext]_apiVars => ConfirmInv'
  BY ApiTypeStep, ConfirmStep DEF ConfirmInv
<1>3. ConfirmInv => AcceptedIsPublished
  BY DEF ConfirmInv, Confirmed, AcceptedIsPublished
<1> QED BY <1>1, <1>2, <1>3, PTL DEF ApiSpec

-----------------------------------------------------------------------------
(* Look-ups tell the truth *)

\* What a look-up may tell is in its record, and so is the present state.
TruthfulOf(c) ==
    /\ lookUp[c].phase # "idle" => workflow[lookUp[c].of] \in lookUp[c].seen
    /\ lookUp[c].answer \in NoAnswer \cup {Shown(state) : state \in lookUp[c].seen}

TruthInv == ApiTypeOK /\ \A c \in Clients : TruthfulOf(c)

LEMMA TruthStep ==
    ASSUME TruthInv, [ApiNext]_apiVars
    PROVE  TruthInv'
<1> USE DEF TruthInv
<1>0. ApiTypeOK' /\ lookUp \in [Clients -> LookUpState]
  BY ApiTypeStep DEF ApiTypeOK
<1>1. ASSUME lookUp' = lookUp, workflow' = workflow PROVE TruthInv'
  BY <1>0, <1>1 DEF TruthfulOf
<1>2. ASSUME NEW r \in Requests, Receive(r) \/ RequestStep(r) \/ Refuse(r) PROVE TruthInv'
  BY <1>1, <1>2 DEF Receive, RequestStep, CheckProducer, CreateProducer, Produce,
                    ServeReport, FlushReturns, FlushTimesOut, Answer, Refuse, deliveryVars
<1>3. ASSUME NEW r \in Requests, Deliver(r) PROVE TruthInv'
  BY <1>1, <1>3 DEF Deliver, Publish
<1>4. CASE Restart
  BY <1>1, <1>4 DEF Restart, deliveryVars
<1>5. ASSUME NEW c \in Clients, workflow' = workflow, TruthfulOf(c)',
             \A d \in Clients \ {c} : lookUp'[d] = lookUp[d]
      PROVE  TruthInv'
  BY <1>0, <1>5 DEF TruthfulOf
<1>6. ASSUME NEW c \in Clients, NEW k \in Keys, LookUp(c, k) PROVE TruthInv'
  BY <1>0, <1>5, <1>6 DEF LookUp, deliveryVars, TruthfulOf, NoAnswer
<1>7. ASSUME NEW c \in Clients, NEW status, Reply(c, status), workflow' = workflow,
             status \in NoAnswer \cup {Shown(state) : state \in lookUp[c].seen}
      PROVE  TruthInv'
  <2>1. /\ lookUp'[c].phase = "idle" /\ lookUp'[c].answer = status
        /\ lookUp'[c].seen = lookUp[c].seen
        /\ \A d \in Clients \ {c} : lookUp'[d] = lookUp[d]
    BY <1>0, <1>7 DEF Reply, LookUpState
  <2> QED BY <1>5, <1>7, <2>1 DEF TruthfulOf
<1>8. ASSUME NEW c \in Clients, Describe(c) PROVE TruthInv'
  <2>1. PICK state : state = workflow[lookUp[c].of]
    OBVIOUS
  <2>2. state \in lookUp[c].seen /\ workflow' = workflow
    BY <1>8, <2>1 DEF Describe, TruthfulOf, deliveryVars
  <2>3. \/ Reply(c, Shown(state)) \/ Reply(c, "unavailable")
        \/ lookUp' = [lookUp EXCEPT ![c].phase = "fetching"]
    BY <1>8, <2>1 DEF Describe
  <2>4. CASE lookUp' = [lookUp EXCEPT ![c].phase = "fetching"]
    <3>1. /\ lookUp'[c].of = lookUp[c].of /\ lookUp'[c].seen = lookUp[c].seen
          /\ lookUp'[c].answer = lookUp[c].answer
          /\ \A d \in Clients \ {c} : lookUp'[d] = lookUp[d]
      BY <1>0, <2>4 DEF LookUpState
    <3>2. TruthfulOf(c)'
      BY <2>1, <2>2, <3>1 DEF TruthfulOf
    <3> QED BY <1>5, <2>2, <3>1, <3>2
  <2> QED BY <1>7, <2>2, <2>3, <2>4 DEF NoAnswer
<1>9. ASSUME NEW c \in Clients, FetchResult(c) PROVE TruthInv'
  <2>1. PICK state : state = workflow[lookUp[c].of]
    OBVIOUS
  <2>2. state \in lookUp[c].seen /\ workflow' = workflow
    BY <1>9, <2>1 DEF FetchResult, TruthfulOf, deliveryVars
  <2>3. \/ Reply(c, "error")
        \/ state \in Outcomes /\ Reply(c, state)
    BY <1>9, <2>1 DEF FetchResult
  <2>4. state \in Outcomes => Shown(state) = state
    BY ApiAssumption DEF Shown
  <2> QED BY <1>7, <2>2, <2>3, <2>4 DEF NoAnswer
<1>10. CASE WorkerStep(WorkerNext)
  <2>1. Watched
    BY <1>10 DEF WorkerStep
  <2>2. ASSUME NEW c \in Clients PROVE TruthfulOf(c)'
    <3>1. CASE lookUp[c].phase = "idle"
      BY <2>1, <3>1 DEF Watched, TruthfulOf
    <3>2. CASE lookUp[c].phase # "idle"
      <4>1. PICK state : state = workflow'[lookUp[c].of]
        OBVIOUS
      <4>2. /\ lookUp'[c].of = lookUp[c].of
            /\ lookUp'[c].seen = lookUp[c].seen \cup {state}
            /\ lookUp'[c].answer = lookUp[c].answer
        BY <1>0, <2>1, <3>2, <4>1 DEF Watched, LookUpState
      <4> QED BY <4>1, <4>2 DEF TruthfulOf
    <3> QED BY <3>1, <3>2
  <2> QED BY <1>0, <2>2
<1>11. CASE UNCHANGED apiVars
  BY <1>1, <1>11 DEF apiVars, deliveryVars
<1> QED
  BY <1>2, <1>3, <1>4, <1>6, <1>8, <1>9, <1>10, <1>11 DEF ApiNext

\* A status that a client is told was the workflow's at some time during its
\* look-up, whichever run the second call to Temporal reaches (api/main.py:292-335).
THEOREM ApiLookUpsTruthful == ApiSpec => []LookUpIsTruthful
<1>1. ApiInit => TruthInv
  BY ApiTypeInit DEF ApiInit, TruthInv, TruthfulOf, NoAnswer
<1>2. TruthInv => LookUpIsTruthful
  BY DEF TruthInv, TruthfulOf, LookUpIsTruthful
<1> QED BY <1>1, <1>2, TruthStep, PTL DEF ApiSpec

-----------------------------------------------------------------------------
(* The API and the workers together *)

\* A step of the API or of the workers is a step of EventDelivery or none.
LEMMA ApiDeliveryStep ==
    ASSUME [ApiNext]_apiVars
    PROVE  [DeliveryNext]_deliveryVars
<1>1. ASSUME NEW r \in Requests, Deliver(r) PROVE DeliveryNext
  <2>1. [kind |-> "valid", key |-> r] \in Event
    BY DEF Event, EventKinds, Requests
  <2> QED BY <1>1, <2>1 DEF Deliver, DeliveryNext
<1>2. ASSUME NEW r \in Requests, Receive(r) \/ RequestStep(r) \/ Refuse(r)
      PROVE  UNCHANGED deliveryVars
  BY <1>2 DEF Receive, RequestStep, CheckProducer, CreateProducer, Produce, ServeReport,
              FlushReturns, FlushTimesOut, Answer, Refuse
<1>3. ASSUME NEW c \in Clients,
             (\E k \in Keys : LookUp(c, k)) \/ Describe(c) \/ FetchResult(c)
      PROVE  UNCHANGED deliveryVars
  BY <1>3 DEF LookUp, Describe, FetchResult
<1>4. CASE Restart
  BY <1>4 DEF Restart
<1>5. CASE WorkerStep(WorkerNext)
  BY <1>5 DEF WorkerStep, DeliveryNext
<1>6. CASE UNCHANGED apiVars
  BY <1>6 DEF apiVars
<1> QED BY <1>1, <1>2, <1>3, <1>4, <1>5, <1>6 DEF ApiNext

\* Seen from the topic, the gateway is a publisher of valid events and nothing
\* else: with it the workers keep every promise of EventDelivery, whatever
\* requests, restarts and lost acknowledgements do (api/main.py:180-276).
THEOREM ApiImplementsDelivery == ApiSpec => DeliverySpec
<1>1. ApiInit => DeliveryInit
  BY DEF ApiInit
<1> QED BY <1>1, ApiDeliveryStep, PTL DEF ApiSpec, DeliverySpec

\* What was started stays started, and in the topic.
Started(k) == \E o \in started : topic[o].kind = "valid" /\ topic[o].key = k

LEMMA StartedStays ==
    ASSUME DeliveryTypeOK, [DeliveryNext]_deliveryVars, NEW k, Started(k)
    PROVE  Started(k)'
<1> USE DEF DeliveryTypeOK, Started
<1>1. ASSUME NEW event \in Event, Publish(event) PROVE Started(k)'
  BY <1>1, PublishAppends DEF Publish
<1>2. ASSUME topic' = topic, started \subseteq started' PROVE Started(k)'
  BY <1>2
<1>3. ASSUME WorkerNext PROVE topic' = topic /\ started \subseteq started'
  BY <1>3 DEF WorkerNext, StartWorkflow, DeadLetter, Commit, CloseWorkflow
<1> QED BY <1>1, <1>2, <1>3 DEF DeliveryNext, deliveryVars

\* Whatever a look-up may have seen but "absent" has its event.
SeenHasEvent(c) == lookUp[c].seen \subseteq {"absent"} \/ Started(lookUp[c].of)

StatusInv ==
    /\ TruthInv
    /\ DeliveryInv
    /\ \A c \in Clients : SeenHasEvent(c)

LEMMA StatusStep ==
    ASSUME StatusInv, [ApiNext]_apiVars
    PROVE  StatusInv'
<1> USE DEF StatusInv
<1>0. /\ TruthInv' /\ DeliveryInv' /\ [DeliveryNext]_deliveryVars
      /\ lookUp \in [Clients -> LookUpState]
      /\ DeliveryTypeOK
  BY TruthStep, ApiDeliveryStep, DeliveryStep DEF TruthInv, ApiTypeOK
<1> SUFFICES ASSUME NEW c \in Clients PROVE SeenHasEvent(c)'
  BY <1>0
<1>1. ASSUME NEW k, Started(k) PROVE Started(k)'
  BY <1>0, <1>1, StartedStays
<1>2. ASSUME lookUp'[c].seen = lookUp[c].seen, lookUp'[c].of = lookUp[c].of
      PROVE  SeenHasEvent(c)'
  BY <1>1, <1>2 DEF SeenHasEvent
<1>3. ASSUME NEW k \in Keys, workflow[k] # "absent" PROVE Started(k)
  BY <1>3 DEF DeliveryInv, WorkflowsHaveEvents, Started
<1>4. ASSUME NEW k \in Keys, workflow'[k] # "absent" PROVE Started(k)'
  BY <1>0, <1>4 DEF DeliveryInv, WorkflowsHaveEvents, Started
<1>5. ASSUME UNCHANGED lookUp PROVE SeenHasEvent(c)'
  BY <1>2, <1>5
<1>6. ASSUME NEW r \in Requests,
             Receive(r) \/ RequestStep(r) \/ Deliver(r) \/ Refuse(r) \/ Restart
      PROVE  UNCHANGED lookUp
  BY <1>6 DEF Receive, RequestStep, CheckProducer, CreateProducer, Produce, ServeReport,
              FlushReturns, FlushTimesOut, Answer, Deliver, Refuse, Restart
<1>7. ASSUME NEW d \in Clients, NEW k \in Keys, LookUp(d, k) PROVE SeenHasEvent(c)'
  <2>1. CASE d # c
    BY <1>2, <1>7, <2>1, <1>0 DEF LookUp
  <2>2. CASE d = c
    <3>1. lookUp'[c].of = k /\ lookUp'[c].seen = {workflow[k]}
      BY <1>0, <1>7, <2>2 DEF LookUp
    <3>2. workflow[k] # "absent" => Started(k)'
      BY <1>1, <1>3
    <3> QED BY <3>1, <3>2 DEF SeenHasEvent, Started
  <2> QED BY <2>1, <2>2
<1>8. ASSUME NEW d \in Clients, Describe(d) \/ FetchResult(d) PROVE SeenHasEvent(c)'
  <2>1. ASSUME NEW status, Reply(d, status) PROVE SeenHasEvent(c)'
    BY <1>0, <1>2, <2>1 DEF Reply, LookUpState
  <2>2. ASSUME lookUp' = [lookUp EXCEPT ![d].phase = "fetching"] PROVE SeenHasEvent(c)'
    BY <1>0, <1>2, <2>2 DEF LookUpState
  <2> QED BY <1>8, <2>1, <2>2 DEF Describe, FetchResult
<1>9. CASE WorkerStep(WorkerNext)
  <2>1. Watched
    BY <1>9 DEF WorkerStep
  <2>2. CASE lookUp[c].phase = "idle"
    BY <1>2, <2>1, <2>2 DEF Watched
  <2>3. CASE lookUp[c].phase # "idle"
    <3>1. PICK k \in Keys : k = lookUp[c].of
      BY <2>3 DEF TruthInv, ApiTypeOK
    <3>2. PICK state : state = workflow'[k]
      OBVIOUS
    <3>3. lookUp'[c].of = k /\ lookUp'[c].seen = lookUp[c].seen \cup {state}
      BY <1>0, <2>1, <2>3, <3>1, <3>2 DEF Watched, LookUpState
    <3>4. state # "absent" => Started(k)'
      BY <1>4, <3>2
    <3>5. lookUp[c].seen \subseteq {"absent"} \/ Started(k)'
      BY <1>1, <3>1 DEF SeenHasEvent
    <3>6. (lookUp[c].seen \cup {state}) \subseteq {"absent"} \/ Started(k)'
      BY <3>4, <3>5
    <3> QED BY <3>3, <3>6 DEF SeenHasEvent, Started
  <2> QED BY <2>2, <2>3
<1>10. CASE UNCHANGED apiVars
  BY <1>5, <1>10 DEF apiVars
<1>11. CASE Restart
  BY <1>5, <1>11 DEF Restart
<1> QED BY <1>5, <1>6, <1>7, <1>8, <1>9, <1>10, <1>11 DEF ApiNext

\* StatusHasEvent: whatever the gateway tells of an allocation but "queued" has
\* the allocation's own event behind it (api/main.py:320-343).
THEOREM ApiStatusHasEvent == ApiSpec => []StatusHasEvent
<1>1. ApiInit => StatusInv
  <2> SUFFICES ASSUME ApiInit PROVE StatusInv
    OBVIOUS
  <2>1. TruthInv
    BY ApiTypeInit DEF ApiInit, TruthInv, TruthfulOf, NoAnswer
  <2>2. DeliveryInv
    BY DEF ApiInit, DeliveryInit, DeliveryInv, DeliveryTypeOK, WorkflowsHaveEvents,
           CommittedIsHandled
  <2>3. \A c \in Clients : SeenHasEvent(c)
    BY DEF ApiInit, SeenHasEvent
  <2> QED BY <2>1, <2>2, <2>3 DEF StatusInv
<1>2. StatusInv => StatusHasEvent
  <2> SUFFICES ASSUME StatusInv, NEW c \in Clients,
                      lookUp[c].answer \in Statuses \ {"absent"}
               PROVE  Started(lookUp[c].of)
    BY DEF StatusHasEvent, Started
  <2>1. lookUp[c].answer \in NoAnswer \cup {Shown(state) : state \in lookUp[c].seen}
    BY DEF StatusInv, TruthInv, TruthfulOf
  <2>2. lookUp[c].answer \notin NoAnswer \cup {"queued"}
    BY ApiAssumption DEF Statuses, NoAnswer
  <2>3. PICK state \in lookUp[c].seen : state # "absent"
    BY <2>1, <2>2 DEF Shown
  <2> QED BY <2>3 DEF StatusInv, SeenHasEvent
<1> QED BY <1>1, <1>2, StatusStep, PTL DEF ApiSpec
=============================================================================
