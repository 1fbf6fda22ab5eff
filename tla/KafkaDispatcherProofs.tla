------------------------- MODULE KafkaDispatcherProofs -------------------------
(***************************************************************************)
(* The dispatcher never commits past an event it has not handled, for any  *)
(* number of workers, any topic and any number of failures.  What commits  *)
(* rest on is what the owner of the partition has read: everything up to   *)
(* its position is handled, but for the event it is working on.  The same  *)
(* fact makes the dispatchers an implementation of EventDelivery.          *)
(***************************************************************************)
EXTENDS KafkaDispatcher, TLAPS

-----------------------------------------------------------------------------
(* Type correctness *)

\* The topic only grows.
LEMMA TopicGrows ==
    ASSUME DispatcherTypeOK, [DispatcherNext]_dispatcherVars
    PROVE  /\ topic' \in Seq(Events)
           /\ Len(topic') \in Nat /\ Len(topic) <= Len(topic') /\ Len(topic') <= MaxEvents
           /\ \A o \in DOMAIN topic : o \in DOMAIN topic' /\ topic'[o] = topic[o]
<1>1. topic \in Seq(Events) /\ Len(topic) <= MaxEvents /\ MaxEvents \in Nat
  BY DispatcherAssumption DEF DispatcherTypeOK
<1>2. ASSUME NEW event \in Events, Publish(event)
      PROVE  /\ topic' \in Seq(Events)
             /\ Len(topic') \in Nat /\ Len(topic) <= Len(topic') /\ Len(topic') <= MaxEvents
             /\ \A o \in DOMAIN topic : o \in DOMAIN topic' /\ topic'[o] = topic[o]
  BY <1>1, <1>2 DEF Publish
<1>3. ASSUME topic' = topic
      PROVE  /\ topic' \in Seq(Events)
             /\ Len(topic') \in Nat /\ Len(topic) <= Len(topic') /\ Len(topic') <= MaxEvents
             /\ \A o \in DOMAIN topic : o \in DOMAIN topic' /\ topic'[o] = topic[o]
  BY <1>1, <1>3
<1>4. ASSUME NEW d \in Workers,
             \/ Connect(d) \/ Assign(d) \/ Evict(d) \/ FatalKafkaError(d) \/ Crash(d)
             \/ PollValid(d) \/ PollMalformed(d) \/ PollUndecodable(d)
             \/ RouteToDlq(d) \/ DlqDelivers(d)
             \/ CommitAccepted(d) \/ CommitFails(d) \/ Timeout(d)
      PROVE  topic' = topic
  BY <1>4 DEF Connect, Assign, Evict, FatalKafkaError, Crash, PollValid, PollMalformed,
              PollUndecodable, RouteToDlq, DlqDelivers, CommitAccepted, CommitFails, Timeout
<1>5. ASSUME NEW c \in coroutines, ReachTemporal(c) PROVE topic' = topic
  BY <1>5 DEF ReachTemporal
<1>6. ASSUME NEW k \in Keys, WorkflowCloses(k) PROVE topic' = topic
  BY <1>6 DEF WorkflowCloses
<1>7. CASE UNCHANGED dispatcherVars
  BY <1>3, <1>7 DEF dispatcherVars
<1> QED BY <1>2, <1>3, <1>4, <1>5, <1>6, <1>7 DEF DispatcherNext

HasEvent(d) ==
    position[d] \in DOMAIN topic /\ topic[position[d]].kind # "undecodable"

AtWork(d) == pc[d] \in {"waiting", "invalid", "failed"}

\* A dispatcher that works on an event was given one it could decode.
WorkHasEvent == \A d \in Workers : AtWork(d) \/ pc[d] = "commit" => HasEvent(d)

InTopic == committed <= Len(topic) /\ \A d \in Workers : position[d] <= Len(topic)

\* Coroutines carry valid events; one that its dispatcher waits for, the event
\* that the dispatcher has.
CoroutinesHaveEvent ==
    \A c \in coroutines :
        /\ c.event \in DOMAIN topic /\ topic[c.event].kind = "valid"
        /\ c.current => /\ pc[c.worker] = "waiting" /\ c.worker \notin awaiting
                        /\ c.event = position[c.worker]

\* A dispatcher whose result is awaited still waits, and its event was started.
AwaitingStarted ==
    \A d \in awaiting : pc[d] = "waiting" /\ position[d] \in started

DispatcherTypeInv ==
    DispatcherTypeOK /\ WorkHasEvent /\ InTopic /\ CoroutinesHaveEvent /\ AwaitingStarted

\* Every step keeps the state well typed.
LEMMA DispatcherTypeStep ==
    ASSUME DispatcherTypeInv, [DispatcherNext]_dispatcherVars
    PROVE  DispatcherTypeOK'
<1> USE DispatcherAssumption
    DEF DispatcherTypeInv, WorkHasEvent, HasEvent, AtWork, DispatcherTypeOK, DispatcherStates, WorkflowStates,
        Coroutines, Offsets, dlqVars, temporalVars
<1>1. ASSUME NEW d \in Workers, Connect(d) \/ Assign(d) \/ Evict(d)
      PROVE  DispatcherTypeOK'
  <2>1. CASE Connect(d)
    BY <2>1 DEF Connect, Go
  <2>2. CASE Assign(d)
    BY <2>2 DEF Assign
  <2>3. CASE Evict(d)
    BY <2>3 DEF Evict, Fails
  <2> QED BY <1>1, <2>1, <2>2, <2>3
<1>2. ASSUME NEW d \in Workers, CloseClients(d)
      PROVE  /\ pc' = [pc EXCEPT ![d] = "down"]
             /\ pc' \in [Workers -> DispatcherStates]
             /\ owner' \in Workers \cup {NoWorker}
             /\ queued' \in [Workers -> SUBSET Offsets]
             /\ dlq' \in SUBSET Offsets
  BY <1>2 DEF CloseClients, Go, Leave
<1>3. ASSUME NEW d \in Workers, FatalKafkaError(d) \/ Crash(d)
      PROVE  DispatcherTypeOK'
  <2>1. CASE FatalKafkaError(d)
    <3>1. CloseClients(d)
      BY <2>1 DEF FatalKafkaError
    <3> QED BY <1>2, <2>1, <3>1 DEF FatalKafkaError, Fails
  <2>2. CASE Crash(d)
    BY <2>2 DEF Crash, Fails, Go, Leave
  <2> QED BY <1>3, <2>1, <2>2
<1>4. ASSUME NEW d \in Workers, Given(d)
      PROVE  /\ position' \in [Workers -> 0..MaxEvents]
             /\ position[d] + 1 \in Offsets
  BY <1>4 DEF Given
<1>5. ASSUME NEW d \in Workers, PollValid(d) \/ PollMalformed(d) \/ PollUndecodable(d)
      PROVE  DispatcherTypeOK'
  <2>1. CASE PollValid(d)
    <3>1. Given(d)
      BY <2>1 DEF PollValid
    <3>2. [worker |-> d, event |-> position[d] + 1, current |-> TRUE] \in Coroutines
      BY <1>4, <3>1
    <3>3. coroutines' \in SUBSET Coroutines
      BY <2>1, <3>2 DEF PollValid
    <3> QED BY <1>4, <2>1, <3>1, <3>3 DEF PollValid, Go
  <2>2. CASE PollMalformed(d)
    BY <1>4, <2>2 DEF PollMalformed, Go
  <2>3. CASE PollUndecodable(d)
    <3>1. Given(d) /\ CloseClients(d)
      BY <2>3 DEF PollUndecodable
    <3> QED BY <1>2, <1>4, <2>3, <3>1 DEF PollUndecodable
  <2> QED BY <1>5, <2>1, <2>2, <2>3
<1>6. ASSUME NEW d \in Workers, RouteToDlq(d)
      PROVE  DispatcherTypeOK'
  <2>1. position[d] \in Offsets
    BY <1>6 DEF RouteToDlq
  <2>2. /\ dlq' \in SUBSET Offsets
        /\ queued' \in [Workers -> SUBSET Offsets]
        /\ counted' \in SUBSET Offsets
        /\ dlqErrors' \in SUBSET Offsets
    <3>1. queued' = queued \/ queued' = [queued EXCEPT ![d] = queued[d] \cup {position[d]}]
      BY <1>6 DEF RouteToDlq
    <3>2. queued' \in [Workers -> SUBSET Offsets]
      BY <2>1, <3>1
    <3> QED BY <1>6, <2>1, <3>2 DEF RouteToDlq
  <2>3. /\ pc' = [pc EXCEPT ![d] = "commit"]
        /\ UNCHANGED <<position, owner, committed, temporalVars, failures>>
    BY <1>6 DEF RouteToDlq, Go
  <2> QED BY <1>6, <2>2, <2>3 DEF RouteToDlq
<1>7. ASSUME NEW d \in Workers, DlqDelivers(d)
      PROVE  DispatcherTypeOK'
  BY <1>7 DEF DlqDelivers
<1>8. ASSUME NEW d \in Workers, CommitAccepted(d) \/ CommitFails(d) \/ Timeout(d)
      PROVE  DispatcherTypeOK'
  <2>1. CASE CommitAccepted(d) \/ CommitFails(d)
    <3>1. position[d] \in 0..MaxEvents
      OBVIOUS
    <3>2. committed' \in 0..MaxEvents
      BY <2>1, <3>1 DEF CommitAccepted, CommitFails
    <3>3. /\ pc' = [pc EXCEPT ![d] = "polling"]
          /\ UNCHANGED <<topic, position, owner, temporalVars, dlqVars, failures>>
      BY <2>1 DEF CommitAccepted, CommitFails, Go
    <3> QED BY <3>2, <3>3
  <2>2. CASE Timeout(d)
    <3>1. ASSUME NEW c \in coroutines
          PROVE  /\ c \in Coroutines
                 /\ [c EXCEPT !.current = FALSE] \in Coroutines
      OBVIOUS
    <3>2. ASSUME NEW b \in coroutines'
          PROVE  b \in Coroutines
      <4>1. PICK c \in coroutines :
                b = IF c.worker = d THEN [c EXCEPT !.current = FALSE] ELSE c
        BY <2>2, <3>2 DEF Timeout
      <4> QED BY <3>1, <4>1
    <3> QED BY <2>2, <3>2 DEF Timeout, Go
  <2> QED BY <1>8, <2>1, <2>2
<1>9. ASSUME NEW c \in coroutines, ReachTemporal(c)
      PROVE  DispatcherTypeOK'
  <2>1. c \in Coroutines /\ coroutines' \subseteq coroutines
    BY <1>9 DEF ReachTemporal
  <2>2. workflow' \in [Keys -> WorkflowStates]
    BY <1>9, <2>1 DEF ReachTemporal
  <2>3. awaiting' \subseteq Workers /\ started' \subseteq Offsets
    BY <1>9, <2>1 DEF ReachTemporal
  <2>4. pc' = pc \/ pc' = [pc EXCEPT ![c.worker] = "failed"]
    BY <1>9 DEF ReachTemporal
  <2>5. pc' \in [Workers -> DispatcherStates]
    BY <2>1, <2>4
  <2> QED BY <1>9, <2>1, <2>2, <2>3, <2>5 DEF ReachTemporal
<1>10. ASSUME NEW k \in Keys, WorkflowCloses(k)
       PROVE  DispatcherTypeOK'
  BY <1>10 DEF WorkflowCloses
<1>11. ASSUME NEW event \in Events, Publish(event)
       PROVE  DispatcherTypeOK'
  BY <1>11, TopicGrows DEF Publish
<1>12. CASE UNCHANGED dispatcherVars
  BY <1>12 DEF dispatcherVars
<1> QED
  BY <1>1, <1>3, <1>5, <1>6, <1>7, <1>8, <1>9, <1>10, <1>11, <1>12 DEF DispatcherNext

\* An event stays what it is, and a dispatcher keeps it until it commits.
LEMMA WorkStep ==
    ASSUME DispatcherTypeInv, DispatcherTypeOK', [DispatcherNext]_dispatcherVars
    PROVE  WorkHasEvent' /\ InTopic'
<1> USE DEF DispatcherTypeInv, DispatcherTypeOK
<1>1. /\ Len(topic) \in Nat /\ Len(topic') \in Nat /\ Len(topic) <= Len(topic')
      /\ DOMAIN topic = 1..Len(topic)
      /\ \A o \in DOMAIN topic : o \in DOMAIN topic' /\ topic'[o] = topic[o]
  BY TopicGrows
<1>2. ASSUME NEW d \in Workers, HasEvent(d), position'[d] = position[d]
      PROVE  HasEvent(d)'
  BY <1>1, <1>2 DEF HasEvent
\* A step that makes nobody busy with another event.
<1>3. ASSUME committed' = committed,
             \A d \in Workers : position'[d] \in {position[d], 0, committed},
             \A d \in Workers : AtWork(d)' \/ pc'[d] = "commit" =>
                /\ position'[d] = position[d]
                /\ AtWork(d) \/ pc[d] = "commit"
      PROVE  WorkHasEvent' /\ InTopic'
  <2>1. WorkHasEvent'
    BY <1>2, <1>3 DEF WorkHasEvent
  <2>2. ASSUME NEW d \in Workers PROVE position'[d] <= Len(topic')
    <3>1. /\ position[d] \in Nat /\ committed \in Nat
          /\ position[d] <= Len(topic) /\ committed <= Len(topic)
      BY DispatcherAssumption DEF InTopic
    <3>2. position'[d] = position[d] \/ position'[d] = 0 \/ position'[d] = committed
      BY <1>3
    <3>3. Len(topic) \in Nat /\ Len(topic') \in Nat /\ Len(topic) <= Len(topic')
      BY <1>1
    <3> QED BY ONLY <3>1, <3>2, <3>3
  <2>3. committed' <= Len(topic')
    <3>1. committed \in Nat /\ committed <= Len(topic)
      BY DispatcherAssumption DEF InTopic
    <3> QED BY <1>1, <1>3, <3>1
  <2> QED BY <2>1, <2>2, <2>3 DEF InTopic
<1>4. ASSUME NEW d \in Workers,
             \/ Connect(d) \/ Assign(d) \/ Evict(d) \/ FatalKafkaError(d) \/ Crash(d)
             \/ RouteToDlq(d) \/ DlqDelivers(d) \/ CommitFails(d) \/ Timeout(d)
      PROVE  WorkHasEvent' /\ InTopic'
  <2>1. CASE Assign(d)
    BY <1>3, <2>1 DEF Assign, AtWork
  <2>2. CASE ~Assign(d)
    <3>1. committed' = committed /\ position' = position
      BY <1>4, <2>2 DEF Connect, Evict, FatalKafkaError, Crash, RouteToDlq, DlqDelivers,
                        CommitFails, Timeout
    <3>2. \/ pc' = pc
          \/ \E next \in {"down", "polling"} : pc' = [pc EXCEPT ![d] = next]
          \/ /\ AtWork(d)
             /\ \E next \in {"failed", "commit"} : pc' = [pc EXCEPT ![d] = next]
      BY <1>4, <2>2 DEF Connect, Evict, FatalKafkaError, Crash, RouteToDlq, DlqDelivers,
                        CommitFails, Timeout, CloseClients, Go, AtWork
    <3>3. \A w \in Workers : AtWork(w)' \/ pc'[w] = "commit" => AtWork(w) \/ pc[w] = "commit"
      BY <3>2 DEF AtWork
    <3> QED BY <1>3, <3>1, <3>3
  <2> QED BY <2>1, <2>2
<1>5. ASSUME NEW d \in Workers, PollValid(d) \/ PollMalformed(d) \/ PollUndecodable(d)
      PROVE  WorkHasEvent' /\ InTopic'
  <2>1. /\ committed' = committed
        /\ position' = [position EXCEPT ![d] = position[d] + 1]
        /\ topic' = topic /\ position[d] + 1 \in DOMAIN topic
    BY <1>1, <1>5 DEF PollValid, PollMalformed, PollUndecodable, Given
  <2>2. InTopic'
    BY <1>1, <2>1 DEF InTopic
  <2>3. ASSUME NEW w \in Workers \ {d}, AtWork(w)' \/ pc'[w] = "commit" PROVE HasEvent(w)'
    <3>1. pc'[w] = pc[w] /\ position'[w] = position[w]
      BY <1>5, <2>1 DEF PollValid, PollMalformed, PollUndecodable, CloseClients, Go
    <3> QED BY <1>2, <2>3, <3>1 DEF WorkHasEvent, AtWork
  <2>4. ASSUME AtWork(d)' \/ pc'[d] = "commit" PROVE HasEvent(d)'
    <3>1. ~PollUndecodable(d)
      BY <2>4 DEF PollUndecodable, CloseClients, Go, AtWork
    <3>2. topic[position[d] + 1].kind # "undecodable"
      BY <1>5, <3>1 DEF PollValid, PollMalformed
    <3> QED BY <2>1, <3>2 DEF HasEvent
  <2> QED BY <2>2, <2>3, <2>4 DEF WorkHasEvent
<1>6. ASSUME NEW d \in Workers, CommitAccepted(d)
      PROVE  WorkHasEvent' /\ InTopic'
  <2>1. /\ topic' = topic /\ position' = position /\ committed' = position[d]
        /\ pc' = [pc EXCEPT ![d] = "polling"]
    BY <1>6 DEF CommitAccepted, Go
  <2> QED BY <1>2, <2>1 DEF WorkHasEvent, AtWork, InTopic
<1>7. ASSUME NEW c \in coroutines, ReachTemporal(c)
      PROVE  WorkHasEvent' /\ InTopic'
  <2>1. /\ committed' = committed /\ position' = position
        /\ \/ pc' = pc
           \/ pc[c.worker] = "waiting" /\ pc' = [pc EXCEPT ![c.worker] = "failed"]
    BY <1>7 DEF ReachTemporal, Waits
  <2> QED BY <1>3, <2>1 DEF AtWork
<1>8. ASSUME NEW k \in Keys, WorkflowCloses(k)
      PROVE  WorkHasEvent' /\ InTopic'
  <2>1. /\ committed' = committed /\ position' = position
        /\ \A w \in Workers : pc'[w] = pc[w] \/ w \in awaiting
    BY <1>8 DEF WorkflowCloses
  <2> QED BY <1>3, <2>1 DEF AtWork, AwaitingStarted
<1>9. ASSUME NEW event \in Events, Publish(event)
      PROVE  WorkHasEvent' /\ InTopic'
  BY <1>3, <1>9 DEF Publish, AtWork
<1>10. CASE UNCHANGED dispatcherVars
  BY <1>3, <1>10 DEF dispatcherVars, AtWork
<1> QED BY <1>4, <1>5, <1>6, <1>7, <1>8, <1>9, <1>10 DEF DispatcherNext

\* Only PollValid makes coroutines; nobody else answers for a dispatcher that waits.
LEMMA CoroutineStep ==
    ASSUME DispatcherTypeInv, DispatcherTypeOK', [DispatcherNext]_dispatcherVars
    PROVE  CoroutinesHaveEvent'
<1> USE DEF DispatcherTypeInv, DispatcherTypeOK, Coroutines
<1>1. ASSUME NEW o \in DOMAIN topic, topic[o].kind = "valid"
      PROVE  o \in DOMAIN topic' /\ topic'[o].kind = "valid"
  BY <1>1, TopicGrows
\* A step that makes no coroutine and leaves the waiting dispatchers alone.
<1>2. ASSUME coroutines' \subseteq coroutines, awaiting' \subseteq awaiting,
             \A w \in Workers :
                 pc[w] = "waiting" /\ w \notin awaiting =>
                     pc'[w] = "waiting" /\ position'[w] = position[w]
      PROVE  CoroutinesHaveEvent'
  BY <1>1, <1>2 DEF CoroutinesHaveEvent
<1>3. ASSUME NEW d \in Workers,
             \/ Connect(d) \/ Assign(d) \/ Evict(d) \/ FatalKafkaError(d)
             \/ PollMalformed(d) \/ PollUndecodable(d)
             \/ RouteToDlq(d) \/ DlqDelivers(d) \/ CommitAccepted(d) \/ CommitFails(d)
      PROVE  CoroutinesHaveEvent'
  <2>1. coroutines' = coroutines /\ awaiting' = awaiting
    BY <1>3 DEF Connect, Assign, Evict, FatalKafkaError, PollMalformed, PollUndecodable,
                RouteToDlq, DlqDelivers, CommitAccepted, CommitFails, temporalVars
  <2>2. (pc' = pc /\ position' = position) \/ pc[d] # "waiting"
    BY <1>3 DEF Connect, Assign, Evict, FatalKafkaError, PollMalformed, PollUndecodable,
                RouteToDlq, DlqDelivers, CommitAccepted, CommitFails, Given
  <2>3. \A w \in Workers \ {d} : pc'[w] = pc[w] /\ position'[w] = position[w]
    BY <1>3 DEF Connect, Assign, Evict, FatalKafkaError, PollMalformed, PollUndecodable,
                RouteToDlq, DlqDelivers, CommitAccepted, CommitFails, Given, CloseClients, Go
  <2> QED BY <1>2, <2>1, <2>2, <2>3
<1>4. ASSUME NEW d \in Workers, Crash(d) PROVE CoroutinesHaveEvent'
  <2>1. /\ topic' = topic /\ position' = position /\ pc' = [pc EXCEPT ![d] = "down"]
        /\ \A c \in coroutines' : c \in coroutines /\ c.worker # d
        /\ awaiting' \subseteq awaiting
    BY <1>4 DEF Crash, Go
  <2> QED BY <2>1 DEF CoroutinesHaveEvent
<1>5. ASSUME NEW d \in Workers, PollValid(d) PROVE CoroutinesHaveEvent'
  <2>1. /\ topic' = topic /\ awaiting' = awaiting /\ pc[d] = "polling"
        /\ pc' = [pc EXCEPT ![d] = "waiting"]
        /\ position' = [position EXCEPT ![d] = position[d] + 1]
        /\ topic[position[d] + 1].kind = "valid"
    BY <1>5 DEF PollValid, Given, Go
  <2>2. d \notin awaiting /\ position[d] + 1 \in DOMAIN topic
    BY <1>5, <2>1, DispatcherAssumption DEF AwaitingStarted, PollValid, Given
  <2>3. ASSUME NEW c \in coroutines'
        PROVE  /\ c.event \in DOMAIN topic' /\ topic'[c.event].kind = "valid"
               /\ c.current => /\ pc'[c.worker] = "waiting" /\ c.worker \notin awaiting'
                               /\ c.event = position'[c.worker]
    <3>1. CASE c \in coroutines
      <4>1. c.worker \in Workers /\ (c.current => c.worker # d)
        BY <2>1, <3>1 DEF CoroutinesHaveEvent
      <4> QED BY <2>1, <3>1, <4>1 DEF CoroutinesHaveEvent
    <3>2. CASE c = [worker |-> d, event |-> position[d] + 1, current |-> TRUE]
      BY <2>1, <2>2, <3>2
    <3> QED BY <1>5, <3>1, <3>2 DEF PollValid
  <2> QED BY <2>3 DEF CoroutinesHaveEvent
<1>6. ASSUME NEW d \in Workers, Timeout(d) PROVE CoroutinesHaveEvent'
  <2>1. /\ topic' = topic /\ position' = position /\ pc' = [pc EXCEPT ![d] = "failed"]
        /\ awaiting' \subseteq awaiting
    BY <1>6 DEF Timeout, Go
  <2>2. ASSUME NEW b \in coroutines'
        PROVE  /\ b.event \in DOMAIN topic' /\ topic'[b.event].kind = "valid"
               /\ b.current => /\ pc'[b.worker] = "waiting" /\ b.worker \notin awaiting'
                               /\ b.event = position'[b.worker]
    <3>1. PICK c \in coroutines :
              b = IF c.worker = d THEN [c EXCEPT !.current = FALSE] ELSE c
      BY <1>6 DEF Timeout
    <3>2. c \in Coroutines
      OBVIOUS
    <3>3. CASE c.worker = d
      <4>1. b.event = c.event /\ b.current = FALSE
        BY <3>1, <3>2, <3>3
      <4> QED BY <2>1, <4>1 DEF CoroutinesHaveEvent
    <3>4. CASE c.worker # d
      <4>1. b = c
        BY <3>1, <3>4
      <4> QED BY <2>1, <3>2, <3>4, <4>1 DEF CoroutinesHaveEvent
    <3> QED BY <3>3, <3>4
  <2> QED BY <2>2 DEF CoroutinesHaveEvent
\* A dispatcher has one current coroutine at most: the one that is answered.
<1>7. ASSUME NEW c \in coroutines, ReachTemporal(c) PROVE CoroutinesHaveEvent'
  <2>1. /\ topic' = topic /\ position' = position /\ coroutines' = coroutines \ {c}
        /\ pc' = pc \/ (c.current /\ pc' = [pc EXCEPT ![c.worker] = "failed"])
        /\ awaiting' \subseteq IF c.current THEN awaiting \cup {c.worker} ELSE awaiting
    BY <1>7 DEF ReachTemporal, Waits
  <2>2. ASSUME NEW b \in coroutines', b.current, c.current PROVE b.worker # c.worker
    <3> SUFFICES ASSUME b.worker = c.worker PROVE FALSE
      OBVIOUS
    <3>1. b \in coroutines /\ b \in Coroutines /\ c \in Coroutines
      BY <2>1
    <3>2. b.event = c.event
      BY <2>2, <3>1 DEF CoroutinesHaveEvent
    <3>3. b.current = TRUE /\ c.current = TRUE
      BY <2>2, <3>1
    <3>4. /\ b = [worker |-> b.worker, event |-> b.event, current |-> TRUE]
          /\ c = [worker |-> c.worker, event |-> c.event, current |-> TRUE]
      BY <3>1, <3>3
    <3>5. b = c
      BY <3>2, <3>4
    <3> QED BY <2>1, <3>5
  <2> QED BY <2>1, <2>2 DEF CoroutinesHaveEvent
<1>8. ASSUME NEW k \in Keys, WorkflowCloses(k) PROVE CoroutinesHaveEvent'
  <2>1. /\ coroutines' = coroutines /\ awaiting' \subseteq awaiting /\ position' = position
        /\ \A w \in Workers \ awaiting : pc'[w] = pc[w]
    BY <1>8 DEF WorkflowCloses
  <2> QED BY <1>2, <2>1
<1>9. ASSUME NEW event \in Events, Publish(event) PROVE CoroutinesHaveEvent'
  BY <1>2, <1>9 DEF Publish, temporalVars
<1>10. CASE UNCHANGED dispatcherVars
  BY <1>2, <1>10 DEF dispatcherVars, temporalVars
<1> QED
  BY <1>3, <1>4, <1>5, <1>6, <1>7, <1>8, <1>9, <1>10 DEF DispatcherNext

\* A dispatcher is awaited from the start of its event until it is told.
LEMMA AwaitingStep ==
    ASSUME DispatcherTypeInv, DispatcherTypeOK', [DispatcherNext]_dispatcherVars
    PROVE  AwaitingStarted'
<1> USE DEF DispatcherTypeInv, DispatcherTypeOK, Coroutines
<1>1. ASSUME awaiting' \subseteq awaiting, started' = started,
             \A w \in awaiting' : pc'[w] = pc[w] /\ position'[w] = position[w]
      PROVE  AwaitingStarted'
  BY <1>1 DEF AwaitingStarted
<1>2. ASSUME NEW d \in Workers,
             \/ Connect(d) \/ Assign(d) \/ Evict(d) \/ FatalKafkaError(d) \/ Crash(d)
             \/ PollValid(d) \/ PollMalformed(d) \/ PollUndecodable(d)
             \/ RouteToDlq(d) \/ DlqDelivers(d)
             \/ CommitAccepted(d) \/ CommitFails(d) \/ Timeout(d)
      PROVE  AwaitingStarted'
  <2>1. awaiting' \in {awaiting, awaiting \ {d}} /\ started' = started
    BY <1>2 DEF Connect, Assign, Evict, FatalKafkaError, Crash, PollValid, PollMalformed,
                PollUndecodable, RouteToDlq, DlqDelivers, CommitAccepted, CommitFails,
                Timeout, temporalVars
  <2>2. \/ pc' = pc /\ position' = position
        \/ pc[d] # "waiting"
        \/ awaiting' = awaiting \ {d}
    BY <1>2 DEF Connect, Assign, Evict, FatalKafkaError, Crash, PollValid, PollMalformed,
                PollUndecodable, RouteToDlq, DlqDelivers, CommitAccepted, CommitFails,
                Timeout, Given
  <2>3. \A w \in Workers \ {d} : pc'[w] = pc[w] /\ position'[w] = position[w]
    BY <1>2 DEF Connect, Assign, Evict, FatalKafkaError, Crash, PollValid, PollMalformed,
                PollUndecodable, RouteToDlq, DlqDelivers, CommitAccepted, CommitFails,
                Timeout, Given, CloseClients, Go
  <2> QED BY <1>1, <2>1, <2>2, <2>3 DEF AwaitingStarted
<1>3. ASSUME NEW c \in coroutines, ReachTemporal(c) PROVE AwaitingStarted'
  <2>1. position' = position /\ started \subseteq started'
    BY <1>3 DEF ReachTemporal
  <2>2. ASSUME NEW d \in awaiting' PROVE pc'[d] = "waiting" /\ position[d] \in started'
    <3>1. CASE d \in awaiting
      <4>1. ~(c.current /\ c.worker = d)
        BY <3>1 DEF CoroutinesHaveEvent
      <4>2. pc'[d] = pc[d]
        BY <1>3, <4>1 DEF ReachTemporal, Waits
      <4> QED BY <2>1, <3>1, <4>2 DEF AwaitingStarted
    <3>2. CASE d \notin awaiting
      <4>1. /\ d = c.worker /\ c.current /\ pc' = pc /\ started' = started \cup {c.event}
        BY <1>3, <3>2 DEF ReachTemporal, Waits
      <4> QED BY <4>1 DEF CoroutinesHaveEvent
    <3> QED BY <3>1, <3>2
  <2> QED BY <2>1, <2>2 DEF AwaitingStarted
<1>4. ASSUME NEW k \in Keys, WorkflowCloses(k) PROVE AwaitingStarted'
  <2>1. /\ awaiting' \subseteq awaiting /\ position' = position /\ started' = started
        /\ \A w \in awaiting' : pc'[w] = pc[w]
    BY <1>4 DEF WorkflowCloses
  <2> QED BY <1>1, <2>1
<1>5. ASSUME NEW event \in Events, Publish(event) PROVE AwaitingStarted'
  BY <1>1, <1>5 DEF Publish, temporalVars
<1>6. CASE UNCHANGED dispatcherVars
  BY <1>1, <1>6 DEF dispatcherVars, temporalVars
<1> QED BY <1>2, <1>3, <1>4, <1>5, <1>6 DEF DispatcherNext

\* The dispatchers stay well typed whatever fails (worker.py:343-568).
THEOREM DispatcherTypeCorrect == DispatcherSpec => []DispatcherTypeOK
<1>1. DispatcherInit => DispatcherTypeInv
  BY DispatcherAssumption
  DEF DispatcherInit, DispatcherTypeInv, DispatcherTypeOK, DispatcherStates, WorkflowStates,
      Offsets, WorkHasEvent, AtWork, InTopic, CoroutinesHaveEvent, AwaitingStarted
<1>2. DispatcherTypeInv /\ [DispatcherNext]_dispatcherVars => DispatcherTypeInv'
  BY DispatcherTypeStep, WorkStep, CoroutineStep, AwaitingStep DEF DispatcherTypeInv
<1>3. DispatcherTypeInv => DispatcherTypeOK
  BY DEF DispatcherTypeInv
<1> QED BY <1>1, <1>2, <1>3, PTL DEF DispatcherSpec

-----------------------------------------------------------------------------
(* Nothing is skipped *)

\* A dispatcher has handled what it has read, but for the event it works on.
Done(d) ==
    /\ pc[d] # "down"
    /\ \A e \in 1..position[d] : Handled(e) \/ (e = position[d] /\ AtWork(d))

OwnerIsDone == \A d \in Workers : owner = d => Done(d)

\* A new owner starts at the committed offset, and only the owner moves that.
OwnerIsAhead == \A d \in Workers : owner = d => committed <= position[d]

SkipInv == DispatcherTypeInv /\ OwnerIsDone /\ OwnerIsAhead /\ NothingSkipped

\* A handled event stays handled: nothing is uncounted, and no start forgotten.
LEMMA HandledStays ==
    ASSUME [DispatcherNext]_dispatcherVars, NEW o, Handled(o)
    PROVE  Handled(o)'
<1> USE DEF Handled, Delivery!Handled
<1>1. CASE UNCHANGED <<started, counted, dlqErrors>>
  BY <1>1
<1>2. ASSUME NEW d \in Workers, RouteToDlq(d) PROVE Handled(o)'
  <2>1. started' = started /\ counted \subseteq counted' /\ dlqErrors \subseteq dlqErrors'
    BY <1>2 DEF RouteToDlq, temporalVars
  <2> QED BY <2>1
<1>3. ASSUME NEW c \in coroutines, ReachTemporal(c) PROVE Handled(o)'
  BY <1>3 DEF ReachTemporal, dlqVars
<1>4. ASSUME NEW k \in Keys, WorkflowCloses(k) PROVE Handled(o)'
  BY <1>4 DEF WorkflowCloses, dlqVars
<1>5. ASSUME NEW d \in Workers,
             \/ Connect(d) \/ Assign(d) \/ Evict(d) \/ FatalKafkaError(d) \/ Crash(d)
             \/ PollValid(d) \/ PollMalformed(d) \/ PollUndecodable(d)
             \/ DlqDelivers(d) \/ CommitAccepted(d) \/ CommitFails(d) \/ Timeout(d)
      PROVE  UNCHANGED <<started, counted, dlqErrors>>
  BY <1>5 DEF Connect, Assign, Evict, FatalKafkaError, Crash, PollValid, PollMalformed,
              PollUndecodable, DlqDelivers, CommitAccepted, CommitFails, Timeout,
              temporalVars, dlqVars
<1>6. ASSUME NEW event \in Events, Publish(event) PROVE Handled(o)'
  BY <1>6 DEF Publish, temporalVars, dlqVars
<1>7. CASE UNCHANGED dispatcherVars
  BY <1>7 DEF dispatcherVars, temporalVars, dlqVars
<1> QED BY <1>1, <1>2, <1>3, <1>4, <1>5, <1>6, <1>7 DEF DispatcherNext

\* What the owner has handled grows with what it reads, and a commit reaches no
\* further.
LEMMA SkipStep ==
    ASSUME SkipInv, DispatcherTypeInv', [DispatcherNext]_dispatcherVars
    PROVE  OwnerIsDone' /\ NothingSkipped'
<1> USE DEF SkipInv, DispatcherTypeInv, DispatcherTypeOK
<1>1. ASSUME NEW e, Handled(e) PROVE Handled(e)'
  BY <1>1, HandledStays
<1>3. ASSUME NEW e \in 1..committed PROVE Handled(e) /\ Handled(e)'
  BY <1>1 DEF NothingSkipped
<1>4. ASSUME committed' = committed PROVE NothingSkipped'
  BY <1>3, <1>4 DEF NothingSkipped
\* A step that gives no event and finishes none leaves the owner done.
<1>5. ASSUME NEW d \in Workers, Done(d), position'[d] = position[d], pc'[d] # "down",
             pc'[d] = pc[d] \/ AtWork(d)' \/ ~AtWork(d)
      PROVE  Done(d)'
  <2> SUFFICES ASSUME NEW e \in 1..position[d], ~Handled(e)'
               PROVE  e = position[d] /\ AtWork(d)'
    BY <1>5 DEF Done
  <2>1. ~Handled(e)
    BY <1>1
  <2> QED BY <1>5, <2>1 DEF Done, AtWork
<1>6. ASSUME committed' = committed,
             \A d \in Workers : owner' = d =>
                /\ owner = d /\ position'[d] = position[d] /\ pc'[d] # "down"
                /\ pc'[d] = pc[d] \/ AtWork(d)' \/ ~AtWork(d)
      PROVE  OwnerIsDone' /\ NothingSkipped'
  BY <1>4, <1>5, <1>6 DEF OwnerIsDone
<1>7. ASSUME NEW d \in Workers, Connect(d) \/ Evict(d) \/ DlqDelivers(d) \/ Timeout(d)
      PROVE  OwnerIsDone' /\ NothingSkipped'
  <2>1. committed' = committed /\ position' = position /\ owner' \in {owner, NoWorker}
    BY <1>7 DEF Connect, Evict, DlqDelivers, Timeout
  <2>2. \A w \in Workers : owner' = w => Done(w)
    BY <2>1, DispatcherAssumption DEF OwnerIsDone, NoWorker
  <2>3. \A w \in Workers : pc'[w] = pc[w] \/ AtWork(w)' \/ ~AtWork(w)
    BY <1>7 DEF Connect, Evict, DlqDelivers, Timeout, Go, AtWork
  <2>4. \A w \in Workers : pc[w] # "down" => pc'[w] # "down"
    BY <1>7 DEF Connect, Evict, DlqDelivers, Timeout, Go
  <2> QED BY <1>6, <2>1, <2>2, <2>3, <2>4, DispatcherAssumption DEF Done, NoWorker
<1>8. ASSUME NEW d \in Workers, FatalKafkaError(d) \/ Crash(d)
      PROVE  OwnerIsDone' /\ NothingSkipped'
  <2>1. /\ committed' = committed /\ position' = position
        /\ pc' = [pc EXCEPT ![d] = "down"]
        /\ owner' = IF owner = d THEN NoWorker ELSE owner
    BY <1>8 DEF FatalKafkaError, Crash, CloseClients, Leave, Go
  <2> QED BY <1>6, <2>1, DispatcherAssumption DEF OwnerIsDone, Done, NoWorker
<1>9. ASSUME NEW d \in Workers, Assign(d)
      PROVE  OwnerIsDone' /\ NothingSkipped'
  <2>1. committed' = committed /\ pc' = pc /\ pc[d] = "polling" /\ owner' = d
    BY <1>9 DEF Assign
  <2>2. position'[d] = committed
    BY <1>9 DEF Assign
  <2>3. Done(d)'
    BY <1>3, <2>1, <2>2 DEF Done
  <2> QED BY <1>4, <2>1, <2>3 DEF OwnerIsDone
<1>10. ASSUME NEW d \in Workers, PollValid(d) \/ PollMalformed(d)
       PROVE  OwnerIsDone' /\ NothingSkipped'
  <2>1. /\ committed' = committed /\ owner = d /\ owner' = d /\ pc[d] = "polling"
        /\ position'[d] = position[d] + 1 /\ AtWork(d)'
    BY <1>10 DEF PollValid, PollMalformed, Given, Go, AtWork
  <2>2. ASSUME NEW e \in 1..position[d] PROVE Handled(e)'
    BY <1>1, <2>1 DEF OwnerIsDone, Done, AtWork
  <2>3. Done(d)'
    BY <2>1, <2>2 DEF Done, AtWork
  <2> QED BY <1>4, <2>1, <2>3 DEF OwnerIsDone
<1>11. ASSUME NEW d \in Workers, PollUndecodable(d)
       PROVE  OwnerIsDone' /\ NothingSkipped'
  <2>1. committed' = committed /\ owner' = NoWorker
    BY <1>11 DEF PollUndecodable, Given, CloseClients, Leave
  <2> QED BY <1>4, <2>1, DispatcherAssumption DEF OwnerIsDone, NoWorker
<1>12. ASSUME NEW d \in Workers, RouteToDlq(d)
       PROVE  OwnerIsDone' /\ NothingSkipped'
  <2>1. /\ committed' = committed /\ owner' = owner /\ position' = position
        /\ pc' = [pc EXCEPT ![d] = "commit"] /\ position[d] \in counted' \cup dlqErrors'
    BY <1>12 DEF RouteToDlq, Go
  <2>2. ASSUME owner = d PROVE Done(d)'
    BY <1>1, <2>1, <2>2 DEF OwnerIsDone, Done, Handled, Delivery!Handled
  <2>3. ASSUME NEW w \in Workers \ {d}, owner = w PROVE Done(w)'
    BY <1>5, <2>1, <2>3 DEF OwnerIsDone, Done
  <2> QED BY <1>4, <2>1, <2>2, <2>3 DEF OwnerIsDone
<1>13. ASSUME NEW d \in Workers, CommitAccepted(d) \/ CommitFails(d)
       PROVE  OwnerIsDone' /\ NothingSkipped'
  <2>1. /\ owner' = owner /\ position' = position /\ pc[d] = "commit"
        /\ pc' = [pc EXCEPT ![d] = "polling"]
    BY <1>13 DEF CommitAccepted, CommitFails, Go
  <2>2. OwnerIsDone'
    BY <1>5, <2>1 DEF OwnerIsDone, Done, AtWork
  <2>3. CASE CommitAccepted(d)
    <3>1. owner = d /\ committed' = position[d]
      BY <2>3 DEF CommitAccepted
    <3>2. ASSUME NEW e \in 1..position[d] PROVE Handled(e)'
      BY <1>1, <2>1, <3>1 DEF OwnerIsDone, Done, AtWork
    <3> QED BY <2>2, <3>1, <3>2 DEF NothingSkipped
  <2>4. CASE CommitFails(d)
    BY <1>4, <2>2, <2>4 DEF CommitFails
  <2> QED BY <1>13, <2>3, <2>4
<1>14. ASSUME NEW c \in coroutines, ReachTemporal(c)
       PROVE  OwnerIsDone' /\ NothingSkipped'
  <2>1. /\ committed' = committed /\ owner' = owner /\ position' = position
        /\ pc' = pc \/ pc' = [pc EXCEPT ![c.worker] = "failed"]
    BY <1>14 DEF ReachTemporal
  <2> QED BY <1>6, <2>1 DEF OwnerIsDone, Done, AtWork
\* The dispatchers that are told of a result have handled their event: it was
\* started.
<1>15. ASSUME NEW k \in Keys, WorkflowCloses(k)
       PROVE  OwnerIsDone' /\ NothingSkipped'
  <2>1. /\ committed' = committed /\ owner' = owner /\ position' = position
        /\ \A w \in Workers :
              pc'[w] = pc[w] \/ (w \in awaiting /\ pc'[w] \in {"commit", "failed"})
    BY <1>15 DEF WorkflowCloses
  <2>2. ASSUME NEW d \in Workers, owner = d PROVE Done(d)'
    <3>1. CASE pc'[d] = pc[d]
      BY <1>5, <2>1, <2>2, <3>1 DEF OwnerIsDone, Done
    <3>2. CASE d \in awaiting /\ pc'[d] \in {"commit", "failed"}
      <4>1. Handled(position[d])
        BY <3>2 DEF AwaitingStarted, Handled, Delivery!Handled
      <4>2. ASSUME NEW f \in 1..position[d] PROVE Handled(f)'
        BY <1>1, <2>2, <4>1 DEF OwnerIsDone, Done
      <4> QED BY <2>1, <3>2, <4>2 DEF Done
    <3> QED BY <2>1, <3>1, <3>2
  <2> QED BY <1>4, <2>1, <2>2 DEF OwnerIsDone
<1>16. ASSUME NEW event \in Events, Publish(event)
       PROVE  OwnerIsDone' /\ NothingSkipped'
  BY <1>6, <1>16 DEF Publish, OwnerIsDone, Done
<1>17. CASE UNCHANGED dispatcherVars
  BY <1>6, <1>17 DEF dispatcherVars, OwnerIsDone, Done
<1> QED
  BY <1>7, <1>8, <1>9, <1>10, <1>11, <1>12, <1>13, <1>14, <1>15, <1>16, <1>17
  DEF DispatcherNext

\* The owner's position only grows while it is the owner.
LEMMA AheadStep ==
    ASSUME SkipInv, DispatcherTypeInv', [DispatcherNext]_dispatcherVars
    PROVE  OwnerIsAhead'
<1> USE DispatcherAssumption DEF SkipInv, DispatcherTypeInv, DispatcherTypeOK
<1>1. ASSUME committed' = committed,
             \A d \in Workers : owner' = d => owner = d /\ position'[d] >= position[d]
      PROVE  OwnerIsAhead'
  BY <1>1 DEF OwnerIsAhead
<1>2. ASSUME NEW d \in Workers,
             \/ Connect(d) \/ RouteToDlq(d) \/ DlqDelivers(d) \/ CommitFails(d) \/ Timeout(d)
      PROVE  OwnerIsAhead'
  <2>1. UNCHANGED <<committed, owner, position>>
    BY <1>2 DEF Connect, RouteToDlq, DlqDelivers, CommitFails, Timeout
  <2> QED BY <1>1, <2>1
<1>3. ASSUME NEW d \in Workers, Evict(d) \/ FatalKafkaError(d) \/ Crash(d)
      PROVE  OwnerIsAhead'
  <2>1. committed' = committed /\ position' = position /\ owner' \in {owner, NoWorker}
    BY <1>3 DEF Evict, FatalKafkaError, Crash, CloseClients, Leave
  <2> QED BY <1>1, <2>1
<1>4. ASSUME NEW d \in Workers, Assign(d) PROVE OwnerIsAhead'
  BY <1>4 DEF Assign, OwnerIsAhead
<1>5. ASSUME NEW d \in Workers, PollValid(d) \/ PollMalformed(d) \/ PollUndecodable(d)
      PROVE  OwnerIsAhead'
  <2>1. /\ committed' = committed /\ owner' \in {owner, NoWorker}
        /\ position' = [position EXCEPT ![d] = position[d] + 1]
    BY <1>5 DEF PollValid, PollMalformed, PollUndecodable, Given, CloseClients, Leave
  <2> QED BY <1>1, <2>1
<1>6. ASSUME NEW d \in Workers, CommitAccepted(d) PROVE OwnerIsAhead'
  BY <1>6 DEF CommitAccepted, OwnerIsAhead
<1>7. ASSUME NEW c \in coroutines, ReachTemporal(c) PROVE OwnerIsAhead'
  BY <1>1, <1>7 DEF ReachTemporal
<1>8. ASSUME NEW k \in Keys, WorkflowCloses(k) PROVE OwnerIsAhead'
  BY <1>1, <1>8 DEF WorkflowCloses
<1>9. ASSUME NEW event \in Events, Publish(event) PROVE OwnerIsAhead'
  BY <1>1, <1>9 DEF Publish
<1>10. CASE UNCHANGED dispatcherVars
  BY <1>1, <1>10 DEF dispatcherVars
<1> QED BY <1>2, <1>3, <1>4, <1>5, <1>6, <1>7, <1>8, <1>9, <1>10 DEF DispatcherNext

LEMMA SkipInvariant == DispatcherSpec => []SkipInv
<1>1. DispatcherInit => SkipInv
  BY DispatcherAssumption
  DEF DispatcherInit, SkipInv, DispatcherTypeInv, DispatcherTypeOK, DispatcherStates,
      WorkflowStates, Offsets, WorkHasEvent, AtWork, InTopic, CoroutinesHaveEvent,
      AwaitingStarted, OwnerIsDone, OwnerIsAhead, NothingSkipped
<1>2. SkipInv /\ [DispatcherNext]_dispatcherVars => SkipInv'
  <2> SUFFICES ASSUME SkipInv, [DispatcherNext]_dispatcherVars PROVE SkipInv'
    OBVIOUS
  <2>1. DispatcherTypeInv'
    BY DispatcherTypeStep, WorkStep, CoroutineStep, AwaitingStep DEF SkipInv, DispatcherTypeInv
  <2> QED BY <2>1, SkipStep, AheadStep DEF SkipInv
<1> QED BY <1>1, <1>2, PTL DEF DispatcherSpec

\* No commit passes an event that was neither given to Temporal nor handed to
\* send_to_dlq, whatever crashes, evictions and timeouts happen
\* (worker.py:462-506).
THEOREM DispatcherSkipsNothing == DispatcherSpec => []NothingSkipped
<1>1. SkipInv => NothingSkipped
  BY DEF SkipInv
<1> QED BY <1>1, SkipInvariant, PTL

-----------------------------------------------------------------------------
(* The dispatchers keep the promise of EventDelivery *)

\* Every step starts, dead-letters, commits, closes or publishes, or is none of
\* the publishers' business.
LEMMA DeliveryStep ==
    ASSUME SkipInv, [DispatcherNext]_dispatcherVars
    PROVE  [Delivery!DeliveryNext]_(Delivery!deliveryVars)
<1> USE DEF SkipInv, DispatcherTypeInv, DispatcherTypeOK
<1>1. DOMAIN topic = 1..Len(topic) /\ Len(topic) \in Nat
  OBVIOUS
<1>2. ASSUME UNCHANGED <<topic, committed, started, counted, dlqErrors, workflow>>
      PROVE  [Delivery!DeliveryNext]_(Delivery!deliveryVars)
  BY <1>2 DEF Delivery!deliveryVars
<1>3. ASSUME NEW d \in Workers,
             \/ Connect(d) \/ Assign(d) \/ Evict(d) \/ FatalKafkaError(d) \/ Crash(d)
             \/ PollValid(d) \/ PollMalformed(d) \/ PollUndecodable(d)
             \/ DlqDelivers(d) \/ CommitFails(d) \/ Timeout(d)
      PROVE  [Delivery!DeliveryNext]_(Delivery!deliveryVars)
  <2>1. UNCHANGED <<topic, committed, started, counted, dlqErrors, workflow>>
    BY <1>3 DEF Connect, Assign, Evict, FatalKafkaError, Crash, PollValid, PollMalformed,
                PollUndecodable, DlqDelivers, CommitFails, Timeout, temporalVars, dlqVars
  <2> QED BY <1>2, <2>1
<1>4. ASSUME NEW d \in Workers, RouteToDlq(d)
      PROVE  [Delivery!DeliveryNext]_(Delivery!deliveryVars)
  <2>1. HasEvent(d)
    BY <1>4 DEF RouteToDlq, WorkHasEvent, AtWork
  <2>2. /\ (counted \cup dlqErrors)' = (counted \cup dlqErrors) \cup {position[d]}
        /\ UNCHANGED <<topic, committed, started, workflow>>
    BY <1>4 DEF RouteToDlq, temporalVars
  <2>3. Delivery!DeadLetter(position[d])
    BY <2>1, <2>2 DEF Delivery!DeadLetter, HasEvent
  <2> QED BY <2>1, <2>3 DEF HasEvent, Delivery!DeliveryNext, Delivery!WorkerNext
<1>5. ASSUME NEW d \in Workers, CommitAccepted(d)
      PROVE  [Delivery!DeliveryNext]_(Delivery!deliveryVars)
  <2>1. /\ pc[d] = "commit" /\ owner = d /\ committed' = position[d]
        /\ UNCHANGED <<topic, started, counted, dlqErrors, workflow>>
    BY <1>5 DEF CommitAccepted, temporalVars, dlqVars
  <2>2. HasEvent(d) /\ position[d] >= committed
    BY <2>1, DispatcherAssumption DEF WorkHasEvent, OwnerIsAhead
  <2>3. \A o \in 1..position[d] : Delivery!Handled(o)
    BY <2>1 DEF OwnerIsDone, Done, AtWork, Handled
  <2>4. Delivery!Commit(position[d])
    BY <2>1, <2>2, <2>3 DEF Delivery!Commit
  <2> QED BY <2>2, <2>4 DEF HasEvent, Delivery!DeliveryNext, Delivery!WorkerNext
<1>6. ASSUME NEW c \in coroutines, ReachTemporal(c)
      PROVE  [Delivery!DeliveryNext]_(Delivery!deliveryVars)
  <2>1. c.event \in DOMAIN topic /\ topic[c.event].kind = "valid"
    BY DEF CoroutinesHaveEvent
  <2>2. UNCHANGED <<topic, committed, counted, dlqErrors>>
    BY <1>6 DEF ReachTemporal, dlqVars
  <2>3. CASE UNCHANGED <<workflow, started>>
    BY <1>2, <2>2, <2>3
  <2>4. CASE /\ workflow[topic[c.event].key] # "running"
             /\ workflow' = [workflow EXCEPT ![topic[c.event].key] = "running"]
             /\ started' = started \cup {c.event}
    <3>1. Delivery!StartWorkflow(c.event)
      BY <2>1, <2>2, <2>4 DEF Delivery!StartWorkflow
    <3> QED BY <2>1, <3>1 DEF Delivery!DeliveryNext, Delivery!WorkerNext
  <2> QED BY <1>6, <2>3, <2>4 DEF ReachTemporal
<1>7. ASSUME NEW k \in Keys, WorkflowCloses(k)
      PROVE  [Delivery!DeliveryNext]_(Delivery!deliveryVars)
  <2>1. Delivery!CloseWorkflow(k)
    BY <1>7 DEF WorkflowCloses, Delivery!CloseWorkflow, dlqVars
  <2> QED BY <2>1 DEF Delivery!DeliveryNext, Delivery!WorkerNext
<1>8. ASSUME NEW event \in Events, Publish(event)
      PROVE  [Delivery!DeliveryNext]_(Delivery!deliveryVars)
  <2>1. Delivery!Publish(event) /\ event \in Delivery!Event
    BY <1>8, DispatcherAssumption DEF Publish, Delivery!Publish, temporalVars, dlqVars
  <2> QED BY <2>1 DEF Delivery!DeliveryNext
<1>9. CASE UNCHANGED dispatcherVars
  BY <1>2, <1>9 DEF dispatcherVars, temporalVars, dlqVars
<1> QED BY <1>3, <1>4, <1>5, <1>6, <1>7, <1>8, <1>9 DEF DispatcherNext

\* Any number of dispatchers, with all their failures, start, dead-letter and
\* commit as EventDelivery says (worker.py:462-568).
THEOREM DispatcherImplementsDelivery == DispatcherSpec => ImplementsEventDelivery
<1>1. DispatcherInit => Delivery!DeliveryInit
  BY DEF DispatcherInit, Delivery!DeliveryInit
<1>2. SkipInv /\ [DispatcherNext]_dispatcherVars => [Delivery!DeliveryNext]_(Delivery!deliveryVars)
  BY DeliveryStep
<1> QED
  BY <1>1, <1>2, SkipInvariant, PTL
  DEF DispatcherSpec, ImplementsEventDelivery, Delivery!DeliverySpec

\* So, of any number of dispatchers with all their failures: a workflow has a
\* valid event of its key behind it, and no commit of the group is taken back
\* (worker.py:462-568).
COROLLARY DispatcherKeepsPromises ==
    DispatcherSpec => []Delivery!WorkflowsHaveEvents /\ Delivery!OffsetNeverMovesBack
<1>1. DispatcherSpec => Delivery!DeliverySpec
  BY DispatcherImplementsDelivery DEF ImplementsEventDelivery
<1> QED BY <1>1, Delivery!DeliveryKeepsPromises, PTL
=============================================================================
