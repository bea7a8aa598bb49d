------------------------- MODULE PiAgentTurnProofs -------------------------
(***************************************************************************)
(* Theorems about PiAgentTurn for every bound: no lost wake-up, delivery   *)
(* (the turn implements EventStream), and the watchdog is armed when due.  *)
(***************************************************************************)
EXTENDS PiAgentTurn, SequenceTheorems, TLAPS

\* What one callback may enqueue.
Batches == {<<k>> : k \in Kinds} \cup {<<"error", k>> : k \in Kinds}

\* Before the turn begins nothing happens; a consumer that left no longer reads; the
\* queue holds exactly what was sent and is still to be received.
ChannelInv ==
    /\ pc = "context" => /\ sdk = "off" /\ tools = {} /\ ~timer
                         /\ queue = <<>> /\ sent = <<>> /\ received = <<>>
    /\ left => pc \in {"cleanup", "finished"}
    /\ Reading => sent = received \o queue

TurnInv == TypeOK /\ ChannelInv /\ NoLostWakeup

LEMMA BatchType ==
    ASSUME NEW e \in Batches
    PROVE  e \in Seq(Kinds) /\ Len(e) > 0
<1>1. CASE e \in {<<k>> : k \in Kinds}
  <2>1. PICK k \in Kinds : e = <<k>>
    BY <1>1
  <2>2. QED
    BY <2>1
<1>2. CASE e \in {<<"error", k>> : k \in Kinds}
  <2>1. PICK k \in Kinds : e = <<"error", k>>
    BY <1>2
  <2>2. "error" \in Kinds
    BY DEF Kinds
  <2>3. QED
    BY <2>1, <2>2
<1>3. QED
  BY <1>1, <1>2 DEF Batches

LEMMA PairConcat ==
    ASSUME NEW k \in Kinds
    PROVE  <<"error">> \o <<k>> = <<"error", k>>
<1> DEFINE l == <<"error">> \o <<k>>
           r == <<"error", k>>
<1>1. <<"error">> \in Seq(Kinds) /\ <<k>> \in Seq(Kinds) /\ r \in Seq(Kinds)
  BY DEF Kinds
<1>2. l \in Seq(Kinds) /\ Len(l) = 2 /\ l[1] = "error" /\ l[2] = k
  BY <1>1, ConcatProperties
<1>3. Len(r) = 2 /\ r[1] = "error" /\ r[2] = k
  OBVIOUS
<1> HIDE DEF l, r
<1>4. \A i \in 1..Len(l) : l[i] = r[i]
  BY <1>2, <1>3
<1>5. l = r
  BY <1>1, <1>2, <1>3, <1>4, SeqEqual
<1>6. QED
  BY <1>5 DEF l, r

LEMMA TurnInit == Init => TurnInv
<1> SUFFICES ASSUME Init
             PROVE  TurnInv
  OBVIOUS
<1>1. <<>> \in Seq(Kinds)
  BY EmptySeq
<1>2. TypeOK
  <2>1. 0 \in 0..MaxEvents /\ 0 \in 0..MaxTimeouts
    BY TurnAssumption
  <2>2. QED
    BY <1>1, <2>1, Zenon DEF Init, TypeOK, PCs
<1>3. ChannelInv /\ NoLostWakeup
  BY DEF Init, ChannelInv, NoLostWakeup, Reading
<1>4. QED
  BY <1>2, <1>3 DEF TurnInv

-----------------------------------------------------------------------------
(* The channel *)

LEMMA EnqueueKeeps ==
    ASSUME TurnInv, NEW e \in Batches, Enqueue(e), pc # "context"
    PROVE  /\ pc' \in PCs /\ left' \in BOOLEAN
           /\ queue' \in Seq(Kinds) /\ sent' \in Seq(Kinds) /\ received' \in Seq(Kinds)
           /\ ChannelInv'
           /\ pc' # "awaiting"
<1>1. e \in Seq(Kinds)
  BY BatchType
<1>2. /\ queue \in Seq(Kinds) /\ sent \in Seq(Kinds) /\ received \in Seq(Kinds)
      /\ pc \in PCs /\ left \in BOOLEAN
  BY DEF TurnInv, TypeOK
<1>3. queue \o e \in Seq(Kinds) /\ sent \o e \in Seq(Kinds)
  BY <1>1, <1>2, ConcatProperties
<1>4. (received \o queue) \o e = received \o (queue \o e)
  BY <1>1, <1>2, ConcatAssociative
<1>5. /\ queue' = queue \o e /\ received' = received /\ left' = left
      /\ sent' = IF Reading THEN sent \o e ELSE sent
      /\ pc' = IF pc = "awaiting" THEN "running" ELSE pc
  BY DEF Enqueue
<1>6. pc' \in PCs /\ pc' # "context" /\ pc' # "awaiting" /\ (Reading' <=> Reading)
  BY <1>2, <1>5 DEF PCs, Reading
<1>7. ChannelInv'
  BY <1>4, <1>5, <1>6 DEF ChannelInv, TurnInv, Reading
<1>8. QED
  BY <1>2, <1>3, <1>5, <1>6, <1>7

\* Steps that leave generator and channel alone once the turn has begun.
LEMMA ChannelQuiet ==
    ASSUME TurnInv, UNCHANGED <<generator, channel>>,
           pc = "context" => UNCHANGED <<sdk, tools, timer>>
    PROVE  ChannelInv' /\ NoLostWakeup'
  BY DEF TurnInv, ChannelInv, NoLostWakeup, generator, channel, Reading

\* The generator takes the head of the queue.
LEMMA TakeHead ==
    ASSUME TurnInv, Reading, queue # <<>>
    PROVE  /\ Tail(queue) \in Seq(Kinds) /\ Append(received, Head(queue)) \in Seq(Kinds)
           /\ Append(received, Head(queue)) \o Tail(queue) = sent
           /\ Len(received) < Len(sent) /\ sent[Len(received) + 1] = Head(queue)
<1>1. queue \in Seq(Kinds) /\ received \in Seq(Kinds) /\ sent = received \o queue
  BY DEF TurnInv, TypeOK, ChannelInv
<1>2. /\ Head(queue) \in Kinds /\ Tail(queue) \in Seq(Kinds)
      /\ Len(queue) \in Nat \ {0} /\ Head(queue) = queue[1]
  BY <1>1, HeadTailProperties, EmptySeq
<1>3. queue = <<Head(queue)>> \o Tail(queue) /\ <<Head(queue)>> \in Seq(Kinds)
  BY <1>1, <1>2
<1>4. Append(received, Head(queue)) = received \o <<Head(queue)>>
  BY <1>1, <1>2, AppendIsConcat
<1>5. (received \o <<Head(queue)>>) \o Tail(queue) = received \o (<<Head(queue)>> \o Tail(queue))
  BY <1>1, <1>2, <1>3, ConcatAssociative
<1>6. Append(received, Head(queue)) \in Seq(Kinds)
  BY <1>1, <1>2, AppendProperties
<1>7. Len(received) < Len(sent) /\ sent[Len(received) + 1] = queue[1]
  <2>1. Len(received) \in Nat
    BY <1>1, LenProperties
  <2>2. /\ Len(received \o queue) = Len(received) + Len(queue)
        /\ \A i \in 1..Len(received) + Len(queue) :
             (received \o queue)[i] = IF i <= Len(received) THEN received[i]
                                      ELSE queue[i - Len(received)]
    BY <1>1, ConcatProperties
  <2>3. QED
    BY <1>1, <1>2, <2>1, <2>2
<1>8. QED
  BY <1>1, <1>2, <1>3, <1>4, <1>5, <1>6, <1>7
-----------------------------------------------------------------------------
(* Type correctness in two parts: what callbacks and generator share, and the rest *)

SharedType ==
    /\ pc \in PCs /\ left \in BOOLEAN
    /\ queue \in Seq(Kinds) /\ sent \in Seq(Kinds) /\ received \in Seq(Kinds)
    /\ done \in BOOLEAN /\ toolRunning \in BOOLEAN /\ timer \in BOOLEAN

RestType ==
    /\ signal \in {"none", "listened", "aborted"} /\ aborted \in {"no", "user", "watchdog"}
    /\ sdk \in {"off", "running", "ended", "settled"} /\ tools \subseteq ToolCalls
    /\ emitted \in 0..MaxEvents /\ timeouts \in 0..MaxTimeouts

LEMMA TypeParts ==
    /\ TypeOK <=> SharedType /\ RestType
    /\ TypeOK' <=> SharedType' /\ RestType'
  BY Zenon DEF TypeOK, SharedType, RestType

LEMMA Counters ==
    ASSUME RestType
    PROVE  /\ emitted < MaxEvents => emitted + 1 \in 0..MaxEvents
           /\ timeouts < MaxTimeouts => timeouts + 1 \in 0..MaxTimeouts
  BY TurnAssumption DEF RestType

LEMMA ResetType ==
    ASSUME NEW d \in BOOLEAN, NEW t \in BOOLEAN, ResetIdleTimer(d, t)
    PROVE  timer' \in BOOLEAN
  BY DEF ResetIdleTimer

\* An SDK event that the subscriber enqueues.
LEMMA DeliverKeeps ==
    ASSUME TurnInv, NEW k \in Kinds, NEW tool \in BOOLEAN, Deliver(<<k>>, tool),
           pc # "context"
    PROVE  SharedType' /\ ChannelInv' /\ NoLostWakeup'
<1>1. SharedType /\ <<k>> \in Batches
  BY TypeParts DEF TurnInv, Batches
<1>2. CASE Reading
  <2>1. /\ Enqueue(<<k>>) /\ toolRunning' = tool /\ ResetIdleTimer(done, tool) /\ done' = done
    BY <1>2 DEF Deliver
  <2>2. toolRunning' \in BOOLEAN /\ done' \in BOOLEAN /\ timer' \in BOOLEAN
    BY <1>1, <2>1, ResetType DEF SharedType
  <2>3. QED
    BY <1>1, <2>1, <2>2, EnqueueKeeps DEF SharedType, NoLostWakeup
<1>3. CASE ~Reading
  <2>1. UNCHANGED <<generator, channel, toolRunning, timer>>
    BY <1>3 DEF Deliver
  <2>2. QED
    BY <1>1, <2>1, ChannelQuiet DEF SharedType, generator, channel
<1>4. QED
  BY <1>2, <1>3

-----------------------------------------------------------------------------
(* The actions *)

LEMMA GeneratorStep ==
    ASSUME TurnInv, Begin \/ SessionRejects \/ Continue \/ Leave \/ Settled
    PROVE  TurnInv'
<1>0. SharedType /\ RestType /\ ChannelInv
  BY TypeParts DEF TurnInv
<1>1. CASE Begin
  <2>1. SharedType' /\ RestType'
    BY <1>0, <1>1, Zenon DEF Begin, SharedType, RestType, PCs, channel
  <2>2. sent' = received' \o queue' /\ pc' = "running" /\ ~left'
    BY <1>0, <1>1 DEF Begin, channel, ChannelInv
  <2>3. QED
    BY <2>1, <2>2, TypeParts DEF TurnInv, ChannelInv, NoLostWakeup
<1>2. CASE SessionRejects
  <2>1. SharedType' /\ RestType'
    BY <1>0, <1>2, Zenon
       DEF SessionRejects, SharedType, RestType, PCs, channel, watchdog, agent, stops
  <2>2. QED
    BY <1>2, <2>1, TypeParts DEF TurnInv, ChannelInv, NoLostWakeup, SessionRejects, Reading
<1>3. CASE Continue
  <2>0. /\ pc \in {"running", "held"} /\ Reading /\ ~left
        /\ UNCHANGED <<left, done, sent, toolRunning, timeouts, agent, stops>>
    BY <1>0, <1>3 DEF Continue, Reading, ChannelInv
  <2>1. RestType'
    BY <1>0, <2>0 DEF RestType, agent, stops
  <2>2. CASE /\ queue # <<>> /\ queue' = Tail(queue)
             /\ received' = Append(received, Head(queue)) /\ pc' = "held" /\ UNCHANGED timer
    <3>1. SharedType'
      BY <1>0, <2>0, <2>2, TakeHead, Zenon DEF SharedType, PCs
    <3>2. ChannelInv' /\ NoLostWakeup'
      BY <2>0, <2>2, TakeHead DEF ChannelInv, NoLostWakeup, Reading
    <3>3. QED
      BY <2>1, <3>1, <3>2, TypeParts DEF TurnInv
  <2>3. CASE /\ queue = <<>> /\ ~done /\ pc' = "awaiting" /\ UNCHANGED <<queue, received, timer>>
    <3>1. SharedType'
      BY <1>0, <2>0, <2>3, Zenon DEF SharedType, PCs
    <3>2. ChannelInv' /\ NoLostWakeup'
      BY <1>0, <2>0, <2>3 DEF ChannelInv, NoLostWakeup, Reading
    <3>3. QED
      BY <2>1, <3>1, <3>2, TypeParts DEF TurnInv
  <2>4. CASE queue = <<>> /\ done /\ CleanUp /\ UNCHANGED <<queue, received>>
    <3>1. SharedType'
      BY <1>0, <2>0, <2>4, Zenon DEF SharedType, PCs, CleanUp
    <3>2. ChannelInv' /\ NoLostWakeup'
      BY <2>0, <2>4 DEF ChannelInv, NoLostWakeup, Reading, CleanUp
    <3>3. QED
      BY <2>1, <3>1, <3>2, TypeParts DEF TurnInv
  <2>5. QED
    BY <1>3, <2>2, <2>3, <2>4 DEF Continue
<1>4. CASE Leave
  <2>1. SharedType' /\ RestType'
    BY <1>0, <1>4, Zenon DEF Leave, CleanUp, SharedType, RestType, PCs, channel, agent, stops
  <2>2. QED
    BY <1>4, <2>1, TypeParts DEF TurnInv, ChannelInv, NoLostWakeup, Leave, CleanUp, Reading
<1>5. CASE Settled
  <2>1. SharedType' /\ RestType'
    BY <1>0, <1>5, Zenon
       DEF Settled, SharedType, RestType, PCs, channel, watchdog, agent, stops
  <2>2. QED
    BY <1>5, <2>1, TypeParts DEF TurnInv, ChannelInv, NoLostWakeup, Settled, Reading
<1>6. QED
  BY <1>1, <1>2, <1>3, <1>4, <1>5

LEMMA SdkStep ==
    ASSUME TurnInv,
           \/ Text \/ Heartbeat \/ AgentEnd \/ Resume \/ PromptResolves \/ PromptRejects
           \/ \E t \in ToolCalls : ToolStart(t) \/ ToolEnd(t)
    PROVE  TurnInv'
<1>0. SharedType /\ RestType /\ ChannelInv
  BY TypeParts DEF TurnInv
<1>1. pc # "context"
  BY <1>0 DEF ChannelInv, Text, Heartbeat, AgentEnd, Resume, PromptResolves, PromptRejects, ToolStart,
     ToolEnd
<1>2. CASE Text
  <2>1. SharedType' /\ ChannelInv' /\ NoLostWakeup'
    BY <1>0, <1>1, <1>2, DeliverKeeps DEF Text, Kinds, SharedType
  <2>2. RestType'
    BY <1>0, <1>2, Counters, Zenon DEF Text, RestType, stops
  <2>3. QED
    BY <2>1, <2>2, TypeParts DEF TurnInv
<1>20. CASE Resume
  <2>1. SharedType' /\ ChannelInv' /\ NoLostWakeup'
    BY <1>0, <1>1, <1>20, DeliverKeeps DEF Resume, Kinds, SharedType
  <2>2. RestType'
    BY <1>0, <1>20, Counters, Zenon DEF Resume, RestType, stops
  <2>3. QED
    BY <2>1, <2>2, TypeParts DEF TurnInv
<1>3. CASE Heartbeat
  <2>1. timer' \in BOOLEAN
    BY <1>0, <1>3, ResetType DEF Heartbeat, SharedType
  <2>2. SharedType' /\ RestType'
    BY <1>0, <1>3, <2>1, Counters, Zenon
       DEF Heartbeat, SharedType, RestType, stops, generator, channel
  <2>3. QED
    BY <1>1, <1>3, <2>2, ChannelQuiet, TypeParts DEF TurnInv, Heartbeat
<1>4. ASSUME NEW t \in ToolCalls, ToolStart(t)
      PROVE  TurnInv'
  <2>1. SharedType' /\ ChannelInv' /\ NoLostWakeup'
    BY <1>0, <1>1, <1>4, DeliverKeeps DEF ToolStart, Kinds
  <2>2. RestType'
    BY <1>0, <1>4, Counters, Zenon DEF ToolStart, RestType, stops
  <2>3. QED
    BY <2>1, <2>2, TypeParts DEF TurnInv
<1>5. ASSUME NEW t \in ToolCalls, ToolEnd(t)
      PROVE  TurnInv'
  <2>1. SharedType' /\ ChannelInv' /\ NoLostWakeup'
    BY <1>0, <1>1, <1>5, DeliverKeeps DEF ToolEnd, Kinds
  <2>2. RestType'
    BY <1>0, <1>5, Zenon DEF ToolEnd, RestType, stops
  <2>3. QED
    BY <2>1, <2>2, TypeParts DEF TurnInv
<1>6. CASE AgentEnd
  <2>1. RestType'
    BY <1>0, <1>6, Zenon DEF AgentEnd, RestType, stops
  <2>2. CASE Reading
    <3>1. PICK errors \in {<<>>, <<"error">>} : Enqueue(errors \o <<"turnEnd">>)
      BY <1>6, <2>2 DEF AgentEnd
    <3>2. errors \o <<"turnEnd">> \in Batches
      <4>1. <<>> \o <<"turnEnd">> = <<"turnEnd">>
        OBVIOUS
      <4>2. <<"error">> \o <<"turnEnd">> = <<"error", "turnEnd">>
        BY PairConcat DEF Kinds
      <4>3. <<"turnEnd">> \in Batches /\ <<"error", "turnEnd">> \in Batches
        BY DEF Batches, Kinds
      <4>4. QED
        BY <3>1, <4>1, <4>2, <4>3
    <3>3. done' \in BOOLEAN /\ toolRunning' \in BOOLEAN /\ timer' \in BOOLEAN
      BY <1>0, <1>6, <2>2, ResetType DEF AgentEnd, SharedType
    <3>4. QED
      BY <1>1, <2>1, <3>1, <3>2, <3>3, EnqueueKeeps, TypeParts
         DEF TurnInv, SharedType, NoLostWakeup
  <2>3. CASE ~Reading
    <3>1. SharedType'
      BY <1>0, <1>6, <2>3, Zenon DEF AgentEnd, SharedType, generator, channel
    <3>2. QED
      BY <1>1, <1>6, <2>1, <2>3, <3>1, ChannelQuiet, TypeParts DEF AgentEnd, TurnInv
  <2>4. QED
    BY <2>2, <2>3
<1>7. CASE PromptResolves
  <2>1. SharedType' /\ RestType'
    BY <1>0, <1>7, Zenon
       DEF PromptResolves, SharedType, RestType, stops, generator, channel, watchdog
  <2>2. QED
    BY <1>1, <1>7, <2>1, ChannelQuiet, TypeParts DEF PromptResolves, TurnInv
<1>8. CASE PromptRejects
  <2>1. RestType'
    BY <1>0, <1>8, Zenon DEF PromptRejects, RestType, stops
  <2>2. <<"error">> \in Batches
    BY DEF Batches, Kinds
  <2>3. done' \in BOOLEAN /\ toolRunning' \in BOOLEAN /\ timer' \in BOOLEAN
    BY <1>0, <1>8, ResetType DEF PromptRejects, SharedType
  <2>4. QED
    BY <1>1, <1>8, <2>1, <2>2, <2>3, EnqueueKeeps, TypeParts
       DEF PromptRejects, TurnInv, SharedType, NoLostWakeup
<1>9. QED
  BY <1>2, <1>20, <1>3, <1>4, <1>5, <1>6, <1>7, <1>8

LEMMA StopStep ==
    ASSUME TurnInv, TimerFires \/ SignalAborts
    PROVE  TurnInv'
<1>0. SharedType /\ RestType /\ ChannelInv
  BY TypeParts DEF TurnInv
<1>1. CASE SignalAborts
  <2>1. SharedType' /\ RestType'
    BY <1>0, <1>1, Zenon
       DEF SignalAborts, SharedType, RestType, generator, channel, watchdog, agent
  <2>2. QED
    BY <1>1, <2>1, ChannelQuiet, TypeParts DEF SignalAborts, TurnInv, watchdog, agent
<1>2. CASE TimerFires
  <2>1. pc # "context"
    BY <1>0, <1>2 DEF TimerFires, ChannelInv
  <2>2. RestType'
    BY <1>0, <1>2, Counters, Zenon DEF TimerFires, RestType, agent
  <2>3. CASE done
    <3>1. SharedType'
      BY <1>0, <1>2, <2>3, Zenon DEF TimerFires, SharedType, generator, channel
    <3>2. QED
      BY <1>2, <2>1, <2>2, <2>3, <3>1, ChannelQuiet, TypeParts DEF TimerFires, TurnInv
  <2>4. CASE ~done
    <3>1. <<"error">> \in Batches
      BY DEF Batches, Kinds
    <3>2. done' \in BOOLEAN /\ toolRunning' \in BOOLEAN /\ timer' \in BOOLEAN
      BY <1>0, <1>2, <2>4, ResetType DEF TimerFires, SharedType
    <3>3. Enqueue(<<"error">>)
      BY <1>2, <2>4 DEF TimerFires
    <3>4. QED
      BY <2>1, <2>2, <3>1, <3>2, <3>3, EnqueueKeeps, TypeParts
         DEF TurnInv, SharedType, NoLostWakeup
  <2>5. QED
    BY <2>3, <2>4
<1>3. QED
  BY <1>1, <1>2

LEMMA TurnStep == TurnInv /\ [Next]_vars => TurnInv'
<1> SUFFICES ASSUME TurnInv, [Next]_vars
             PROVE  TurnInv'
  OBVIOUS
<1>1. CASE UNCHANGED vars
  <2>1. SharedType /\ RestType
    BY TypeParts DEF TurnInv
  <2>2. SharedType' /\ RestType'
    BY <1>1, <2>1, Zenon
       DEF vars, SharedType, RestType, generator, channel, watchdog, agent, stops
  <2>3. QED
    BY <1>1, <2>2, ChannelQuiet, TypeParts DEF vars, TurnInv, watchdog, agent
<1>2. QED
  BY <1>1, GeneratorStep, SdkStep, StopStep DEF Next

\* The generator never awaits an event while one is queued or the agent is done
\* (pi.agent.ts:242-250 against 478-510).
THEOREM WakeupCorrect == Spec => []NoLostWakeup
<1>1. TurnInv => NoLostWakeup
  BY DEF TurnInv
<1>2. QED
  BY <1>1, TurnInit, TurnStep, PTL DEF Spec

-----------------------------------------------------------------------------
(* The turn implements EventStream *)

Phase == IF left THEN "left" ELSE IF pc \in {"cleanup", "finished"} THEN "closed" ELSE "open"

Outside == <<sent, received, Phase>>

LEMMA EnqueueSends ==
    ASSUME TurnInv, NEW e \in Batches, Enqueue(e), pc # "context"
    PROVE  Stream!Send \/ UNCHANGED Outside
<1>0. sent \in Seq(Kinds) /\ ChannelInv
  BY DEF TurnInv, TypeOK
<1>1. CASE ~Reading
  BY <1>1 DEF Enqueue, Outside, Phase, Reading
<1>2. CASE Reading
  <2>1. sent' = sent \o e /\ received' = received /\ Phase = "open" /\ Phase' = "open"
    BY <1>0, <1>2 DEF Enqueue, Phase, Reading, ChannelInv
  <2>2. \E k \in Kinds : sent' \in {Append(sent, k), Append(Append(sent, "error"), k)}
    <3>1. CASE e \in {<<k>> : k \in Kinds}
      <4>1. PICK k \in Kinds : e = <<k>>
        BY <3>1
      <4>2. QED
        BY <1>0, <2>1, <4>1, AppendIsConcat
    <3>2. CASE e \in {<<"error", k>> : k \in Kinds}
      <4>1. PICK k \in Kinds : e = <<"error", k>>
        BY <3>2
      <4>2. "error" \in Kinds /\ <<"error">> \in Seq(Kinds) /\ <<k>> \in Seq(Kinds)
        BY DEF Kinds
      <4>3. Append(sent, "error") = sent \o <<"error">> /\ Append(sent, "error") \in Seq(Kinds)
        BY <1>0, <4>2, AppendIsConcat, AppendProperties
      <4>4. Append(Append(sent, "error"), k) = (sent \o <<"error">>) \o <<k>>
        BY <4>3, AppendIsConcat
      <4>5. (sent \o <<"error">>) \o <<k>> = sent \o (<<"error">> \o <<k>>)
        BY <1>0, <4>2, ConcatAssociative
      <4>6. sent' = Append(Append(sent, "error"), k)
        BY <2>1, <4>1, <4>4, <4>5, PairConcat
      <4>7. QED
        BY <4>6
    <3>3. QED
      BY <3>1, <3>2 DEF Batches
  <2>3. QED
    BY <2>1, <2>2 DEF Stream!Send, Phase
<1>3. QED
  BY <1>1, <1>2

LEMMA OutsideQuiet == UNCHANGED <<generator, channel>> => UNCHANGED Outside
  BY DEF generator, channel, Outside, Phase

LEMMA DeliverSends ==
    ASSUME TurnInv, NEW k \in Kinds, NEW tool, Deliver(<<k>>, tool), pc # "context"
    PROVE  Stream!Send \/ UNCHANGED Outside
<1>1. <<k>> \in Batches
  BY DEF Batches
<1>2. QED
  BY <1>1, EnqueueSends, OutsideQuiet DEF Deliver

LEMMA GeneratorImplements ==
    ASSUME TurnInv, Begin \/ SessionRejects \/ Continue \/ Leave \/ Settled
    PROVE  Stream!Next \/ UNCHANGED Outside
<1>0. ChannelInv
  BY DEF TurnInv
<1>1. CASE Begin
  BY <1>0, <1>1 DEF Begin, Outside, Phase, channel
<1>2. CASE SessionRejects
  BY <1>0, <1>2 DEF SessionRejects, Stream!Next, Stream!Close, Phase, Outside, channel, ChannelInv
<1>3. CASE Continue
  <2>0. /\ pc \in {"running", "held"} /\ Reading /\ ~left /\ Phase = "open"
        /\ left' = left /\ sent' = sent
    BY <1>0, <1>3 DEF Continue, Reading, ChannelInv, Phase
  <2>1. CASE queue # <<>> /\ received' = Append(received, Head(queue)) /\ pc' = "held"
    <3>1. Stream!Receive
      BY <2>0, <2>1, TakeHead DEF Stream!Receive, Phase
    <3>2. QED
      BY <3>1 DEF Stream!Next
  <2>2. CASE pc' = "awaiting" /\ UNCHANGED <<queue, received, timer>>
    BY <2>0, <2>2 DEF Outside, Phase
  <2>3. CASE queue = <<>> /\ CleanUp /\ UNCHANGED <<queue, received>>
    <3>1. received \o <<>> = received
      BY ConcatEmptySeq DEF TurnInv, TypeOK
    <3>2. Stream!Close
      BY <1>0, <2>0, <2>3, <3>1 DEF Stream!Close, Phase, CleanUp, ChannelInv
    <3>3. QED
      BY <3>2 DEF Stream!Next
  <2>4. QED
    BY <1>3, <2>1, <2>2, <2>3 DEF Continue
<1>4. CASE Leave
  BY <1>0, <1>4 DEF Leave, CleanUp, Stream!Next, Stream!Leave, Phase, channel, ChannelInv
<1>5. CASE Settled
  BY <1>5 DEF Settled, Outside, Phase, channel
<1>6. QED
  BY <1>1, <1>2, <1>3, <1>4, <1>5

LEMMA SdkImplements ==
    ASSUME TurnInv,
           \/ Text \/ Heartbeat \/ AgentEnd \/ Resume \/ PromptResolves \/ PromptRejects
           \/ TimerFires \/ SignalAborts
           \/ \E t \in ToolCalls : ToolStart(t) \/ ToolEnd(t)
    PROVE  Stream!Next \/ UNCHANGED Outside
<1> SUFFICES Stream!Send \/ UNCHANGED Outside
  BY DEF Stream!Next
<1>1. <<"error">> \in Batches /\ <<"turnEnd">> \in Batches /\ <<"error", "turnEnd">> \in Batches
  BY DEF Batches, Kinds
<1>2. CASE Heartbeat \/ PromptResolves \/ SignalAborts
  BY <1>2, OutsideQuiet DEF Heartbeat, PromptResolves, SignalAborts
<1>3. CASE Text \/ Resume \/ \E t \in ToolCalls : ToolStart(t) \/ ToolEnd(t)
  <2>1. pc # "context"
    BY <1>3 DEF TurnInv, ChannelInv, Text, Resume, ToolStart, ToolEnd
  <2>2. QED
    BY <1>3, <2>1, DeliverSends DEF Text, Resume, ToolStart, ToolEnd, Kinds
<1>4. CASE AgentEnd
  <2>1. pc # "context"
    BY <1>4 DEF TurnInv, ChannelInv, AgentEnd
  <2>2. <<>> \o <<"turnEnd">> = <<"turnEnd">> /\ <<"error">> \o <<"turnEnd">> = <<"error", "turnEnd">>
    BY PairConcat DEF Kinds
  <2>3. CASE Reading
    <3>1. PICK errors \in {<<>>, <<"error">>} : Enqueue(errors \o <<"turnEnd">>)
      BY <1>4, <2>3 DEF AgentEnd
    <3>2. QED
      BY <1>1, <2>1, <2>2, <3>1, EnqueueSends
  <2>4. QED
    BY <1>4, <2>3, OutsideQuiet DEF AgentEnd
<1>5. CASE PromptRejects
  BY <1>1, <1>5, EnqueueSends DEF PromptRejects, TurnInv, ChannelInv
<1>6. CASE TimerFires
  <2>1. pc # "context"
    BY <1>6 DEF TimerFires, TurnInv, ChannelInv
  <2>2. QED
    BY <1>1, <1>6, <2>1, EnqueueSends, OutsideQuiet DEF TimerFires
<1>7. QED
  BY <1>2, <1>3, <1>4, <1>5, <1>6

\* Every event enqueued while the consumer reads reaches it, once and in order, before the
\* stream closes: a turn implements EventStream (pi.agent.ts:242-250, 358-375, 476-517).
THEOREM DeliveryCorrect == Spec => Delivery
<1>1. Init => Stream!Init
  BY DEF Init, Stream!Init
<1>2. TurnInv /\ [Next]_vars => [Stream!Next]_Outside
  <2>1. UNCHANGED vars => UNCHANGED Outside
    BY OutsideQuiet DEF vars
  <2>2. QED
    BY <2>1, GeneratorImplements, SdkImplements DEF Next
<1>3. QED
  BY <1>1, <1>2, TurnInit, TurnStep, PTL DEF Spec, Delivery, Stream!Spec, Outside, Phase

-----------------------------------------------------------------------------
(* The watchdog *)

\* While the generator reads, the timer is armed exactly when no tool is believed to run,
\* and a tool is believed to run only while one does; once it stopped reading, a timer
\* that is armed can no longer report anything.
WatchInv ==
    /\ pc = "context" => ~toolRunning
    /\ Reading /\ ~done => (timer <=> ~toolRunning)
    /\ Reading /\ toolRunning => tools # {}
    /\ pc \in {"cleanup", "finished"} /\ timer => done

WatchdogInv == TurnInv /\ WatchInv

\* When a callback runs, Reading does not change and the generator is past its start.
LEMMA EnqueueReads ==
    ASSUME NEW e, Enqueue(e), pc # "context", pc \in PCs
    PROVE  /\ Reading' <=> Reading
           /\ pc' # "context" /\ pc' \in PCs
           /\ pc' \in {"cleanup", "finished"} => pc' = pc
  BY DEF Enqueue, Reading, PCs

LEMMA WatchInit == Init => WatchInv
  BY DEF Init, WatchInv, Reading

LEMMA GeneratorWatch ==
    ASSUME WatchdogInv, Begin \/ SessionRejects \/ Continue \/ Leave \/ Settled
    PROVE  WatchInv'
<1>0. SharedType /\ ChannelInv /\ WatchInv
  BY TypeParts DEF WatchdogInv, TurnInv
<1>1. tools' = tools /\ toolRunning' = toolRunning /\ done' = done
  BY DEF Begin, SessionRejects, Continue, Leave, Settled, channel, watchdog, agent
<1>2. CASE Begin
  BY <1>0, <1>1, <1>2 DEF Begin, WatchInv, Reading, ChannelInv
<1>3. CASE SessionRejects
  BY <1>0, <1>1, <1>3 DEF SessionRejects, WatchInv, Reading, ChannelInv, watchdog
<1>4. CASE Continue
  <2>1. \/ pc' \in {"held", "awaiting"} /\ timer' = timer
        \/ pc' = "cleanup" /\ ~timer'
    BY <1>4 DEF Continue, CleanUp
  <2>2. pc \in {"running", "held"}
    BY <1>4 DEF Continue
  <2>3. QED
    BY <1>0, <1>1, <2>1, <2>2 DEF WatchInv, Reading
<1>5. CASE Leave
  BY <1>0, <1>1, <1>5 DEF Leave, CleanUp, WatchInv, Reading
<1>6. CASE Settled
  BY <1>0, <1>1, <1>6 DEF Settled, WatchInv, Reading, watchdog
<1>7. QED
  BY <1>2, <1>3, <1>4, <1>5, <1>6

\* A step of a callback that leaves the tools alone and sets the timer by the rule.
LEMMA QuietTools ==
    ASSUME WatchdogInv, UNCHANGED <<tools, toolRunning>>, pc # "context", pc' # "context",
           Reading' <=> Reading,
           pc' \in {"cleanup", "finished"} => pc' = pc,
           \/ done' = TRUE
           \/ done' = done /\ timer' = timer
           \/ done' = done /\ Reading /\ timer' = (~done /\ ~toolRunning)
    PROVE  WatchInv'
<1>0. SharedType /\ WatchInv
  BY TypeParts DEF WatchdogInv, TurnInv
<1>1. CASE done' = TRUE
  BY <1>0, <1>1 DEF WatchInv
<1>2. CASE done' = done /\ timer' = timer
  BY <1>0, <1>2 DEF WatchInv
<1>3. CASE done' = done /\ Reading /\ timer' = (~done /\ ~toolRunning)
  <2>1. ~done => (timer' <=> ~toolRunning')
    BY <1>3
  <2>2. pc' \notin {"cleanup", "finished"}
    BY <1>3 DEF Reading
  <2>3. QED
    BY <1>0, <1>3, <2>1, <2>2 DEF WatchInv
<1>4. QED
  BY <1>1, <1>2, <1>3

\* A tool event: the belief about tools and the set of tools change together.
LEMMA ToolWatch ==
    ASSUME WatchdogInv, NEW t \in ToolCalls, NEW k \in Kinds, pc # "context",
           \/ tools' = tools \cup {t} /\ Deliver(<<k>>, TRUE)
           \/ tools' = tools \ {t} /\ Deliver(<<k>>, FALSE)
    PROVE  WatchInv'
<1>0. SharedType /\ WatchInv
  BY TypeParts DEF WatchdogInv, TurnInv
<1>2. CASE Reading
  <2>1. Enqueue(<<k>>) /\ done' = done
    BY <1>2 DEF Deliver
  <2>2. Reading' /\ pc' # "context" /\ pc' \notin {"cleanup", "finished"}
    BY <1>0, <1>2, <2>1, EnqueueReads DEF SharedType, Reading
  <2>3. \/ tools' # {} /\ toolRunning' = TRUE /\ timer' = (~done /\ ~TRUE)
        \/ toolRunning' = FALSE /\ timer' = (~done /\ ~FALSE)
    BY <1>2 DEF Deliver, ResetIdleTimer
  <2>4. QED
    BY <2>1, <2>2, <2>3 DEF WatchInv
<1>3. CASE ~Reading
  BY <1>0, <1>3 DEF Deliver, WatchInv, Reading, generator, channel
<1>4. QED
  BY <1>2, <1>3

LEMMA SdkWatch ==
    ASSUME WatchdogInv,
           \/ Text \/ Heartbeat \/ AgentEnd \/ Resume \/ PromptResolves \/ PromptRejects
           \/ TimerFires \/ SignalAborts
    PROVE  WatchInv'
<1>0. SharedType /\ WatchInv /\ ChannelInv /\ pc \in PCs
  BY TypeParts DEF WatchdogInv, TurnInv, SharedType
<1>1. CASE SignalAborts
  BY <1>0, <1>1 DEF SignalAborts, WatchInv, Reading, generator, channel, watchdog, agent
<1>2. ASSUME Text \/ Heartbeat \/ AgentEnd \/ Resume \/ PromptResolves \/ PromptRejects \/ TimerFires
      PROVE  UNCHANGED <<tools, toolRunning>> /\ pc # "context"
  <2>1. pc # "context"
    BY <1>0, <1>2 DEF ChannelInv, Text, Heartbeat, AgentEnd, Resume, PromptResolves, PromptRejects,
       TimerFires
  <2>2. UNCHANGED <<tools, toolRunning>>
    BY <1>2 DEF Text, Heartbeat, AgentEnd, Resume, PromptResolves, PromptRejects, TimerFires, Deliver,
       watchdog, agent
  <2>3. QED
    BY <2>1, <2>2
<1>3. CASE Text
  <2>1. CASE Reading
    BY <1>0, <1>2, <1>3, <2>1, QuietTools, EnqueueReads DEF Text, Deliver, ResetIdleTimer
  <2>2. CASE ~Reading
    BY <1>0, <1>2, <1>3, <2>2, QuietTools DEF Text, Deliver, Reading, generator, channel
  <2>3. QED
    BY <2>1, <2>2
<1>30. CASE Resume
  <2>1. CASE Reading
    BY <1>0, <1>2, <1>30, <2>1, QuietTools, EnqueueReads DEF Resume, Deliver, ResetIdleTimer
  <2>2. CASE ~Reading
    BY <1>0, <1>2, <1>30, <2>2, QuietTools DEF Resume, Deliver, Reading, generator, channel
  <2>3. QED
    BY <2>1, <2>2
<1>4. CASE Heartbeat
  BY <1>0, <1>2, <1>4, QuietTools DEF Heartbeat, ResetIdleTimer, Reading, generator, channel
<1>5. CASE AgentEnd
  <2>1. CASE Reading
    BY <1>0, <1>2, <1>5, <2>1, QuietTools, EnqueueReads DEF AgentEnd
  <2>2. CASE ~Reading
    BY <1>0, <1>2, <1>5, <2>2, QuietTools DEF AgentEnd, Reading, generator, channel
  <2>3. QED
    BY <2>1, <2>2
<1>6. CASE PromptResolves
  BY <1>0, <1>2, <1>6, QuietTools DEF PromptResolves, Reading, generator, channel, watchdog
<1>7. CASE PromptRejects
  BY <1>0, <1>2, <1>7, QuietTools, EnqueueReads DEF PromptRejects
<1>8. CASE TimerFires
  <2>1. CASE done
    <3>1. done' = TRUE
      BY <1>0, <1>8, <2>1 DEF TimerFires, channel, SharedType
    <3>2. QED
      BY <1>0, <1>2, <1>8, <2>1, <3>1, QuietTools DEF TimerFires, Reading, generator
  <2>2. CASE ~done
    <3>1. Reading
      BY <1>0, <1>2, <1>8, <2>2 DEF TimerFires, WatchInv, Reading, PCs
    <3>2. Enqueue(<<"error">>) /\ timer' = (~done /\ ~toolRunning) /\ done' = done
      BY <1>8, <2>2 DEF TimerFires, ResetIdleTimer
    <3>3. QED
      BY <1>0, <1>2, <1>8, <3>1, <3>2, QuietTools, EnqueueReads
  <2>3. QED
    BY <2>1, <2>2
<1>9. QED
  BY <1>1, <1>3, <1>30, <1>4, <1>5, <1>6, <1>7, <1>8

LEMMA WatchdogStep == WatchdogInv /\ [Next]_vars => WatchdogInv'
<1> SUFFICES ASSUME WatchdogInv, [Next]_vars
             PROVE  WatchInv'
  BY TurnStep DEF WatchdogInv
<1>1. CASE UNCHANGED vars
  BY <1>1 DEF WatchdogInv, WatchInv, Reading, vars, generator, channel, watchdog, agent
<1>2. ASSUME NEW t \in ToolCalls, ToolStart(t) \/ ToolEnd(t)
      PROVE  WatchInv'
  <2>1. pc # "context"
    BY <1>2 DEF WatchdogInv, TurnInv, ChannelInv, ToolStart, ToolEnd
  <2>2. QED
    BY <1>2, <2>1, ToolWatch DEF ToolStart, ToolEnd, Kinds
<1>3. QED
  BY <1>1, <1>2, GeneratorWatch, SdkWatch DEF Next

\* The watchdog is armed whenever the consumer waits on an agent that executes no tool,
\* whatever events came and went before and whatever the caller does
\* (pi.agent.ts:207-240, 358-475).
THEOREM WatchedCorrect == Spec => []Watched
<1>1. Init => WatchdogInv
  BY TurnInit, WatchInit DEF WatchdogInv
<1>2. WatchdogInv => Watched
  BY DEF WatchdogInv, WatchInv, Watched
<1>3. QED
  BY <1>1, <1>2, WatchdogStep, PTL DEF Spec
=============================================================================
