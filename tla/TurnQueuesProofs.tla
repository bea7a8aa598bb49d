-------------------------- MODULE TurnQueuesProofs --------------------------
(***************************************************************************)
(* Theorems about the message queues of the Slack adapter, as properties   *)
(* of SideSpec for every number of messages, threads and sessions.  A      *)
(* session is active exactly while one loop drains it; its queue is empty  *)
(* when no loop does.  The agent's side is in PiAgentTurnProofs.           *)
(***************************************************************************)
EXTENDS MCTurnQueues, SequenceTheorems, TLAPS

\* The loops at work on a session, named by the message whose handler started them.
Loops(s) == {d \in Messages : drainer[d] # None /\ session[d] = s}

\* The session of a message is settled before the message joins a queue.
Settling == {"new", "resolving", "creating", "building"}

Placed == \A m \in Messages :
    /\ drainer[m] # None => stage[m] \notin Settling /\ session[m] \in Sessions
    /\ stage[m] = "building" => session[m] \in Sessions

\* A session has a loop exactly when it is active, and then one.
OneLoop == \A s \in Sessions :
    /\ s \in active <=> Loops(s) # {}
    /\ \A c, d \in Loops(s) : c = d

QueueInv == Slack!TypeOK /\ Placed /\ OneLoop /\ NoStranded

LEMMA QueueInit == Slack!Init => QueueInv
<1> SUFFICES ASSUME Slack!Init
             PROVE  QueueInv
  OBVIOUS
<1>1. Slack!TypeOK
  <2>1. <<>> \in Seq(Messages)
    OBVIOUS
  <2> QED
    BY <2>1 DEF Slack!Init, Slack!TypeOK
<1>2. Placed /\ OneLoop /\ NoStranded
  BY DEF Slack!Init, Placed, OneLoop, Loops, NoStranded, Slack!NoStranded
<1> QED
  BY <1>1, <1>2 DEF QueueInv

\* A message on its way to its queue is nobody's loop, and what happens to it changes no
\* loop, no queue and no activity.
LEMMA BeforeQueue ==
    ASSUME QueueInv, NEW m \in Messages,
           Slack!Receive(m) \/ Slack!Drop(m) \/ Slack!LookUp(m) \/ Slack!Create(m)
    PROVE  QueueInv' /\ \A s \in Sessions : Loops(s)' = Loops(s)
<1> USE DEF QueueInv, Slack!TypeOK
<1>1. /\ stage[m] \in Settling
      /\ UNCHANGED <<thread, queues, active, drainer, timedOut>>
      /\ \A n \in Messages \ {m} : session'[n] = session[n] /\ stage'[n] = stage[n]
  BY DEF Settling, Slack!Receive, Slack!Drop, Slack!LookUp, Slack!Create
<1>2. drainer[m] = None
  BY <1>1 DEF Placed
<1>3. /\ stage' \in [Messages -> {"new", "queued", "turn"} \cup Slack!Handling
                                   \cup Slack!Replying \cup Slack!Over]
      /\ session' \in [Messages -> Sessions \cup {None}]
      /\ sessionMap' \in [Threads -> Sessions \cup {None}]
  <2>1. CASE Slack!Receive(m) \/ Slack!Drop(m)
    BY <2>1 DEF Slack!Receive, Slack!Drop, Slack!Handling, Slack!Over
  <2>2. CASE Slack!LookUp(m)
    BY <2>2 DEF Slack!LookUp, Slack!Handling
  <2>3. CASE Slack!Create(m)
    BY <2>3 DEF Slack!Create, Slack!Handling
  <2> QED
    BY <2>1, <2>2, <2>3
<1>4. stage'[m] = "building" => session'[m] \in Sessions
  BY DEF Slack!Receive, Slack!Drop, Slack!LookUp, Slack!Create
<1>5. Placed'
  BY <1>1, <1>2, <1>4 DEF Placed
<1>6. \A s \in Sessions : Loops(s)' = Loops(s)
  BY <1>1, <1>2 DEF Loops
<1>7. OneLoop'
  BY <1>1, <1>6 DEF OneLoop
<1>8. NoStranded'
  BY <1>1 DEF NoStranded, Slack!NoStranded
<1> QED
  BY <1>1, <1>3, <1>5, <1>6, <1>7, <1>8

\* A message joins the queue of its session; without a loop there it starts one, with
\* itself, because the queue was empty.
LEMMA JoinsQueue ==
    ASSUME QueueInv, NEW m \in Messages, Slack!Enqueue(m)
    PROVE  /\ QueueInv'
           /\ \/ \A s \in Sessions : Loops(s)' = Loops(s)
              \/ \E s \in Sessions :
                    /\ Loops(s) = {} /\ Loops(s)' = {m}
                    /\ \A r \in Sessions \ {s} : Loops(r)' = Loops(r)
<1> USE DEF QueueInv, Slack!TypeOK
<1> DEFINE s == session[m]
<1>1. /\ stage[m] = "building" /\ s \in Sessions /\ drainer[m] = None
      /\ UNCHANGED <<thread, session, sessionMap, timedOut>>
  BY DEF Slack!Enqueue, Placed, Settling
<1>2. CASE s \in active
  <2>1. /\ queues' = [queues EXCEPT ![s] = Append(queues[s], m)]
        /\ stage' = [stage EXCEPT ![m] = "queued"]
        /\ UNCHANGED <<active, drainer>>
    BY <1>2 DEF Slack!Enqueue
  <2>2. Append(queues[s], m) \in Seq(Messages)
    BY <1>1
  <2>3. \A r \in Sessions : Loops(r)' = Loops(r)
    BY <1>1, <2>1 DEF Loops
  <2>4. Placed' /\ OneLoop'
    BY <1>1, <2>1, <2>3 DEF Placed, OneLoop, Settling
  <2>5. NoStranded'
    BY <1>2, <2>1 DEF NoStranded, Slack!NoStranded
  <2>6. Slack!TypeOK'
    BY <1>1, <2>1, <2>2
  <2> QED
    BY <2>3, <2>4, <2>5, <2>6
<1>3. CASE s \notin active
  <2>1. queues[s] = <<>>
    BY <1>1, <1>3 DEF NoStranded, Slack!NoStranded
  <2>2. /\ Append(queues[s], m) = <<m>> /\ Head(<<m>>) = m /\ Tail(<<m>>) = <<>>
        /\ <<>> \in Seq(Messages)
    BY <2>1
  <2>3. /\ active' = active \cup {s} /\ queues' = [queues EXCEPT ![s] = <<>>]
        /\ drainer' = [drainer EXCEPT ![m] = m]
        /\ stage' = [stage EXCEPT ![m] = "turn"]
    BY <1>3, <2>2 DEF Slack!Enqueue
  <2>4. Loops(s) = {} /\ m # None
    BY <1>1, <1>3, QueueAssumption DEF OneLoop
  <2>5. Loops(s)' = {m} /\ \A r \in Sessions \ {s} : Loops(r)' = Loops(r)
    BY <1>1, <2>3, <2>4 DEF Loops
  <2>6. Placed'
    BY <1>1, <2>3, <2>4 DEF Placed, Settling
  <2>7. OneLoop'
    <3> SUFFICES ASSUME NEW r \in Sessions
                 PROVE  (r \in active' <=> Loops(r)' # {}) /\ \A c, e \in Loops(r)' : c = e
      BY DEF OneLoop
    <3>1. CASE r = s
      <4>1. Loops(r)' = {m} /\ r \in active'
        BY <1>1, <2>3, <2>5, <3>1
      <4> QED
        BY <4>1
    <3>2. CASE r # s
      <4>1. Loops(r)' = Loops(r) /\ (r \in active' <=> r \in active)
        BY <2>3, <2>5, <3>2
      <4> QED
        BY <4>1 DEF OneLoop
    <3> QED
      BY <3>1, <3>2
  <2>8. NoStranded'
    BY <2>3 DEF NoStranded, Slack!NoStranded
  <2>9. Slack!TypeOK'
    BY <1>1, <2>2, <2>3
  <2> QED
    BY <1>1, <2>4, <2>5, <2>6, <2>7, <2>8, <2>9
<1> QED
  BY <1>2, <1>3

\* Replies and timeouts leave loops, queues and sessions alone.
LEMMA RepliesKeep ==
    ASSUME QueueInv, NEW m \in Messages,
           \/ Slack!TimeoutFires(m) \/ Slack!TurnEnds(m) \/ Slack!TurnThrows(m)
           \/ Slack!SayFails(m)
    PROVE  QueueInv' /\ \A s \in Sessions : Loops(s)' = Loops(s)
<1> USE DEF QueueInv, Slack!TypeOK
<1>1. /\ UNCHANGED <<thread, session, sessionMap, queues, active, drainer>>
      /\ timedOut' \subseteq Messages
  BY DEF Slack!TimeoutFires, Slack!TurnEnds, Slack!TurnThrows, Slack!SayFails, Slack!Say
<1>2. /\ stage' \in [Messages -> {"new", "queued", "turn"} \cup Slack!Handling
                                   \cup Slack!Replying \cup Slack!Over]
      /\ \A n \in Messages : stage'[n] \in Settling => stage'[n] = stage[n]
  BY DEF Slack!TimeoutFires, Slack!TurnEnds, Slack!TurnThrows, Slack!SayFails, Slack!Say,
         Slack!Replying, Settling
<1>3. Placed'
  BY <1>1, <1>2 DEF Placed, Settling
<1>4. \A s \in Sessions : Loops(s)' = Loops(s)
  BY <1>1 DEF Loops
<1>5. OneLoop' /\ NoStranded'
  BY <1>1, <1>4 DEF OneLoop, NoStranded, Slack!NoStranded
<1> QED
  BY <1>1, <1>2, <1>3, <1>4, <1>5

\* A loop takes its next message or, the queue being empty, ends and frees the session.
LEMMA LoopGoesOn ==
    ASSUME QueueInv, NEW d \in Messages, Slack!Processed(d)
    PROVE  /\ QueueInv'
           /\ \/ \A s \in Sessions : Loops(s)' = Loops(s)
              \/ \E s \in Sessions :
                    /\ Loops(s) # {} /\ Loops(s)' = {}
                    /\ \A r \in Sessions \ {s} : Loops(r)' = Loops(r)
<1> USE DEF QueueInv, Slack!TypeOK
<1> DEFINE m == drainer[d]
           s == session[d]
<1>1. /\ m # None /\ m \in Messages /\ s \in Sessions /\ d \in Loops(s) /\ s \in active
      /\ UNCHANGED <<thread, session, sessionMap, timedOut>>
  BY DEF Slack!Processed, Placed, Loops, OneLoop
<1>2. PICK over \in {"answered", "unanswered"} : Slack!NextMessage(d, over)
  BY DEF Slack!Processed
<1>3. CASE /\ queues[s] # <<>>
           /\ queues' = [queues EXCEPT ![s] = Tail(@)]
           /\ drainer' = [drainer EXCEPT ![d] = Head(queues[s])]
           /\ stage' = [stage EXCEPT ![m] = over, ![Head(queues[s])] = "turn"]
           /\ UNCHANGED active
  <2>1. Head(queues[s]) \in Messages /\ Tail(queues[s]) \in Seq(Messages)
    BY <1>1, <1>3
  <2>2. Head(queues[s]) # None
    BY <2>1, QueueAssumption
  <2>3. \A r \in Sessions : Loops(r)' = Loops(r)
    BY <1>1, <1>3, <2>2 DEF Loops
  <2>4. /\ stage' \in [Messages -> {"new", "queued", "turn"} \cup Slack!Handling
                                     \cup Slack!Replying \cup Slack!Over]
        /\ \A n \in Messages : stage'[n] \in Settling => stage'[n] = stage[n]
    BY <1>1, <1>3, <2>1 DEF Settling, Slack!Over
  <2>5. Placed'
    BY <1>1, <1>3, <2>4 DEF Placed, Settling
  <2>6. OneLoop'
    BY <1>3, <2>3 DEF OneLoop
  <2>7. NoStranded'
    BY <1>1, <1>3 DEF NoStranded, Slack!NoStranded
  <2>8. Slack!TypeOK'
    BY <1>1, <1>3, <2>1, <2>4
  <2> QED
    BY <2>3, <2>5, <2>6, <2>7, <2>8
<1>4. CASE /\ queues[s] = <<>>
           /\ stage' = [stage EXCEPT ![m] = over]
           /\ drainer' = [drainer EXCEPT ![d] = None]
           /\ active' = active \ {s}
           /\ UNCHANGED queues
  <2>1. Loops(s) = {d}
    BY <1>1 DEF OneLoop
  <2>2. Loops(s)' = {} /\ \A r \in Sessions \ {s} : Loops(r)' = Loops(r)
    BY <1>1, <1>4, <2>1 DEF Loops
  <2>3. /\ stage' \in [Messages -> {"new", "queued", "turn"} \cup Slack!Handling
                                     \cup Slack!Replying \cup Slack!Over]
        /\ \A n \in Messages : stage'[n] \in Settling => stage'[n] = stage[n]
    BY <1>1, <1>4 DEF Settling, Slack!Over
  <2>4. Placed'
    BY <1>1, <1>4, <2>3 DEF Placed, Settling
  <2>5. OneLoop'
    BY <1>1, <1>4, <2>2 DEF OneLoop
  <2>6. NoStranded'
    BY <1>4 DEF NoStranded, Slack!NoStranded
  <2>7. Slack!TypeOK'
    BY <1>1, <1>4, <2>3
  <2> QED
    BY <1>1, <2>1, <2>2, <2>4, <2>5, <2>6, <2>7
<1> QED
  BY <1>2, <1>3, <1>4 DEF Slack!NextMessage

\* What a step does to the loops of a session: none, one starts where none was, or the
\* one there ends.
Locks ==
    \/ \A s \in Sessions : Loops(s)' = Loops(s)
    \/ \E s \in Sessions :
          /\ \A r \in Sessions \ {s} : Loops(r)' = Loops(r)
          /\ \/ Loops(s) = {} /\ \E m \in Messages : Loops(s)' = {m}
             \/ Loops(s) # {} /\ Loops(s)' = {}

LEMMA QueueStep ==
    ASSUME QueueInv, [Slack!Next]_slackVars
    PROVE  QueueInv' /\ Locks
<1>1. ASSUME NEW m \in Messages,
             Slack!Receive(m) \/ Slack!Drop(m) \/ Slack!LookUp(m) \/ Slack!Create(m)
      PROVE  QueueInv' /\ Locks
  BY <1>1, BeforeQueue DEF Locks
<1>2. ASSUME NEW m \in Messages, Slack!Enqueue(m)
      PROVE  QueueInv' /\ Locks
  BY <1>2, JoinsQueue DEF Locks
<1>3. ASSUME NEW m \in Messages,
             \/ Slack!TimeoutFires(m) \/ Slack!TurnEnds(m) \/ Slack!TurnThrows(m)
             \/ Slack!SayFails(m)
      PROVE  QueueInv' /\ Locks
  BY <1>3, RepliesKeep DEF Locks
<1>4. ASSUME NEW d \in Messages, Slack!Processed(d)
      PROVE  QueueInv' /\ Locks
  BY <1>4, LoopGoesOn DEF Locks
<1>5. CASE UNCHANGED slackVars
  BY <1>5 DEF slackVars, QueueInv, Slack!TypeOK, Placed, OneLoop, NoStranded,
              Slack!NoStranded, Loops, Locks
<1>6. CASE Slack!Finished
  BY <1>5, <1>6 DEF Slack!Finished, Slack!vars, slackVars
<1> QED
  BY <1>1, <1>2, <1>3, <1>4, <1>5, <1>6 DEF Slack!Next

LEMMA QueueInvariant == SideSpec => []QueueInv
<1>1. SideInit => QueueInv
  BY QueueInit DEF SideInit
<1>2. QueueInv /\ [SideNext]_sideVars => QueueInv'
  BY QueueStep DEF SideNext, sideVars, slackVars
<1> QED
  BY <1>1, <1>2, PTL DEF SideSpec

\* A message that joins a queue has a loop to take it: the handler that pushes calls
\* drainQueue, and the loop looks at the queue again in the step that releases the
\* session (index.ts:650-676).
THEOREM NoStrandedCorrect == SideSpec => []NoStranded
<1>1. QueueInv => NoStranded
  BY DEF QueueInv
<1> QED
  BY <1>1, QueueInvariant, PTL

\* activeSessions implements the keyed mutex: the loops of a session exclude each other.
THEOREM OneTurnCorrect == SideSpec => OneTurnPerSession
<1> DEFINE held == [s \in Sessions |-> Loops(s)]
<1>1. SideInit => Slack!Turns!Init
  BY DEF SideInit, Slack!Init, Slack!Turns!Init
<1>2. QueueInv /\ [SideNext]_sideVars => [Slack!Turns!Next]_held
  <2> SUFFICES ASSUME QueueInv, [SideNext]_sideVars
               PROVE  [Slack!Turns!Next]_held
    OBVIOUS
  <2>1. Locks
    BY QueueStep DEF SideNext, sideVars, slackVars
  <2>2. CASE \A s \in Sessions : Loops(s)' = Loops(s)
    BY <2>2
  <2>3. ASSUME NEW s \in Sessions, \A r \in Sessions \ {s} : Loops(r)' = Loops(r),
               NEW m \in Messages, Loops(s) = {}, Loops(s)' = {m}
        PROVE  held[s] = {} /\ held' = [held EXCEPT ![s] = {m}]
    BY <2>3
  <2>4. ASSUME NEW s \in Sessions, \A r \in Sessions \ {s} : Loops(r)' = Loops(r),
               Loops(s) # {}, Loops(s)' = {}
        PROVE  held[s] # {} /\ held' = [held EXCEPT ![s] = {}]
    BY <2>4
  <2> QED
    BY <2>1, <2>2, <2>3, <2>4
       DEF Locks, Loops, Slack!Turns!Next, Slack!Turns!Acquire, Slack!Turns!Release
<1> QED
  BY <1>1, <1>2, QueueInvariant, PTL
     DEF SideSpec, OneTurnPerSession, Slack!OneTurnPerSession, Slack!Turns!Spec, Loops
=============================================================================
