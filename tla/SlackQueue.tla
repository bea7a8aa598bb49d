----------------------------- MODULE SlackQueue -----------------------------
(***************************************************************************)
(* packages/adapters/slack/src/index.ts: inbound Slack messages become     *)
(* turns of the session of their thread.  A handler runs per message up to *)
(* its place in the session's queue; one of them then drains the queue.    *)
(* The gateway session manager and the Slack API are external.             *)
(***************************************************************************)
EXTENDS Naturals, Sequences

CONSTANTS
    Messages,       \* inbound messages with text, not from a bot
    Threads,        \* channel and thread_ts
    Sessions,       \* ids the session manager hands out
    TurnTimeoutEnv, \* the number in the environment variable SLACK_TURN_TIMEOUT_MS
    None

VARIABLES
    thread,      \* [Messages -> Threads], fixed
    stage,       \* [Messages -> how far the message is]
    session,     \* [Messages -> its sessionId]
    sessionMap,  \* [Threads -> session]
    queues,      \* messageQueues: [Sessions -> Seq(Messages)]
    active,      \* activeSessions
    drainer,     \* [Messages -> what the drainQueue its handler started processes]
    timedOut     \* messages whose turn's signal has fired

vars == <<thread, stage, session, sessionMap, queues, active, drainer, timedOut>>

Handling == {"resolving", "creating", "building"}
Replying == {"reply", "timeoutReply", "errorReply"}
Over     == {"answered", "unanswered", "dropped"}

TypeOK ==
    /\ thread \in [Messages -> Threads]
    /\ stage \in [Messages -> {"new", "queued", "turn"} \cup Handling \cup Replying \cup Over]
    /\ session \in [Messages -> Sessions \cup {None}]
    /\ sessionMap \in [Threads -> Sessions \cup {None}]
    /\ queues \in [Sessions -> Seq(Messages)]
    /\ active \subseteq Sessions
    /\ drainer \in [Messages -> Messages \cup {None}]
    /\ timedOut \subseteq Messages

Init ==
    /\ thread \in [Messages -> Threads]
    /\ stage = [m \in Messages |-> "new"]
    /\ session = [m \in Messages |-> None]
    /\ sessionMap = [t \in Threads |-> None]
    /\ queues = [s \in Sessions |-> <<>>]
    /\ active = {}
    /\ drainer = [m \in Messages |-> None]
    /\ timedOut = {}

\* Number(process.env.SLACK_TURN_TIMEOUT_MS) || 120_000
TurnTimeout == IF TurnTimeoutEnv = 0 THEN 120000 ELSE TurnTimeoutEnv

-----------------------------------------------------------------------------
(* handleMessage *)

Receive(m) ==
    /\ stage[m] = "new"
    /\ stage' = [stage EXCEPT ![m] = "resolving"]
    /\ UNCHANGED <<thread, session, sessionMap, queues, active, drainer, timedOut>>

\* The Slack user is unknown here, or creating the session fails: no turn.
Drop(m) ==
    /\ stage[m] \in {"resolving", "creating"}
    /\ stage' = [stage EXCEPT ![m] = "dropped"]
    /\ UNCHANGED <<thread, session, sessionMap, queues, active, drainer, timedOut>>

\* The user is known: getOrCreateSession looks for the thread's session.
LookUp(m) ==
    LET s == sessionMap[thread[m]] IN
    /\ stage[m] = "resolving"
    /\ stage' = [stage EXCEPT ![m] = IF s = None THEN "creating" ELSE "building"]
    /\ session' = [session EXCEPT ![m] = s]
    /\ UNCHANGED <<thread, sessionMap, queues, active, drainer, timedOut>>

\* createSession resolves with a fresh session; the map takes it, whatever it holds now.
Create(m) ==
    /\ stage[m] = "creating"
    /\ \E s \in Sessions \ {session[n] : n \in Messages} :
         /\ session' = [session EXCEPT ![m] = s]
         /\ sessionMap' = [sessionMap EXCEPT ![thread[m]] = s]
    /\ stage' = [stage EXCEPT ![m] = "building"]
    /\ UNCHANGED <<thread, queues, active, drainer, timedOut>>

\* Mutant: drainQueue does not look at activeSessions.
EnqueueUnguarded(m) ==
    LET s == session[m] IN
    /\ stage[m] = "building"
    /\ active' = active \cup {s}
    /\ LET queue == Append(queues[s], m) IN
       /\ queues' = [queues EXCEPT ![s] = Tail(queue)]
       /\ drainer' = [drainer EXCEPT ![m] = Head(queue)]
       /\ stage' = [stage EXCEPT ![m] = "queued", ![Head(queue)] = "turn"]
    /\ UNCHANGED <<thread, session, sessionMap, timedOut>>

\* The context is built: the message joins the queue, and drainQueue starts unless the
\* session is being drained, up to its first await: sendMessage for the queue's head.
Enqueue(m) ==
    LET s     == session[m]
        queue == Append(queues[s], m)
    IN
    /\ stage[m] = "building"
    /\ \/ /\ s \in active
          /\ queues' = [queues EXCEPT ![s] = queue]
          /\ stage' = [stage EXCEPT ![m] = "queued"]
          /\ UNCHANGED <<active, drainer>>
       \/ /\ s \notin active
          /\ active' = active \cup {s}
          /\ queues' = [queues EXCEPT ![s] = Tail(queue)]
          /\ drainer' = [drainer EXCEPT ![m] = Head(queue)]
          /\ stage' = [stage EXCEPT ![m] = "queued", ![Head(queue)] = "turn"]
    /\ UNCHANGED <<thread, session, sessionMap, timedOut>>

-----------------------------------------------------------------------------
(* drainQueue and processMessage, in the loop that d's handler started *)

\* SLACK_TURN_TIMEOUT_MS passed; the timer is cleared only when processMessage ends.
TimeoutFires(m) ==
    /\ stage[m] \in {"turn", "reply", "timeoutReply"}
    /\ TurnTimeout > 0
    /\ timedOut' = timedOut \cup {m}
    /\ UNCHANGED <<thread, stage, session, sessionMap, queues, active, drainer>>

Say(m, next) ==
    /\ stage' = [stage EXCEPT ![m] = next]
    /\ UNCHANGED <<thread, session, sessionMap, queues, active, drainer, timedOut>>

\* The event stream ends, or yields an error event: post what there is to post.
TurnEnds(d) ==
    LET m == drainer[d] IN
    /\ m # None /\ stage[m] = "turn"
    /\ Say(m, "reply")

\* sendMessage throws: after a timeout processMessage reports it, else drainQueue does.
TurnThrows(d) ==
    LET m == drainer[d] IN
    /\ m # None /\ stage[m] = "turn"
    /\ Say(m, IF m \in timedOut THEN "timeoutReply" ELSE "errorReply")

\* say rejects: one more attempt per catch block on the way out.
SayFails(d) ==
    LET m == drainer[d] IN
    /\ m # None /\ stage[m] \in {"reply", "timeoutReply"}
    /\ Say(m, IF stage[m] = "reply" /\ m \in timedOut THEN "timeoutReply" ELSE "errorReply")

\* Mutant: the loop handles one message.
NextMessageOnce(d, over) ==
    LET m == drainer[d] IN
    /\ stage' = [stage EXCEPT ![m] = over]
    /\ drainer' = [drainer EXCEPT ![d] = None]
    /\ active' = active \ {session[d]}
    /\ UNCHANGED queues

\* processMessage is over: take the next message, or leave the loop and release the
\* session.
NextMessage(d, over) ==
    LET m == drainer[d]
        s == session[d]
    IN
    \/ /\ queues[s] # <<>>
       /\ queues' = [queues EXCEPT ![s] = Tail(@)]
       /\ drainer' = [drainer EXCEPT ![d] = Head(queues[s])]
       /\ stage' = [stage EXCEPT ![m] = over, ![Head(queues[s])] = "turn"]
       /\ UNCHANGED active
    \/ /\ queues[s] = <<>>
       /\ stage' = [stage EXCEPT ![m] = over]
       /\ drainer' = [drainer EXCEPT ![d] = None]
       /\ active' = active \ {s}
       /\ UNCHANGED queues

\* Mutant: an error reply that Slack refuses ends the loop, the session stays busy.
ProcessedKeepsBusy(d) ==
    LET m == drainer[d] IN
    /\ m # None
    /\ \/ stage[m] \in Replying /\ NextMessage(d, "answered")
       \/ /\ stage[m] = "errorReply"
          /\ stage' = [stage EXCEPT ![m] = "unanswered"]
          /\ drainer' = [drainer EXCEPT ![d] = None]
          /\ UNCHANGED <<queues, active>>
    /\ UNCHANGED <<thread, session, sessionMap, timedOut>>

\* A reply was posted, or even the last attempt rejected (which is only logged).
Processed(d) ==
    LET m == drainer[d] IN
    /\ m # None
    /\ \/ stage[m] \in Replying /\ NextMessage(d, "answered")
       \/ stage[m] = "errorReply" /\ NextMessage(d, "unanswered")
    /\ UNCHANGED <<thread, session, sessionMap, timedOut>>

Finished ==
    /\ \A m \in Messages : stage[m] \in Over
    /\ UNCHANGED vars

Next ==
    \/ \E m \in Messages :
         \/ Receive(m) \/ Drop(m) \/ LookUp(m) \/ Create(m) \/ Enqueue(m) \/ TimeoutFires(m)
         \/ TurnEnds(m) \/ TurnThrows(m) \/ SayFails(m) \/ Processed(m)
    \/ Finished

Spec == Init /\ [][Next]_vars

\* Awaited calls of the handlers settle, replies settle, the timer fires, and a turn
\* whose signal has fired ends.  The agent owes nothing before.
Fairness ==
    \A m \in Messages :
        /\ WF_vars(LookUp(m) \/ Create(m) \/ Enqueue(m))
        /\ WF_vars(TimeoutFires(m))
        /\ WF_vars(drainer[m] \in timedOut /\ TurnEnds(m))
        /\ WF_vars(Processed(m))

FairSpec == Spec /\ Fairness

-----------------------------------------------------------------------------
(* Properties *)

Turns == INSTANCE KeyedMutex WITH
    Keys    <- Sessions,
    Agents  <- Messages,
    holders <- [s \in Sessions |->
                   {d \in Messages : drainer[d] # None /\ session[d] = s}]

\* "Messages are processed sequentially per session" (index.ts:235): the guard of
\* drainQueue (652) implements mutual exclusion of the loops of a session.
OneTurnPerSession == Turns!Spec

\* No message waits in the queue of a session nobody drains: each handler calls
\* drainQueue after its push, and the loop looks again before it releases the session.
NoStranded == \A s \in Sessions : s \notin active => queues[s] = <<>>

\* Every queued message is processed, although replies may be refused, turns may hang
\* until the timeout and the loop that takes it belongs to another message.
Answered ==
    \A m \in Messages : stage[m] \in {"queued", "turn"} ~> stage[m] \in {"answered", "unanswered"}

\* "Maps Slack threads (channel + thread_ts) to orchestrator sessions" (index.ts:231):
\* the messages of a thread share one session.
OneSessionPerThread ==
    \A m, n \in Messages :
        /\ thread[m] = thread[n]
        /\ session[m] # None /\ session[n] # None
        => session[m] = session[n]
=============================================================================
