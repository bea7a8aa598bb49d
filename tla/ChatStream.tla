----------------------------- MODULE ChatStream -----------------------------
(***************************************************************************)
(* apps/web .../chat-view/hooks/use-chat-stream.ts on top of the gateway's *)
(* ws.ts: each view of a conversation submits messages, one WebSocket per  *)
(* submission, queues what is typed while a reply streams, and stops the   *)
(* reply.  Frames travel in order on a socket, sockets are independent,    *)
(* and a connection may be lost at any time.                               *)
(***************************************************************************)
EXTENDS GatewayTurns, Sequences, Integers

CONSTANT MaxQueue  \* bound: messages queued in a view

VARIABLES
    calls,      \* [Sockets -> the handlesubmit invocation that uses the socket]
    ready,      \* [Sockets -> readyState at the client]
    up,         \* [Sockets -> frames on their way to the gateway]
    down,       \* sockets with a turn_end on its way to the client
    mute,       \* sockets whose turn ended without a turn_end
    wsRef,      \* [Sessions -> socket in the view's wsRef]
    streaming,  \* views whose `streaming` is true
    queue,      \* [Sessions -> length of queuedRef]
    segs,       \* [Sessions -> submissions with segments in segmentsRef]
    changed,    \* conversations that a save has changed since the view's last fetch
    due,        \* views whose drain effect has to run
    ended       \* history: views whose streaming ended after the last drained message

view   == <<wsRef, streaming, queue, segs, changed, due, ended>>
wire   == <<ready, up, down, mute>>
webVars == <<vars, calls, view, wire>>

NoCall == [view |-> None, pc |-> "none", crowded |-> FALSE]
Call   == [view: Sessions \cup {None}, pc: {"none", "saving", "streaming", "storing", "done"},
           crowded: BOOLEAN]

WebTypeOK ==
    /\ TypeOK
    /\ calls \in [Sockets -> Call]
    /\ ready \in [Sockets -> {"closed", "connecting", "open", "closing"}]
    /\ up \in [Sockets -> Seq([type: {"message", "cancel"}, sessionId: Sessions])]
    /\ down \subseteq Sockets /\ mute \subseteq Sockets
    /\ wsRef \in [Sessions -> Sockets \cup {None}]
    /\ queue \in [Sessions -> 0 .. MaxQueue]
    /\ segs \in [Sessions -> SUBSET Sockets]
    /\ streaming \subseteq Sessions /\ changed \subseteq Sessions /\ due \subseteq Sessions
    /\ ended \subseteq Sessions

WebInit ==
    /\ Init
    /\ calls = [w \in Sockets |-> NoCall]
    /\ ready = [w \in Sockets |-> "closed"]
    /\ up = [w \in Sockets |-> <<>>]
    /\ down = {} /\ mute = {}
    /\ wsRef = [v \in Sessions |-> None]
    /\ queue = [v \in Sessions |-> 0]
    /\ segs = [v \in Sessions |-> {}]
    /\ streaming = {} /\ changed = {} /\ due = {} /\ ended = {}

-----------------------------------------------------------------------------

InView(v)  == {w \in Sockets : calls[w].view = v}

\* A socket object that no submission and no gateway handler uses.
Unused(w) ==
    /\ calls[w] = NoCall /\ w \notin open /\ up[w] = <<>>
    /\ \A t \in Turns : turns[t].socket # w

\* ws.readyState of the socket that the view can reach.
Reaches(v) == wsRef[v] # None /\ ready[wsRef[v]] = "open"

\* The effect's dependencies have changed; it has something to do when messages wait.
EffectDue(v) == IF queue[v] > 0 THEN due \cup {v} ELSE due

\* The calls after the one of w has gone to step pc; the record goes with the last of
\* the two, submission and socket.
At(w, pc, state) ==
    [calls EXCEPT ![w] = IF pc = "done" /\ state = "closed" THEN NoCall
                         ELSE [@ EXCEPT !.pc = pc]]

\* handlesubmit when nothing streams: show the message, start saving it.
StartCall(v, w) ==
    /\ Unused(w)
    /\ calls' = [calls EXCEPT ![w] = [view |-> v, pc |-> "saving", crowded |-> FALSE]]
    /\ mute' = mute \ {w}

\* Mutant: the effect does not depend on `streaming`.
StopStreamingSilently(v) ==
    /\ streaming' = streaming \ {v}
    /\ ended' = ended \cup {v}
    /\ UNCHANGED due

\* setStreaming(false) and the end of handlesubmit.
StopStreaming(v) ==
    /\ streaming' = streaming \ {v}
    /\ due' = EffectDue(v)
    /\ ended' = ended \cup {v}

\* Mutant: the segments of the turn before stay.
StartStreamingUncleared(v) ==
    /\ streaming' = streaming \cup {v}
    /\ UNCHANGED segs

\* setStreaming(true) and the resets.
StartStreaming(v) ==
    /\ streaming' = streaming \cup {v}
    /\ segs' = [segs EXCEPT ![v] = {}]

\* Mutant: the socket is not stored.
NewSocketUnheld(v, w) ==
    /\ ready' = [ready EXCEPT ![w] = "connecting"]
    /\ UNCHANGED wsRef

NewSocket(v, w) ==
    /\ ready' = [ready EXCEPT ![w] = "connecting"]
    /\ wsRef' = [wsRef EXCEPT ![v] = w]

-----------------------------------------------------------------------------
(* The view.  React runs an effect that is due before the next event. *)

Submit(v, w) ==
    /\ v \notin streaming /\ due = {}
    /\ StartCall(v, w)
    /\ UNCHANGED <<vars, view, ready, up, down>>

\* A message typed while a reply streams; without an open socket it is dropped.
Enqueue(v) ==
    /\ v \in streaming /\ due = {} /\ Reaches(v) /\ queue[v] < MaxQueue
    /\ queue' = [queue EXCEPT ![v] = @ + 1]
    /\ UNCHANGED <<vars, calls, wire, wsRef, streaming, segs, changed, due, ended>>

\* "/btw": the gateway hands it to the agent, the view adds a segment.
Steer(v) ==
    /\ v \in streaming /\ due = {} /\ Reaches(v)
    /\ segs' = [segs EXCEPT ![v] = @ \cup {wsRef[v]}]
    /\ UNCHANGED <<vars, calls, wire, wsRef, streaming, queue, changed, due, ended>>

\* The stop button, whether the reply still streams or is being saved.
HandleCancel(v) ==
    /\ due = {} /\ Reaches(v)
    /\ up' = [up EXCEPT ![wsRef[v]] = Append(@, [type |-> "cancel", sessionId |-> v])]
    /\ ready' = [ready EXCEPT ![wsRef[v]] = "closing"]
    /\ queue' = [queue EXCEPT ![v] = 0]
    /\ UNCHANGED <<vars, calls, down, mute, wsRef, streaming, segs, changed, due, ended>>

\* The drain effect: take one message off the queue and submit it.
Drain(v, w) ==
    /\ v \in due \ streaming /\ queue[v] > 0
    /\ queue' = [queue EXCEPT ![v] = @ - 1]
    /\ due' = due \ {v}
    /\ ended' = ended \ {v}
    /\ StartCall(v, w)
    /\ UNCHANGED <<vars, ready, up, down, wsRef, streaming, segs, changed>>

\* It runs with nothing to do.
DrainNothing(v) ==
    /\ v \in due
    /\ v \in streaming \/ queue[v] = 0
    /\ due' = due \ {v}
    /\ UNCHANGED <<vars, calls, wire, wsRef, streaming, queue, segs, changed, ended>>

\* A refetch (invalidateQueries, window focus) returns a conversation with another
\* updatedat: handlesubmit is another function, so the effect runs again.
Refetched(v) ==
    /\ v \in changed
    /\ changed' = changed \ {v}
    /\ due' = EffectDue(v)
    /\ UNCHANGED <<vars, calls, wire, wsRef, streaming, queue, segs, ended>>

\* The user's message is saved, or the save fails: open a socket for the reply.  The
\* conversation has an agent participant.
Saved(w) ==
    LET v == calls[w].view
        others == {u \in InView(v) \ {w} : calls[u].pc # "saving"}
    IN
    /\ calls[w].pc = "saving"
    /\ changed' \in {changed, changed \cup {v}}
    /\ StartStreaming(v)
    /\ NewSocket(v, w)
    /\ calls' = [u \in Sockets |->
                   IF u = w THEN [view |-> v, pc |-> "streaming", crowded |-> others # {}]
                   ELSE IF u \in others THEN [calls[u] EXCEPT !.crowded = TRUE]
                   ELSE calls[u]]
    /\ UNCHANGED <<vars, up, down, mute, queue, due, ended>>

\* The agent's reply is saved (or not).
Stored(w) ==
    LET v == calls[w].view IN
    /\ calls[w].pc = "storing"
    /\ changed' \in {changed, changed \cup {v}}
    /\ calls' = At(w, "done", ready[w])
    /\ StopStreaming(v)
    /\ UNCHANGED <<vars, wire, wsRef, queue, segs>>

-----------------------------------------------------------------------------
(* The sockets *)

OnOpen(w) ==
    /\ ready[w] = "connecting" /\ w \in open
    /\ ready' = [ready EXCEPT ![w] = "open"]
    /\ up' = [up EXCEPT ![w] = Append(@, [type |-> "message", sessionId |-> calls[w].view])]
    /\ UNCHANGED <<vars, calls, view, down, mute>>

\* message_update, tool and file events of a turn reach the view.
OnUpdate(w, t) ==
    /\ ready[w] = "open" /\ calls[w].pc = "streaming" /\ turns[t].socket = w
    /\ segs' = [segs EXCEPT ![calls[w].view] = @ \cup {w}]
    /\ UNCHANGED <<vars, calls, wire, wsRef, streaming, queue, changed, due, ended>>

OnTurnEnd(w) ==
    /\ ready[w] = "open" /\ w \in down
    /\ ready' = [ready EXCEPT ![w] = "closing"]
    /\ down' = down \ {w}
    /\ calls' = At(w, "storing", "closing")
    /\ UNCHANGED <<vars, view, up, mute>>

\* onclose, after the gateway has closed its side: the promise is resolved if it was not.
OnClose(w) ==
    LET pc == IF calls[w].pc = "streaming" THEN "storing" ELSE calls[w].pc IN
    /\ ready[w] = "closing" /\ w \notin open
    /\ ready' = [ready EXCEPT ![w] = "closed"]
    /\ wsRef' = [wsRef EXCEPT ![calls[w].view] = None]
    /\ calls' = At(w, pc, "closed")
    /\ UNCHANGED <<vars, up, down, mute, streaming, queue, segs, changed, due, ended>>

\* The connection is refused or lost, with or without the frames still under way:
\* onerror rejects, or onclose resolves.
Lost(w) ==
    LET v == calls[w].view IN
    /\ ready[w] \in {"connecting", "open"}
    /\ ready' = [ready EXCEPT ![w] = "closed"]
    /\ up' \in {up, [up EXCEPT ![w] = <<>>]}
    /\ down' = down \ {w}
    /\ wsRef' = [wsRef EXCEPT ![v] = None]
    /\ \/ /\ calls' = At(w, "done", "closed")
          /\ StopStreaming(v)
       \/ /\ ready[w] = "open"
          /\ calls' = At(w, "storing", "closed")
          /\ UNCHANGED <<streaming, due, ended>>
    /\ UNCHANGED <<vars, mute, queue, segs, changed>>

-----------------------------------------------------------------------------
(* The gateway *)

Accept(w) ==
    /\ ready[w] = "connecting"
    /\ Connect(w)
    /\ UNCHANGED <<calls, view, wire>>

\* The next frame: a message starts a turn in slot t.
Deliver(w, t) ==
    /\ up[w] # <<>>
    /\ up' = [up EXCEPT ![w] = Tail(@)]
    /\ \/ Head(up[w]).type = "message" /\ Message(w, Head(up[w]).sessionId, t)
       \/ Head(up[w]).type = "cancel"  /\ Cancel(w, Head(up[w]).sessionId)
    /\ UNCHANGED <<calls, view, ready, down, mute>>

\* The close frame, or the loss of the connection, after all frames that arrive.
Hangup(w) ==
    /\ ready[w] \in {"closing", "closed"} /\ up[w] = <<>>
    /\ Close(w)
    /\ down' = down \ {w}
    /\ UNCHANGED <<calls, view, ready, up, mute>>

\* A turn's stream ends, with turn_end as its last event or without (errors, aborts).
StreamEnds(t) ==
    LET w == turns[t].socket IN
    /\ TurnEnds(t)
    /\ \/ down' = (IF w \in open THEN down \cup {w} ELSE down) /\ UNCHANGED mute
       \/ mute' = mute \cup {w} /\ UNCHANGED down
    /\ UNCHANGED <<calls, view, ready, up>>

-----------------------------------------------------------------------------

UserStep(v) ==
    \/ Enqueue(v) \/ Steer(v) \/ HandleCancel(v) \/ \E w \in Sockets : Submit(v, w)

Progress(w) ==
    \/ Saved(w) \/ Stored(w) \/ OnOpen(w) \/ OnTurnEnd(w) \/ OnClose(w)
    \/ Accept(w) \/ Hangup(w) \/ \E t \in Turns : Deliver(w, t)

EffectRuns(v) == DrainNothing(v) \/ \E w \in Sockets : Drain(v, w)

WebNext ==
    \/ \E v \in Sessions : UserStep(v) \/ EffectRuns(v) \/ Refetched(v)
    \/ \E w \in Sockets : Progress(w) \/ Lost(w) \/ \E t \in Turns : OnUpdate(w, t)
    \/ \E t \in Turns : StreamEnds(t)

WebFairness ==
    /\ \A v \in Sessions : WF_webVars(EffectRuns(v))
    /\ \A w \in Sockets : WF_webVars(Progress(w))
    /\ \A t \in Turns : WF_webVars(StreamEnds(t))

WebSpec == WebInit /\ [][WebNext]_webVars /\ WebFairness
-----------------------------------------------------------------------------
(* Properties *)

\* The segments saved with a reply are those of its own turn, although all turns of the
\* view share segmentsRef (use-chat-stream.ts:59-64, 351) - unless another submission of
\* the view streamed or another of its sockets was still open meanwhile.
RepliesUnmixed ==
    \A w \in Sockets : calls[w].pc = "storing" /\ ~calls[w].crowded => segs[calls[w].view] \subseteq {w}

\* "Ref to the active WebSocket so handlecancel can reach it" (57): while a reply streams
\* on an open socket, stop, steer and queue reach that socket - with the same exception:
\* the onclose of an older socket clears the ref of the newer one (336).
StopReachable ==
    \A w \in Sockets : calls[w].pc = "streaming" /\ ready[w] = "open" /\ ~calls[w].crowded
                         => wsRef[calls[w].view] = w

\* A reply that ended without a turn_end leaves its submission waiting (318-322).
Stuck(v) == \E w \in InView(v) \cap mute : calls[w].pc = "streaming"

\* "auto-submitted as a fresh turn after the current stream ends" (97): a full queue gives
\* up a message, by draining or by stop, unless a reply never ends.
QueueMoves == \A v \in Sessions : queue[v] = MaxQueue ~> queue[v] < MaxQueue \/ Stuck(v)

\* "Drain one queued message as a fresh turn each time streaming ends" (397).
OneDrainPerEnd ==
    [][\A v \in Sessions : v \in due \ due' /\ queue'[v] < queue[v] => v \in ended]_webVars
=============================================================================
