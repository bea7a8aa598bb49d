---------------------------- MODULE GatewayTurns ----------------------------
(***************************************************************************)
(* packages/gateway/src/ws.ts: WebSocket clients start, cancel and abandon *)
(* turns of sessions.  One map of abort controllers, keyed by session,     *)
(* serves all sockets.  An aborted turn ends later, when its stream does.  *)
(***************************************************************************)
EXTENDS FiniteSets

CONSTANTS
    Sessions,   \* sessionIds
    Sockets,    \* WebSocket connections
    Turns,      \* slots for streamResponse calls
    None

ASSUME GatewayAssumption == None \notin Turns \cup Sessions \cup Sockets

VARIABLES
    activeTurns,  \* [Sessions -> turn whose controller is registered]
    turns,        \* [Turns -> the streamResponse call in the slot]
    open,         \* sockets that are open
    robbed        \* history: turns in progress whose entry an older turn's end removed

vars == <<activeTurns, turns, open, robbed>>

Idle == [session |-> None, socket |-> None, aborted |-> FALSE]
Turn == [session: Sessions \cup {None}, socket: Sockets \cup {None}, aborted: BOOLEAN]

TypeOK ==
    /\ activeTurns \in [Sessions -> Turns \cup {None}]
    /\ turns \in [Turns -> Turn]
    /\ open \subseteq Sockets /\ robbed \subseteq Turns

Init ==
    /\ activeTurns = [s \in Sessions |-> None]
    /\ turns = [t \in Turns |-> Idle]
    /\ open = {} /\ robbed = {}

Streaming(s) == {t \in Turns : turns[t].session = s}
Live(s)      == {t \in Streaming(s) : ~turns[t].aborted}

\* The turns after the controllers registered for the sessions S have been aborted.
Aborted(S) ==
    [t \in Turns |-> IF \E s \in S : activeTurns[s] = t
                     THEN [turns[t] EXCEPT !.aborted = TRUE] ELSE turns[t]]

-----------------------------------------------------------------------------

Connect(w) ==
    /\ w \notin open
    /\ open' = open \cup {w}
    /\ UNCHANGED <<activeTurns, turns, robbed>>

\* Mutant: the next message does not abort the turn that it replaces.
MessageUnaborted(w, s, t) ==
    /\ w \in open /\ turns[t] = Idle
    /\ turns' = [turns EXCEPT ![t] = [session |-> s, socket |-> w, aborted |-> FALSE]]
    /\ activeTurns' = [activeTurns EXCEPT ![s] = t]
    /\ UNCHANGED <<open, robbed>>

\* A "message": abort the turn registered for the session, start and register another.
Message(w, s, t) ==
    /\ w \in open /\ turns[t] = Idle
    /\ turns' = [Aborted({s}) EXCEPT ![t] = [session |-> s, socket |-> w, aborted |-> FALSE]]
    /\ activeTurns' = [activeTurns EXCEPT ![s] = t]
    /\ UNCHANGED <<open, robbed>>

\* A "cancel".
Cancel(w, s) ==
    /\ w \in open
    /\ turns' = Aborted({s})
    /\ activeTurns' = [activeTurns EXCEPT ![s] = None]
    /\ UNCHANGED <<open, robbed>>

\* Mutant: nothing happens to the turns of a closed socket.
CloseForgotten(w) ==
    /\ w \in open
    /\ open' = open \ {w}
    /\ UNCHANGED <<activeTurns, turns, robbed>>

\* A socket closes: every registered turn is aborted, whatever socket it streams to.
Close(w) ==
    /\ w \in open
    /\ open' = open \ {w}
    /\ turns' = Aborted(Sessions)
    /\ activeTurns' = [s \in Sessions |-> None]
    /\ UNCHANGED robbed

\* Mutant: an error of the stream skips the removal.
TurnEndsRegistered(t) ==
    /\ turns[t] # Idle
    /\ turns' = [turns EXCEPT ![t] = Idle]
    /\ robbed' = robbed \ {t}
    /\ UNCHANGED <<activeTurns, open>>

\* sendMessage's stream ends or throws: the `finally` removes the session's entry, be it
\* its own or that of a newer turn.
TurnEnds(t) ==
    /\ turns[t] # Idle
    /\ turns' = [turns EXCEPT ![t] = Idle]
    /\ activeTurns' = [activeTurns EXCEPT ![turns[t].session] = None]
    /\ robbed' = (robbed \cup {activeTurns[turns[t].session]}) \ {t, None}
    /\ UNCHANGED open

Next ==
    \/ \E w \in Sockets :
         \/ Connect(w) \/ Close(w)
         \/ \E s \in Sessions : Cancel(w, s) \/ \E t \in Turns : Message(w, s, t)
    \/ \E t \in Turns : TurnEnds(t)

Spec == Init /\ [][Next]_vars

-----------------------------------------------------------------------------
(* Properties *)

\* A registered controller is that of a turn of its session which is in progress and
\* has not been aborted, although cancel, close, the next message and the end of each
\* turn all remove entries without looking whose they are (ws.ts:33, 76, 98).
RegisteredIsLive ==
    \A s \in Sessions : activeTurns[s] # None => activeTurns[s] \in Live(s)

\* The next message of a session aborts the turn that goes on (ws.ts:55-59), and a cancel
\* or a closing socket reaches it: of a session's turns that still have their entry, at
\* most one is unaborted.  Left out are the turns whose entry the end of an older turn has
\* removed (98): nothing reaches them any more.
OneLiveTurn == \A s \in Sessions : Live(s) \ robbed \subseteq {activeTurns[s]}

\* No turn goes on for a client that has left: the socket of an unaborted turn is open,
\* with the exception of OneLiveTurn.
NoOrphanTurn ==
    \A s \in Sessions : \A t \in Live(s) \ robbed : turns[t].socket \in open

\* A turn is aborted by its session's next message, by a cancel, or because the socket
\* it streams to has closed: "Clean up any active turns ... In practice there's
\* typically one" (ws.ts:72-73).
CloseSparesOthers ==
    [][\A t \in Turns :
          ~turns[t].aborted /\ turns'[t].aborted /\ open' # open
            => turns[t].socket \notin open']_vars
=============================================================================
