-------------------------- MODULE ChatStreamProofs --------------------------
(***************************************************************************)
(* Theorems about GatewayTurns and about ChatStream, which runs on it, for *)
(* every number of sessions, sockets and turns.  At the gateway, what     *)
(* matters is that an entry is that of one session's turn, so that aborting *)
(* it reaches the one turn that goes on.  In the view, all rests on         *)
(* submissions that stream together being marked as crowded.               *)
(***************************************************************************)
EXTENDS ChatStream, TLAPS

-----------------------------------------------------------------------------
(* The gateway *)

\* A slot is free or streams for a session.
Begun == \A t \in Turns : turns[t] = Idle \/ turns[t].session \in Sessions

TurnsInv == TypeOK /\ Begun /\ RegisteredIsLive /\ OneLiveTurn

LEMMA IdleTurn == Idle \in Turn /\ Idle.session \notin Sessions
  BY GatewayAssumption DEF Idle, Turn

\* Aborting turns ends none of them.
LEMMA AbortedTurns ==
    ASSUME TypeOK, NEW S \in SUBSET Sessions
    PROVE  /\ Aborted(S) \in [Turns -> Turn]
           /\ \A t \in Turns :
                /\ Aborted(S)[t].session = turns[t].session
                /\ Aborted(S)[t].aborted <=> turns[t].aborted \/ \E s \in S : activeTurns[s] = t
                /\ Aborted(S)[t] # turns[t] => \E s \in S : activeTurns[s] = t
<1>1. ASSUME NEW t \in Turns
      PROVE  /\ Aborted(S)[t] \in Turn
             /\ Aborted(S)[t].session = turns[t].session
             /\ Aborted(S)[t].aborted <=> turns[t].aborted \/ \E s \in S : activeTurns[s] = t
             /\ Aborted(S)[t] # turns[t] => \E s \in S : activeTurns[s] = t
  <2>1. turns[t] \in Turn
    BY DEF TypeOK
  <2>2. Aborted(S)[t] = IF \E s \in S : activeTurns[s] = t
                        THEN [turns[t] EXCEPT !.aborted = TRUE] ELSE turns[t]
    BY DEF Aborted
  <2>3. QED
    BY <2>1, <2>2 DEF Turn
<1>2. QED
  BY <1>1 DEF Aborted

\* Aborting turns changes neither their session nor their socket.
LEMMA AbortedKeep ==
    ASSUME TypeOK, NEW S \in SUBSET Sessions, NEW t \in Turns
    PROVE  /\ Aborted(S)[t].session = turns[t].session
           /\ Aborted(S)[t].socket = turns[t].socket
           /\ turns[t].aborted => Aborted(S)[t].aborted
<1>1. turns[t] \in Turn
  BY DEF TypeOK
<1>2. Aborted(S)[t] = IF \E s \in S : activeTurns[s] = t
                      THEN [turns[t] EXCEPT !.aborted = TRUE] ELSE turns[t]
  BY DEF Aborted
<1>3. QED
  BY <1>1, <1>2 DEF Turn

LEMMA TurnsInit == Init => TurnsInv
  BY IdleTurn DEF Init, TurnsInv, Begun, TypeOK, RegisteredIsLive, OneLiveTurn, Streaming, Live

\* The turns that an abort changes are those of sessions.
LEMMA AbortedBegun ==
    ASSUME TurnsInv, NEW S \in SUBSET Sessions
    PROVE  \A t \in Turns : Aborted(S)[t] = Idle \/ Aborted(S)[t].session \in Sessions
<1> SUFFICES ASSUME NEW t \in Turns
             PROVE  Aborted(S)[t] = Idle \/ Aborted(S)[t].session \in Sessions
  OBVIOUS
<1>1. /\ Aborted(S)[t].session = turns[t].session
      /\ Aborted(S)[t] # turns[t] => \E s \in S : activeTurns[s] = t
  BY AbortedTurns DEF TurnsInv
<1>2. CASE Aborted(S)[t] = turns[t]
  BY <1>2 DEF TurnsInv, Begun
<1>3. CASE \E s \in S : activeTurns[s] = t
  BY <1>1, <1>3, GatewayAssumption DEF TurnsInv, RegisteredIsLive, Live, Streaming
<1>4. QED
  BY <1>1, <1>2, <1>3

\* A registered turn belongs to one session.
LEMMA OneOwner ==
    ASSUME TurnsInv, NEW r \in Sessions, NEW s \in Sessions,
           activeTurns[r] # None, activeTurns[r] = activeTurns[s]
    PROVE  r = s
  BY DEF TurnsInv, RegisteredIsLive, Live, Streaming

LEMMA MessageKeeps ==
    ASSUME TurnsInv, NEW w \in Sockets, NEW s \in Sessions, NEW t \in Turns, Message(w, s, t)
    PROVE  TurnsInv'
<1> DEFINE new == [session |-> s, socket |-> w, aborted |-> FALSE]
<1>0. TypeOK
  BY DEF TurnsInv
<1>1. new \in Turn /\ turns[t].session \notin Sessions
  BY IdleTurn DEF Turn, Message
<1>2. /\ Aborted({s}) \in [Turns -> Turn]
      /\ \A v \in Turns :
           /\ Aborted({s})[v].session = turns[v].session
           /\ Aborted({s})[v].aborted <=> turns[v].aborted \/ activeTurns[s] = v
  BY <1>0, AbortedTurns
<1>3. turns' = [Aborted({s}) EXCEPT ![t] = new]
  BY DEF Message
<1>4. /\ turns' \in [Turns -> Turn]
      /\ turns'[t] = new
      /\ \A v \in Turns \ {t} :
           /\ turns'[v].session = turns[v].session
           /\ turns'[v].aborted <=> turns[v].aborted \/ activeTurns[s] = v
  <2> HIDE DEF new
  <2>1. QED BY <1>1, <1>2, <1>3
<1>5. /\ activeTurns' \in [Sessions -> Turns \cup {None}]
      /\ activeTurns'[s] = t
      /\ \A r \in Sessions \ {s} : activeTurns'[r] = activeTurns[r]
  BY <1>0 DEF Message, TypeOK
<1>6. robbed' = robbed
  BY DEF Message
<1>7. TypeOK'
  BY <1>0, <1>4, <1>5, <1>6 DEF TypeOK, Message
<1>8. RegisteredIsLive'
  <2>1. SUFFICES ASSUME NEW r \in Sessions, activeTurns'[r] # None
                 PROVE  /\ activeTurns'[r] \in Turns
                        /\ turns'[activeTurns'[r]].session = r
                        /\ ~turns'[activeTurns'[r]].aborted
    BY DEF RegisteredIsLive, Live, Streaming
  <2>2. CASE r = s
    BY <1>4, <1>5, <2>2
  <2>3. CASE r # s
    <3>1. activeTurns'[r] = activeTurns[r] /\ activeTurns[r] # activeTurns[s]
      BY <1>5, <2>1, <2>3, OneOwner
    <3>2. activeTurns[r] \in Turns \ {t} /\ turns[activeTurns[r]].session = r
            /\ ~turns[activeTurns[r]].aborted
      BY <1>1, <2>1, <3>1 DEF TurnsInv, RegisteredIsLive, Live, Streaming
    <3>3. QED
      BY <1>4, <3>1, <3>2
  <2>4. QED
    BY <2>2, <2>3
<1>9. ASSUME NEW r \in Sessions
      PROVE  Live(r)' \ robbed' \subseteq {activeTurns'[r]}
  <2>1. CASE r = s
    <3>1. \A u \in Live(s)' \ {t} : u \in Live(s) /\ u # activeTurns[s]
      BY <1>4 DEF Streaming, Live
    <3>2. QED
      BY <1>5, <1>6, <2>1, <3>1 DEF TurnsInv, OneLiveTurn
  <2>2. CASE r # s
    <3>1. Live(r)' \subseteq Live(r)
      BY <1>1, <1>4, <1>9, <2>2 DEF Streaming, Live
    <3>2. QED
      BY <1>5, <1>6, <1>9, <2>2, <3>1 DEF TurnsInv, OneLiveTurn
  <2>3. QED
    BY <2>1, <2>2
<1>10. Begun'
  <2>1. \A u \in Turns : Aborted({s})[u] = Idle \/ Aborted({s})[u].session \in Sessions
    BY AbortedBegun
  <2>2. \A u \in Turns \ {t} : turns'[u] = Aborted({s})[u]
    BY <1>3
  <2>3. turns'[t].session = s
    BY <1>4
  <2>4. QED
    BY <2>1, <2>2, <2>3 DEF Begun
<1>11. QED
  BY <1>7, <1>8, <1>9, <1>10 DEF TurnsInv, OneLiveTurn

\* A cancel and a closing socket: the entries of the sessions S go, their turns abort.
LEMMA AbortKeeps ==
    ASSUME TurnsInv, NEW S \in SUBSET Sessions, turns' = Aborted(S),
           activeTurns' = [s \in Sessions |-> IF s \in S THEN None ELSE activeTurns[s]],
           open' \subseteq Sockets, UNCHANGED robbed
    PROVE  TurnsInv'
<1>0. TypeOK
  BY DEF TurnsInv
<1>1. /\ turns' \in [Turns -> Turn]
      /\ \A t \in Turns :
           /\ turns'[t].session = turns[t].session
           /\ turns'[t].aborted <=> turns[t].aborted \/ \E s \in S : activeTurns[s] = t
  BY <1>0, AbortedTurns
<1>2. TypeOK'
  BY <1>0, <1>1 DEF TypeOK
<1>3. RegisteredIsLive'
  <2>1. SUFFICES ASSUME NEW r \in Sessions \ S, activeTurns[r] # None
                 PROVE  /\ activeTurns[r] \in Turns
                        /\ turns'[activeTurns[r]].session = r
                        /\ ~turns'[activeTurns[r]].aborted
    BY DEF RegisteredIsLive, Live, Streaming
  <2>2. \A s \in S : activeTurns[s] # activeTurns[r]
    BY <2>1, OneOwner
  <2>3. QED
    BY <1>1, <2>1, <2>2 DEF TurnsInv, RegisteredIsLive, Live, Streaming
<1>5. OneLiveTurn'
  <2>1. SUFFICES ASSUME NEW r \in Sessions, NEW t \in Live(r)' \ robbed
                 PROVE  t = activeTurns'[r]
    BY DEF OneLiveTurn
  <2>2. t \in Live(r) /\ \A s \in S : activeTurns[s] # t
    BY <1>1, <2>1 DEF Live, Streaming
  <2>3. t = activeTurns[r]
    BY <2>1, <2>2 DEF TurnsInv, OneLiveTurn
  <2>4. QED
    BY <2>2, <2>3
<1>6. Begun'
  BY AbortedBegun DEF Begun
<1>7. QED
  BY <1>2, <1>3, <1>5, <1>6 DEF TurnsInv

LEMMA EndKeeps ==
    ASSUME TurnsInv, NEW t \in Turns, TurnEnds(t)
    PROVE  TurnsInv'
<1> DEFINE s == turns[t].session
<1>0. TypeOK
  BY DEF TurnsInv
<1>1. turns' \in [Turns -> Turn] /\ turns'[t] = Idle /\ \A u \in Turns \ {t} : turns'[u] = turns[u]
  BY <1>0, IdleTurn DEF TurnEnds, TypeOK
<1>2. /\ activeTurns' \in [Sessions -> Turns \cup {None}]
      /\ \A r \in Sessions : activeTurns'[r] = IF r = s THEN None ELSE activeTurns[r]
  BY <1>0 DEF TurnEnds, TypeOK
<1>3. TypeOK'
  <2>1. robbed' \subseteq Turns
    BY <1>0 DEF TurnEnds, TurnsInv, Begun, TypeOK
  <2>2. QED
    BY <1>0, <1>1, <1>2, <2>1 DEF TurnEnds, TypeOK
<1>4. RegisteredIsLive'
  BY <1>1, <1>2 DEF TurnsInv, RegisteredIsLive, Live, Streaming
<1>5. \A r \in Sessions : Streaming(r)' = Streaming(r) \ {t} /\ Live(r)' = Live(r) \ {t}
  BY <1>1, IdleTurn DEF Streaming, Live
<1>6. robbed' = (robbed \cup {activeTurns[s]}) \ {t, None}
  BY DEF TurnEnds
<1>7. OneLiveTurn'
  <2>1. SUFFICES ASSUME NEW r \in Sessions, NEW u \in Live(r)' \ robbed'
                 PROVE  u = activeTurns'[r]
    BY DEF OneLiveTurn
  <2>2. u \in Live(r) /\ u # t /\ u \in Turns /\ u # None
    BY <1>5, <2>1, GatewayAssumption DEF Live, Streaming
  <2>3. u \notin robbed /\ u # activeTurns[s]
    BY <1>6, <2>1, <2>2
  <2>4. u = activeTurns[r]
    BY <2>2, <2>3 DEF TurnsInv, OneLiveTurn
  <2>5. QED
    BY <1>2, <2>3, <2>4
<1>8. QED
  BY <1>1, <1>3, <1>4, <1>7 DEF TurnsInv, Begun

LEMMA TurnsStep == TurnsInv /\ [Next]_vars => TurnsInv'
<1> SUFFICES ASSUME TurnsInv, [Next]_vars
             PROVE  TurnsInv'
  OBVIOUS
<1>0. TypeOK
  BY DEF TurnsInv
<1>1. ASSUME NEW w \in Sockets, Connect(w)
      PROVE  TurnsInv'
  BY <1>1 DEF Connect, TurnsInv, Begun, TypeOK, RegisteredIsLive, OneLiveTurn, Live, Streaming
<1>2. ASSUME NEW w \in Sockets, Close(w)
      PROVE  TurnsInv'
  <2>1. /\ activeTurns' = [s \in Sessions |-> IF s \in Sessions THEN None ELSE activeTurns[s]]
        /\ turns' = Aborted(Sessions) /\ open' \subseteq Sockets /\ UNCHANGED robbed
    BY <1>0, <1>2 DEF Close, TypeOK
  <2>2. QED
    BY <2>1, AbortKeeps
<1>3. ASSUME NEW w \in Sockets, NEW s \in Sessions, Cancel(w, s)
      PROVE  TurnsInv'
  <2>1. /\ activeTurns' = [r \in Sessions |-> IF r \in {s} THEN None ELSE activeTurns[r]]
        /\ turns' = Aborted({s}) /\ open' \subseteq Sockets /\ UNCHANGED robbed
    BY <1>0, <1>3 DEF Cancel, TypeOK
  <2>2. QED
    BY <2>1, AbortKeeps
<1>4. CASE UNCHANGED vars
  BY <1>4 DEF vars, TurnsInv, Begun, TypeOK, RegisteredIsLive, OneLiveTurn, Live, Streaming
<1>5. QED
  BY <1>1, <1>2, <1>3, <1>4, MessageKeeps, EndKeeps DEF Next

\* Whatever sockets connect, cancel, close and overtake, a registered controller is that
\* of a live turn of its session (ws.ts:29-36, 54-66, 71-78, 98).
THEOREM RegisteredCorrect == Spec => []RegisteredIsLive
<1>1. TurnsInv => RegisteredIsLive
  BY DEF TurnsInv
<1>2. QED
  BY <1>1, TurnsInit, TurnsStep, PTL DEF Spec

\* Of the turns that have their entry at most one per session is unaborted: the next
\* message aborts it, and a cancel reaches it (ws.ts:29-36, 54-66, 98).
THEOREM LiveTurnCorrect == Spec => []OneLiveTurn
<1>1. TurnsInv => OneLiveTurn
  BY DEF TurnsInv
<1>2. QED
  BY <1>1, TurnsInit, TurnsStep, PTL DEF Spec

\* A closing socket aborts every turn that a cancel could reach, so the turns it leaves
\* unaborted are those that lost their entry.
LEMMA OrphanStep == TurnsInv /\ NoOrphanTurn /\ [Next]_vars => NoOrphanTurn'
<1> SUFFICES ASSUME TurnsInv, NoOrphanTurn, [Next]_vars
             PROVE  NoOrphanTurn'
  OBVIOUS
<1>0. TypeOK
  BY DEF TurnsInv
<1>1. ASSUME NEW w \in Sockets, Connect(w)
      PROVE  NoOrphanTurn'
  BY <1>1 DEF Connect, NoOrphanTurn, Live, Streaming
<1>2. ASSUME NEW w \in Sockets, Close(w)
      PROVE  NoOrphanTurn'
  <2>1. \A t \in Turns : /\ turns'[t].session = turns[t].session
                         /\ turns'[t].aborted <=> turns[t].aborted \/ \E s \in Sessions : activeTurns[s] = t
    BY <1>0, <1>2, AbortedTurns DEF Close
  <2>2. \A s \in Sessions : Live(s)' \subseteq robbed
    BY <2>1 DEF Live, Streaming, TurnsInv, OneLiveTurn
  <2>3. QED
    BY <1>2, <2>2 DEF Close, NoOrphanTurn
<1>3. ASSUME NEW w \in Sockets, NEW s \in Sessions, Cancel(w, s)
      PROVE  NoOrphanTurn'
  <2>1. \A t \in Turns : /\ turns'[t].session = turns[t].session
                         /\ turns'[t].socket = turns[t].socket
                         /\ turns[t].aborted => turns'[t].aborted
    BY <1>0, <1>3, AbortedKeep DEF Cancel
  <2>2. UNCHANGED <<open, robbed>>
    BY <1>3 DEF Cancel
  <2>3. \A r \in Sessions : Live(r)' \subseteq Live(r)
    BY <2>1 DEF Live, Streaming
  <2>4. ASSUME NEW r \in Sessions, NEW t \in Live(r)' \ robbed
        PROVE  turns'[t].socket \in open
    <3>1. t \in Turns /\ t \in Live(r)
      BY <2>3, <2>4 DEF Live, Streaming
    <3>2. QED
      BY <2>1, <2>4, <3>1 DEF NoOrphanTurn
  <2>5. QED
    BY <2>2, <2>4 DEF NoOrphanTurn
<1>4. ASSUME NEW w \in Sockets, NEW s \in Sessions, NEW t \in Turns, Message(w, s, t)
      PROVE  NoOrphanTurn'
  <2> DEFINE new == [session |-> s, socket |-> w, aborted |-> FALSE]
  <2>1. /\ Aborted({s}) \in [Turns -> Turn]
        /\ \A u \in Turns : /\ Aborted({s})[u].session = turns[u].session
                            /\ Aborted({s})[u].socket = turns[u].socket
                            /\ turns[u].aborted => Aborted({s})[u].aborted
    BY <1>0, AbortedKeep, AbortedTurns
  <2>2. turns' = [Aborted({s}) EXCEPT ![t] = new]
    BY <1>4 DEF Message
  <2>3. /\ turns'[t] = new
        /\ \A u \in Turns \ {t} : /\ turns'[u].session = turns[u].session
                                  /\ turns'[u].socket = turns[u].socket
                                  /\ turns[u].aborted => turns'[u].aborted
    <3> HIDE DEF new
    <3>1. QED BY <2>1, <2>2
  <2>4. w \in open /\ open' = open /\ robbed' = robbed
    BY <1>4 DEF Message
  <2>5. SUFFICES ASSUME NEW r \in Sessions, NEW u \in Live(r)' \ robbed
                 PROVE  turns'[u].socket \in open
    BY <2>4 DEF NoOrphanTurn
  <2>6. CASE u = t
    BY <2>3, <2>4, <2>6
  <2>7. CASE u # t
    BY <2>3, <2>4, <2>5, <2>7 DEF NoOrphanTurn, Live, Streaming
  <2>8. QED
    BY <2>6, <2>7
<1>5. ASSUME NEW t \in Turns, TurnEnds(t)
      PROVE  NoOrphanTurn'
  <2>1. turns'[t] = Idle /\ \A u \in Turns \ {t} : turns'[u] = turns[u]
    BY <1>0, <1>5 DEF TurnEnds, TypeOK
  <2>2. QED
    BY <1>5, <2>1, IdleTurn, GatewayAssumption DEF TurnEnds, NoOrphanTurn, Live, Streaming
<1>6. CASE UNCHANGED vars
  BY <1>6 DEF vars, NoOrphanTurn, Live, Streaming
<1>7. QED
  BY <1>1, <1>2, <1>3, <1>4, <1>5, <1>6 DEF Next

\* No turn goes on for a client that has left, unless the end of an older turn took its
\* entry (ws.ts:71-78, 98).
THEOREM OrphanCorrect == Spec => []NoOrphanTurn
<1>1. Init => NoOrphanTurn
  BY IdleTurn DEF Init, NoOrphanTurn, Live, Streaming
<1>2. QED
  BY <1>1, TurnsInit, TurnsStep, OrphanStep, PTL DEF Spec

-----------------------------------------------------------------------------
(* The view *)

Frame == [type: {"message", "cancel"}, sessionId: Sessions]

\* A submission from the opening of its socket to the end of its record.
Active(w) == calls[w].pc \in {"streaming", "storing", "done"}

Typed ==
    /\ calls \in [Sockets -> Call]
    /\ ready \in [Sockets -> {"closed", "connecting", "open", "closing"}]
    /\ up \in [Sockets -> Seq(Frame)]
    /\ wsRef \in [Sessions -> Sockets \cup {None}]
    /\ segs \in [Sessions -> SUBSET Sockets]
    /\ \A w \in Sockets : calls[w].pc # "none" => calls[w].view \in Sessions

\* A socket that is not closed is that of a submission.
Used == \A w \in Sockets : ready[w] # "closed" => Active(w)

\* wsRef holds a socket of the view that is not closed, and holds that of a submission
\* which is alone until it closes.
RefHeld ==
    /\ \A v \in Sessions, u \in Sockets :
          wsRef[v] = u => Active(u) /\ calls[u].view = v /\ ready[u] # "closed"
    /\ \A w \in Sockets : Active(w) /\ ~calls[w].crowded /\ ready[w] # "closed"
                             => wsRef[calls[w].view] = w

\* Submissions of a view that stream together know it.
Alone ==
    \A w, u \in Sockets :
        Active(w) /\ Active(u) /\ calls[w].view = calls[u].view /\ w # u => calls[w].crowded

Unmixed ==
    \A w \in Sockets : Active(w) /\ ~calls[w].crowded => segs[calls[w].view] \subseteq {w}

WebInv == Typed /\ Used /\ RefHeld /\ Alone /\ Unmixed

LEMMA NoCallType == NoCall \in Call /\ NoCall.pc = "none" /\ NoCall.view \notin Sessions
BY GatewayAssumption DEF NoCall, Call

LEMMA WebStart == WebInit => WebInv
<1> SUFFICES ASSUME WebInit
             PROVE  WebInv
  OBVIOUS
<1>1. \A w \in Sockets : calls[w].pc = "none" /\ ready[w] = "closed"
  BY NoCallType DEF WebInit
<1>2. Typed
  <2>1. up \in [Sockets -> Seq(Frame)]
    <3>1. <<>> \in Seq(Frame)
      OBVIOUS
    <3> QED
      BY <3>1 DEF WebInit
  <2> QED
    BY <1>1, <2>1, NoCallType DEF WebInit, Typed
<1> QED
  BY <1>1, <1>2, GatewayAssumption DEF WebInit, WebInv, Used, RefHeld, Alone, Unmixed, Active

\* A submission is shown and saved.
LEMMA StartKeeps ==
    ASSUME WebInv, NEW v \in Sessions, NEW w \in Sockets, StartCall(v, w),
           UNCHANGED <<ready, up, wsRef, segs>>
    PROVE  WebInv'
<1> DEFINE k == [view |-> v, pc |-> "saving", crowded |-> FALSE]
<1>1. Typed /\ calls[w].pc = "none" /\ calls' = [calls EXCEPT ![w] = k]
  BY NoCallType DEF WebInv, StartCall, Unused
<1>2. k \in Call /\ k.pc = "saving" /\ k.view = v
  BY DEF Call
<1> HIDE DEF k
<1>3. /\ calls' \in [Sockets -> Call] /\ calls'[w] = k
      /\ \A u \in Sockets \ {w} : calls'[u] = calls[u]
  BY <1>1, <1>2 DEF Typed
<1>4. \A u \in Sockets : /\ Active(u)' <=> Active(u)
                         /\ Active(u) => calls'[u] = calls[u]
  BY <1>1, <1>2, <1>3 DEF Active
<1>5. Typed'
  BY <1>1, <1>2, <1>3 DEF Typed
<1>6. Used' /\ Alone' /\ Unmixed'
  BY <1>4 DEF WebInv, Used, Alone, Unmixed
<1>7. RefHeld'
  BY <1>4 DEF WebInv, RefHeld
<1> QED
  BY <1>5, <1>6, <1>7 DEF WebInv

\* The record of a submission goes to its next step, or goes; its socket moves on, or
\* closes and leaves wsRef.
LEMMA RecordMoves ==
    ASSUME WebInv, NEW w \in Sockets, Active(w), NEW k \in Call,
           calls' = [calls EXCEPT ![w] = k],
           NEW s \in {"closed", "connecting", "open", "closing"},
           ready' = [ready EXCEPT ![w] = s], ready[w] = "closed" => s = "closed",
           \/ k = NoCall /\ s = "closed"
           \/ /\ k.pc \in {"streaming", "storing", "done"}
              /\ k.view = calls[w].view /\ k.crowded = calls[w].crowded,
           \/ UNCHANGED wsRef /\ (s = "closed" => ready[w] = "closed")
           \/ wsRef' = [wsRef EXCEPT ![calls[w].view] = None] /\ s = "closed"
                /\ ready[w] # "closed",
           up' \in [Sockets -> Seq(Frame)], UNCHANGED segs
    PROVE  WebInv'
<1>1. /\ Typed /\ calls[w].view \in Sessions
      /\ calls' \in [Sockets -> Call] /\ calls'[w] = k
      /\ \A u \in Sockets \ {w} : calls'[u] = calls[u]
      /\ ready' \in [Sockets -> {"closed", "connecting", "open", "closing"}]
      /\ ready'[w] = s /\ \A u \in Sockets \ {w} : ready'[u] = ready[u]
      /\ wsRef' \in [Sessions -> Sockets \cup {None}]
  BY DEF WebInv, Typed, Active
<1>2. \A u \in Sockets : Active(u)' => /\ Active(u) /\ calls'[u].view = calls[u].view
                                       /\ calls'[u].crowded = calls[u].crowded
  BY <1>1, NoCallType DEF Active
<1>3. Typed'
  BY <1>1, NoCallType DEF Typed, Active
<1>4. Used'
  BY <1>1, NoCallType DEF WebInv, Used, Active
<1>5. Alone' /\ Unmixed'
  BY <1>2 DEF WebInv, Alone, Unmixed
<1>6. RefHeld'
  <2>1. ASSUME NEW v \in Sessions, NEW u \in Sockets, wsRef'[v] = u
        PROVE  Active(u)' /\ calls'[u].view = v /\ ready'[u] # "closed"
    <3>1. wsRef[v] = u
      BY <1>1, <2>1, GatewayAssumption DEF Typed
    <3>2. Active(u) /\ calls[u].view = v /\ ready[u] # "closed"
      BY <3>1, GatewayAssumption DEF WebInv, RefHeld
    <3>3. CASE u = w
      <4>1. s # "closed"
        BY <1>1, <2>1, <3>1, <3>2, <3>3, GatewayAssumption DEF Typed
      <4> QED
        BY <1>1, <3>2, <3>3, <4>1, NoCallType DEF Active
    <3>4. CASE u # w
      BY <1>1, <3>2, <3>4 DEF Active
    <3> QED
      BY <3>3, <3>4
  <2>2. ASSUME NEW u \in Sockets, Active(u)', ~calls'[u].crowded, ready'[u] # "closed"
        PROVE  wsRef'[calls'[u].view] = u
    <3>1. Active(u) /\ ~calls[u].crowded /\ calls'[u].view = calls[u].view
      BY <1>2, <2>2
    <3>2. ready[u] # "closed"
      BY <1>1, <2>2
    <3>3. wsRef[calls[u].view] = u
      BY <3>1, <3>2 DEF WebInv, RefHeld
    <3>4. calls[u].view = calls[w].view /\ u # w => calls[u].crowded
      BY <3>1 DEF WebInv, Alone
    <3> QED
      BY <1>1, <2>2, <3>1, <3>3, <3>4 DEF Typed, Active
  <2> QED
    BY <2>1, <2>2 DEF RefHeld, Active
<1> QED
  BY <1>3, <1>4, <1>5, <1>6 DEF WebInv

\* What At leaves in the record.
LEMMA AtRecord ==
    ASSUME Typed, NEW w \in Sockets, Active(w), NEW pc \in {"streaming", "storing", "done"}, NEW state
    PROVE  \E k \in Call :
              /\ At(w, pc, state) = [calls EXCEPT ![w] = k]
              /\ \/ k = NoCall /\ state = "closed"
                 \/ k.pc = pc /\ k.view = calls[w].view /\ k.crowded = calls[w].crowded
<1> DEFINE k == IF pc = "done" /\ state = "closed" THEN NoCall ELSE [calls[w] EXCEPT !.pc = pc]
<1>1. calls[w] \in Call
  BY DEF Typed
<1>2. k \in Call /\ ((k = NoCall /\ state = "closed")
                       \/ (k.pc = pc /\ k.view = calls[w].view /\ k.crowded = calls[w].crowded))
  BY <1>1, NoCallType DEF Call
<1>3. At(w, pc, state) = [calls EXCEPT ![w] = k]
  BY DEF At
<1> QED
  BY <1>2, <1>3

\* A reply begins to stream: the submissions beside it, and it beside them, are crowded.
LEMMA SavedKeeps ==
    ASSUME WebInv, NEW w \in Sockets, Saved(w)
    PROVE  WebInv'
<1> DEFINE v == calls[w].view
           others == {u \in InView(v) \ {w} : calls[u].pc # "saving"}
<1>1. /\ Typed /\ v \in Sessions /\ calls[w].pc = "saving"
      /\ segs' = [segs EXCEPT ![v] = {}] /\ up' = up
      /\ ready' = [ready EXCEPT ![w] = "connecting"]
      /\ wsRef' = [wsRef EXCEPT ![v] = w]
      /\ calls' = [u \in Sockets |->
                     IF u = w THEN [view |-> v, pc |-> "streaming", crowded |-> others # {}]
                     ELSE IF u \in others THEN [calls[u] EXCEPT !.crowded = TRUE]
                     ELSE calls[u]]
  BY DEF WebInv, Typed, Saved, StartStreaming, NewSocket
<1>2. /\ calls'[w].pc = "streaming" /\ calls'[w].view = v
      /\ calls'[w].crowded <=> others # {}
      /\ calls'[w] \in Call
  BY <1>1 DEF Call
<1>3. ASSUME NEW u \in Sockets \ {w}
      PROVE  /\ calls'[u].pc = calls[u].pc /\ calls'[u].view = calls[u].view
             /\ calls'[u].crowded <=> calls[u].crowded \/ u \in others
             /\ calls'[u] \in Call /\ ready'[u] = ready[u]
  <2>1. calls[u] \in Call
    BY <1>1 DEF Typed
  <2> QED
    BY <1>1, <2>1 DEF Call, Typed
<1>4. \A u \in Sockets : /\ calls[u].pc # "saving" /\ calls[u].view = v => u \in others
                         /\ u \in others => calls[u].view = v
  BY <1>1 DEF InView
<1>5. Typed'
  <2>1. calls' \in [Sockets -> Call]
    BY <1>1, <1>2, <1>3
  <2>2. /\ ready' \in [Sockets -> {"closed", "connecting", "open", "closing"}]
        /\ wsRef' \in [Sessions -> Sockets \cup {None}] /\ segs' \in [Sessions -> SUBSET Sockets]
        /\ up' \in [Sockets -> Seq(Frame)]
    BY <1>1 DEF Typed
  <2>3. \A u \in Sockets : calls'[u].pc # "none" => calls'[u].view \in Sessions
    BY <1>1, <1>2, <1>3 DEF Typed
  <2> QED
    BY <2>1, <2>2, <2>3 DEF Typed
<1> HIDE DEF v, others
<1>6. \A u \in Sockets \ {w} : Active(u)' <=> Active(u)
  BY <1>3 DEF Active
<1>7. Active(w)' /\ ready'[w] # "closed" /\ wsRef'[v] = w /\ segs'[v] = {}
      /\ \A r \in Sessions \ {v} : wsRef'[r] = wsRef[r] /\ segs'[r] = segs[r]
  BY <1>1, <1>2 DEF Typed, Active
<1>8. Used'
  BY <1>3, <1>6, <1>7 DEF WebInv, Used
<1>9. \A u \in Sockets \ {w} : Active(u) /\ calls[u].view = v => u \in others
  BY <1>4 DEF Active
<1>10. Alone'
  <2>1. ASSUME NEW x \in Sockets, NEW y \in Sockets, Active(x)', Active(y)',
               calls'[x].view = calls'[y].view, x # y
        PROVE  calls'[x].crowded
    <3>1. CASE x = w
      BY <1>2, <1>3, <1>6, <1>9, <2>1, <3>1
    <3>2. CASE y = w
      BY <1>2, <1>3, <1>6, <1>9, <2>1, <3>2
    <3>3. CASE x # w /\ y # w
      BY <1>3, <1>6, <2>1, <3>3 DEF WebInv, Alone
    <3> QED
      BY <3>1, <3>2, <3>3
  <2> QED
    BY <2>1 DEF Alone, Active
<1>11. Unmixed'
  <2>1. ASSUME NEW x \in Sockets, Active(x)', ~calls'[x].crowded
        PROVE  segs'[calls'[x].view] \subseteq {x}
    <3>1. CASE x = w
      BY <1>2, <1>7, <3>1
    <3>2. CASE x # w
      <4>1. Active(x) /\ ~calls[x].crowded /\ calls'[x].view = calls[x].view /\ calls[x].view # v
        BY <1>3, <1>6, <1>9, <2>1, <3>2
      <4>2. calls[x].view \in Sessions
        BY <1>1, <4>1 DEF Typed, Active
      <4> QED
        BY <1>7, <4>1, <4>2 DEF WebInv, Unmixed
    <3> QED
      BY <3>1, <3>2
  <2> QED
    BY <2>1 DEF Unmixed, Active
<1>12. RefHeld'
  <2>1. ASSUME NEW r \in Sessions, NEW u \in Sockets, wsRef'[r] = u
        PROVE  Active(u)' /\ calls'[u].view = r /\ ready'[u] # "closed"
    <3>1. CASE r = v
      BY <1>2, <1>7, <2>1, <3>1
    <3>2. CASE r # v
      <4>1. wsRef[r] = u
        BY <1>7, <2>1, <3>2
      <4>2. Active(u) /\ calls[u].view = r /\ ready[u] # "closed"
        BY <4>1 DEF WebInv, RefHeld
      <4>3. u # w
        BY <1>1, <4>2 DEF Active
      <4> QED
        BY <1>3, <1>6, <4>2, <4>3
    <3> QED
      BY <3>1, <3>2
  <2>2. ASSUME NEW u \in Sockets, Active(u)', ~calls'[u].crowded, ready'[u] # "closed"
        PROVE  wsRef'[calls'[u].view] = u
    <3>1. CASE u = w
      BY <1>2, <1>7, <3>1
    <3>2. CASE u # w
      <4>1. /\ Active(u) /\ ~calls[u].crowded /\ calls'[u].view = calls[u].view
            /\ calls[u].view # v /\ ready[u] # "closed"
        BY <1>3, <1>6, <1>9, <2>2, <3>2
      <4>2. calls[u].view \in Sessions
        BY <1>1, <4>1 DEF Typed, Active
      <4> QED
        BY <1>7, <4>1, <4>2 DEF WebInv, RefHeld
    <3> QED
      BY <3>1, <3>2
  <2> QED
    BY <2>1, <2>2 DEF RefHeld, Active
<1> QED
  BY <1>5, <1>8, <1>10, <1>11, <1>12 DEF WebInv

\* Frames leave the view, travel and arrive; a socket that stays open may go to closing.
LEMMA WireKeeps ==
    ASSUME WebInv, up' \in [Sockets -> Seq(Frame)],
           ready' \in [Sockets -> {"closed", "connecting", "open", "closing"}],
           \A w \in Sockets : ready'[w] = "closed" <=> ready[w] = "closed",
           UNCHANGED <<calls, wsRef, segs>>
    PROVE  WebInv'
<1>1. Typed' /\ Used'
  BY DEF WebInv, Typed, Used, Active
<1>2. RefHeld' /\ Alone' /\ Unmixed'
  BY DEF WebInv, RefHeld, Alone, Unmixed, Active
<1> QED
  BY <1>1, <1>2 DEF WebInv

\* Segments of a submission join those of its view.
LEMMA SegmentsKeep ==
    ASSUME WebInv, NEW v \in Sessions, NEW w \in Sockets, Active(w), calls[w].view = v,
           segs' = [segs EXCEPT ![v] = @ \cup {w}], UNCHANGED <<calls, ready, up, wsRef>>
    PROVE  WebInv'
<1>1. Typed' /\ Used'
  BY DEF WebInv, Typed, Used, Active
<1>2. RefHeld' /\ Alone'
  BY DEF WebInv, RefHeld, Alone, Active
<1>3. Unmixed'
  <2>1. ASSUME NEW u \in Sockets, Active(u), ~calls[u].crowded
        PROVE  segs'[calls[u].view] \subseteq {u}
    <3>1. segs[calls[u].view] \subseteq {u} /\ calls[u].view \in Sessions
      BY <2>1 DEF WebInv, Unmixed, Typed, Active
    <3>2. calls[u].view = v => u = w
      BY <2>1 DEF WebInv, Alone
    <3> QED
      BY <3>1, <3>2 DEF WebInv, Typed
  <2> QED
    BY <2>1 DEF Unmixed, Active
<1> QED
  BY <1>1, <1>2, <1>3 DEF WebInv

\* A frame joins those on their way.
LEMMA FrameSent ==
    ASSUME Typed, NEW w \in Sockets, NEW f \in Frame, up' = [up EXCEPT ![w] = Append(@, f)]
    PROVE  up' \in [Sockets -> Seq(Frame)]
<1>1. up \in [Sockets -> Seq(Frame)] /\ Append(up[w], f) \in Seq(Frame)
  BY DEF Typed
<1> QED
  BY <1>1

\* A frame arrives at the gateway.
LEMMA FrameTaken ==
    ASSUME Typed, NEW w \in Sockets, up[w] # <<>>, up' = [up EXCEPT ![w] = Tail(@)]
    PROVE  up' \in [Sockets -> Seq(Frame)] /\ Head(up[w]) \in Frame
<1>1. up \in [Sockets -> Seq(Frame)] /\ Tail(up[w]) \in Seq(Frame) /\ Head(up[w]) \in Frame
  BY DEF Typed
<1> QED
  BY <1>1

\* What the user does while a reply streams.
LEMMA UserKeeps ==
    ASSUME WebInv, NEW v \in Sessions, UserStep(v)
    PROVE  WebInv'
<1>1. CASE Enqueue(v)
  BY <1>1, WireKeeps DEF Enqueue, WebInv, Typed, wire
<1>2. CASE Steer(v)
  <2>1. PICK w \in Sockets : w = wsRef[v]
    BY <1>2 DEF Steer, Reaches, WebInv, Typed
  <2>2. Active(w) /\ calls[w].view = v
    BY <2>1 DEF WebInv, RefHeld
  <2> QED
    BY <1>2, <2>1, <2>2, SegmentsKeep DEF Steer, wire
<1>3. CASE HandleCancel(v)
  <2>1. PICK w \in Sockets : w = wsRef[v]
    BY <1>3 DEF HandleCancel, Reaches, WebInv, Typed
  <2>2. PICK f \in Frame : f = [type |-> "cancel", sessionId |-> v]
    BY DEF Frame
  <2>3. up' \in [Sockets -> Seq(Frame)]
    BY <1>3, <2>1, <2>2, FrameSent DEF HandleCancel, WebInv
  <2>4. /\ ready' \in [Sockets -> {"closed", "connecting", "open", "closing"}]
        /\ \A u \in Sockets : ready'[u] = "closed" <=> ready[u] = "closed"
    BY <1>3, <2>1 DEF HandleCancel, Reaches, WebInv, Typed
  <2> QED
    BY <1>3, <2>3, <2>4, WireKeeps DEF HandleCancel
<1>4. ASSUME NEW w \in Sockets, Submit(v, w)
      PROVE  WebInv'
  BY <1>4, StartKeeps DEF Submit, view
<1> QED
  BY <1>1, <1>2, <1>3, <1>4 DEF UserStep

\* The effect that drains the queue, and a refetch that makes it run.
LEMMA EffectKeeps ==
    ASSUME WebInv, NEW v \in Sessions, EffectRuns(v) \/ Refetched(v)
    PROVE  WebInv'
<1>1. CASE DrainNothing(v)
  BY <1>1, WireKeeps DEF DrainNothing, WebInv, Typed, wire
<1>2. ASSUME NEW w \in Sockets, Drain(v, w)
      PROVE  WebInv'
  BY <1>2, StartKeeps DEF Drain
<1>3. CASE Refetched(v)
  BY <1>3, WireKeeps DEF Refetched, WebInv, Typed, wire
<1> QED
  BY <1>1, <1>2, <1>3 DEF EffectRuns

\* A submission's steps after its socket was opened.
LEMMA ProgressKeeps ==
    ASSUME WebInv, NEW w \in Sockets, Progress(w) \/ Lost(w)
    PROVE  WebInv'
<1>0. ready[w] # "closed" => Active(w)
  BY DEF WebInv, Used
<1>1. CASE Saved(w)
  BY <1>1, SavedKeeps
<1>2. CASE Stored(w)
  <2>1. Typed /\ Active(w) /\ calls' = At(w, "done", ready[w]) /\ ready' = [ready EXCEPT ![w] = ready[w]]
        /\ up' \in [Sockets -> Seq(Frame)] /\ UNCHANGED <<wsRef, segs>>
        /\ ready[w] \in {"closed", "connecting", "open", "closing"}
    BY <1>2 DEF Stored, StopStreaming, Active, WebInv, Typed, wire
  <2>2. PICK s \in {"closed", "connecting", "open", "closing"} : s = ready[w]
    BY <2>1
  <2>3. PICK k \in Call :
           /\ At(w, "done", s) = [calls EXCEPT ![w] = k]
           /\ \/ k = NoCall /\ s = "closed"
              \/ k.pc = "done" /\ k.view = calls[w].view /\ k.crowded = calls[w].crowded
    BY <2>1, AtRecord
  <2> QED
    BY <2>1, <2>2, <2>3, RecordMoves
<1>3. CASE OnOpen(w)
  <2>1. PICK f \in Frame : f = [type |-> "message", sessionId |-> calls[w].view]
    BY <1>0, <1>3 DEF OnOpen, Frame, Active, WebInv, Typed
  <2>2. up' \in [Sockets -> Seq(Frame)]
    BY <1>3, <2>1, FrameSent DEF OnOpen, WebInv
  <2>3. /\ ready' \in [Sockets -> {"closed", "connecting", "open", "closing"}]
        /\ \A u \in Sockets : ready'[u] = "closed" <=> ready[u] = "closed"
    BY <1>3 DEF OnOpen, WebInv, Typed
  <2> QED
    BY <1>3, <2>2, <2>3, WireKeeps DEF OnOpen, view
<1>4. CASE OnTurnEnd(w)
  <2>1. Typed /\ Active(w) /\ calls' = At(w, "storing", "closing")
        /\ ready' = [ready EXCEPT ![w] = "closing"] /\ ready[w] = "open"
        /\ up' \in [Sockets -> Seq(Frame)] /\ UNCHANGED <<wsRef, segs>>
    BY <1>0, <1>4 DEF OnTurnEnd, WebInv, Typed, view
  <2>2. PICK k \in Call :
           /\ At(w, "storing", "closing") = [calls EXCEPT ![w] = k]
           /\ k.pc = "storing" /\ k.view = calls[w].view /\ k.crowded = calls[w].crowded
    BY <2>1, AtRecord
  <2>3. PICK s \in {"closed", "connecting", "open", "closing"} : s = "closing"
    OBVIOUS
  <2>4. ready' = [ready EXCEPT ![w] = s] /\ s # "closed" /\ ready[w] # "closed"
        /\ calls' = [calls EXCEPT ![w] = k] /\ wsRef' = wsRef /\ segs' = segs
    BY <2>1, <2>2, <2>3
  <2> QED
    BY <2>1, <2>2, <2>4, RecordMoves
<1>5. CASE OnClose(w)
  <2>1. PICK pc \in {"streaming", "storing", "done"} :
           pc = IF calls[w].pc = "streaming" THEN "storing" ELSE calls[w].pc
    BY <1>0, <1>5 DEF OnClose, Active
  <2>2. Typed /\ Active(w) /\ calls' = At(w, pc, "closed")
        /\ ready' = [ready EXCEPT ![w] = "closed"] /\ ready[w] # "closed"
        /\ wsRef' = [wsRef EXCEPT ![calls[w].view] = None]
        /\ up' \in [Sockets -> Seq(Frame)] /\ UNCHANGED segs
    BY <1>0, <1>5, <2>1 DEF OnClose, WebInv, Typed
  <2>3. PICK k \in Call :
           /\ At(w, pc, "closed") = [calls EXCEPT ![w] = k]
           /\ \/ k = NoCall
              \/ k.pc = pc /\ k.view = calls[w].view /\ k.crowded = calls[w].crowded
    <3>1. pc \in {"streaming", "storing", "done"} /\ Typed /\ Active(w)
      BY <2>1, <2>2
    <3> QED
      BY <3>1, AtRecord
  <2>4. PICK s \in {"closed", "connecting", "open", "closing"} : s = "closed"
    OBVIOUS
  <2>5. /\ ready' = [ready EXCEPT ![w] = s] /\ calls' = [calls EXCEPT ![w] = k]
        /\ wsRef' = [wsRef EXCEPT ![calls[w].view] = None] /\ s = "closed" /\ ready[w] # "closed"
        /\ \/ k = NoCall /\ s = "closed"
           \/ /\ k.pc \in {"streaming", "storing", "done"}
              /\ k.view = calls[w].view /\ k.crowded = calls[w].crowded
    BY <2>2, <2>3, <2>4
  <2> QED
    BY <2>2, <2>5, RecordMoves
<1>6. CASE Accept(w)
  BY <1>6, WireKeeps DEF Accept, WebInv, Typed, view, wire
<1>7. CASE Hangup(w)
  BY <1>7, WireKeeps DEF Hangup, WebInv, Typed, view
<1>8. ASSUME NEW t \in Turns, Deliver(w, t)
      PROVE  WebInv'
  <2>1. up' \in [Sockets -> Seq(Frame)]
    BY <1>8, FrameTaken DEF Deliver, WebInv
  <2>2. ready' = ready /\ ready \in [Sockets -> {"closed", "connecting", "open", "closing"}]
        /\ UNCHANGED <<calls, wsRef, segs>>
    BY <1>8 DEF Deliver, WebInv, Typed, view
  <2> QED
    BY <2>1, <2>2, WireKeeps
<1>9. CASE Lost(w)
  <2>1. PICK pc \in {"storing", "done"} : calls' = At(w, pc, "closed")
    BY <1>9 DEF Lost
  <2>2. up' \in [Sockets -> Seq(Frame)]
    <3>1. up \in [Sockets -> Seq(Frame)] /\ <<>> \in Seq(Frame)
      BY DEF WebInv, Typed
    <3> QED
      BY <1>9, <3>1 DEF Lost
  <2>3. Typed /\ Active(w) /\ ready' = [ready EXCEPT ![w] = "closed"] /\ ready[w] # "closed"
        /\ wsRef' = [wsRef EXCEPT ![calls[w].view] = None] /\ UNCHANGED segs
    BY <1>0, <1>9 DEF Lost, WebInv
  <2>4. PICK k \in Call :
           /\ At(w, pc, "closed") = [calls EXCEPT ![w] = k]
           /\ \/ k = NoCall
              \/ k.pc = pc /\ k.view = calls[w].view /\ k.crowded = calls[w].crowded
    BY <2>1, <2>3, AtRecord
  <2> QED
    BY <2>1, <2>2, <2>3, <2>4, RecordMoves
<1> QED
  BY <1>1, <1>2, <1>3, <1>4, <1>5, <1>6, <1>7, <1>8, <1>9 DEF Progress

LEMMA WebStep == WebInv /\ [WebNext]_webVars => WebInv'
<1> SUFFICES ASSUME WebInv, [WebNext]_webVars
             PROVE  WebInv'
  OBVIOUS
<1>1. ASSUME NEW w \in Sockets, NEW t \in Turns, OnUpdate(w, t)
      PROVE  WebInv'
  <2>1. Active(w) /\ calls[w].view \in Sessions
    BY <1>1 DEF OnUpdate, Active, WebInv, Typed
  <2> QED
    BY <1>1, <2>1, SegmentsKeep DEF OnUpdate, wire
<1>2. ASSUME NEW t \in Turns, StreamEnds(t)
      PROVE  WebInv'
  BY <1>2, WireKeeps DEF StreamEnds, WebInv, Typed, view
<1>3. CASE UNCHANGED webVars
  BY <1>3, WireKeeps DEF webVars, WebInv, Typed, view, wire
<1> QED
  BY <1>1, <1>2, <1>3, UserKeeps, EffectKeeps, ProgressKeeps DEF WebNext

\* The submissions, sockets and refs of all views stay in order.
LEMMA WebAlways == WebSpec => []WebInv
  BY WebStart, WebStep, PTL DEF WebSpec

\* The segments saved with a reply are those of its own turn, unless another submission of
\* the view streamed meanwhile (use-chat-stream.ts:59-64, 351).
THEOREM RepliesUnmixedCorrect == WebSpec => []RepliesUnmixed
<1>1. WebInv => RepliesUnmixed
  BY DEF WebInv, Unmixed, Active, RepliesUnmixed
<1> QED
  BY <1>1, WebAlways, PTL

\* Stop, steer and queue reach the socket on which a reply streams, unless another
\* submission of the view streamed meanwhile (57, 336).
THEOREM StopReachableCorrect == WebSpec => []StopReachable
<1>1. WebInv => StopReachable
  BY DEF WebInv, RefHeld, Active, StopReachable
<1> QED
  BY <1>1, WebAlways, PTL

-----------------------------------------------------------------------------
(* The gateway under the view *)

\* Every step of the browser and of the network is a step of the gateway or none.
LEMMA WebRefines == WebInv /\ [WebNext]_webVars => [Next]_vars
<1> SUFFICES ASSUME WebInv, [WebNext]_webVars
             PROVE  [Next]_vars
  OBVIOUS
<1>1. ASSUME NEW v \in Sessions, UserStep(v) \/ EffectRuns(v) \/ Refetched(v)
      PROVE  UNCHANGED vars
  BY <1>1 DEF UserStep, Enqueue, Steer, HandleCancel, Submit, EffectRuns, DrainNothing, Drain,
              Refetched
<1>2. ASSUME NEW w \in Sockets, NEW t \in Turns, Deliver(w, t)
      PROVE  Next
  <2>1. Head(up[w]) \in Frame
    BY <1>2, FrameTaken DEF Deliver, WebInv
  <2>2. PICK s \in Sessions : s = Head(up[w]).sessionId
    BY <2>1 DEF Frame
  <2> QED
    BY <1>2, <2>2 DEF Deliver, Next
<1>3. ASSUME NEW w \in Sockets, Progress(w) \/ Lost(w)
      PROVE  [Next]_vars
  BY <1>2, <1>3 DEF Progress, Saved, Stored, OnOpen, OnTurnEnd, OnClose, Accept, Hangup, Lost, Next
<1>4. ASSUME NEW w \in Sockets, NEW t \in Turns, OnUpdate(w, t)
      PROVE  UNCHANGED vars
  BY <1>4 DEF OnUpdate
<1>5. ASSUME NEW t \in Turns, StreamEnds(t)
      PROVE  Next
  BY <1>5 DEF StreamEnds, Next
<1>6. CASE UNCHANGED webVars
  BY <1>6 DEF webVars
<1> QED
  BY <1>1, <1>3, <1>4, <1>5, <1>6 DEF WebNext

\* The view and its sockets implement the gateway's specification: whatever the browser
\* does and the network loses, ws.ts goes through its own steps only, so what was proved
\* of it (RegisteredIsLive, OneLiveTurn, NoOrphanTurn) holds of the web chat.
THEOREM WebImplementsGateway == WebSpec => Spec
<1>1. WebInit => Init
  BY DEF WebInit
<1> QED
  BY <1>1, WebAlways, WebRefines, PTL DEF WebSpec, Spec

\* In the web chat at most one turn of a session goes on among those that have their
\* entry, and it streams to an open socket (ws.ts:55-59, 71-78, 98).
THEOREM WebTurnsCorrect == WebSpec => [](RegisteredIsLive /\ OneLiveTurn /\ NoOrphanTurn)
BY WebImplementsGateway, RegisteredCorrect, LiveTurnCorrect, OrphanCorrect, PTL
=============================================================================
