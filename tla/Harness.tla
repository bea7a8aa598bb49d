------------------------------ MODULE Harness ------------------------------
(***************************************************************************)
(* packages/pi-harness: the standalone server's sessions (server.ts,       *)
(* session-manager.ts) with its sweep of idle ones, and the terminal       *)
(* client (tui.ts) next to other HTTP clients.  The agent provider is      *)
(* external; a session entry holds its own agent, so an entry replaced or  *)
(* removed leaves a turn of it running.                                    *)
(***************************************************************************)
EXTENDS Naturals, FiniteSets

CONSTANTS
    Ids,          \* session ids
    Entries,      \* identities of HarnessSession objects (bounds those in use)
    Posts,        \* slots for requests to POST /sessions/:id/messages
    MaxSessions,  \* config.maxSessions, 0 = unlimited
    IdleTimeout,  \* config.sessionIdleTimeoutMinutes, 0 = never
    MaxClock,     \* bound: minutes
    None

VARIABLES
    live,       \* the Map: [ids with a session -> its entry]
    lastActive, \* [Entries -> lastActiveAt]
    clock,      \* minutes; the sweep runs at each
    posts,      \* [Posts -> the request there, or Idle]
    tui,        \* the terminal's [up, closing, session, controller, isStreaming]
    reading,    \* streamResponse calls of the terminal in progress: requests
    removed     \* history: entries deleted or replaced on request

server  == <<live, lastActive, clock, removed>>
terminal == <<tui, reading>>
vars    == <<server, posts, terminal>>

Idle == [pc |-> "idle"]
Post == [pc: {"posted", "running", "over"}, id: Ids, entry: Entries \cup {None},
         since: 0 .. MaxClock, aborted: BOOLEAN]

TypeOK ==
    /\ DOMAIN live \subseteq Ids /\ \A i \in DOMAIN live : live[i] \in Entries
    /\ lastActive \in [Entries -> 0 .. MaxClock] /\ clock \in 0 .. MaxClock
    /\ posts \in [Posts -> Post \cup {Idle}]
    /\ tui \in [up: BOOLEAN, closing: BOOLEAN, session: Ids \cup {None},
                controller: Posts \cup {None}, isStreaming: BOOLEAN]
    /\ reading \subseteq Posts /\ removed \subseteq Entries

NoTerminal == [up |-> FALSE, closing |-> FALSE, session |-> None, controller |-> None,
               isStreaming |-> FALSE]

Init ==
    /\ live = [i \in {} |-> None] /\ lastActive = [e \in Entries |-> 0] /\ clock = 0
    /\ posts = [p \in Posts |-> Idle]
    /\ tui = NoTerminal
    /\ reading = {} /\ removed = {}

-----------------------------------------------------------------------------
(* Sessions *)

HasSession(i) == i \in DOMAIN live

InUse == {live[i] : i \in DOMAIN live}
         \cup {posts[p].entry : p \in {q \in Posts : posts[q].pc = "running"}}

\* createSession: the limit counts the entry it may be about to replace.
CreateSession(i) ==
    /\ MaxSessions = 0 \/ Cardinality(DOMAIN live) < MaxSessions
    /\ \E e \in Entries \ InUse :
         /\ removed' = (removed \ {e}) \cup (IF HasSession(i) THEN {live[i]} ELSE {})
         /\ live' = [j \in DOMAIN live \cup {i} |-> IF j = i THEN e ELSE live[j]]
         /\ lastActive' = [lastActive EXCEPT ![e] = clock]
    /\ UNCHANGED clock

DeleteSession(i) ==
    /\ HasSession(i)
    /\ live' = [j \in DOMAIN live \ {i} |-> live[j]]
    /\ removed' = removed \cup {live[i]}
    /\ UNCHANGED <<lastActive, clock>>

Create(i) == CreateSession(i) /\ UNCHANGED <<posts, terminal>>
Delete(i) == DeleteSession(i) /\ UNCHANGED <<posts, terminal>>

\* The interval of startIdleCleanup: what was last active longer than the timeout
\* ago goes, in a turn or not.
Minute ==
    /\ clock < MaxClock /\ clock' = clock + 1
    /\ live' = [i \in {j \in DOMAIN live : IdleTimeout = 0
                                        \/ clock' - lastActive[live[j]] <= IdleTimeout}
                   |-> live[i]]
    /\ UNCHANGED <<lastActive, removed, posts, terminal>>

-----------------------------------------------------------------------------
(* Messages *)

Submit(p, i) ==
    /\ posts[p] = Idle /\ p \notin reading
    /\ posts' = [posts EXCEPT ![p] =
           [pc |-> "posted", id |-> i, entry |-> None, since |-> clock, aborted |-> FALSE]]

HttpMessage(p, i) == Submit(p, i) /\ UNCHANGED <<server, terminal>>

\* Mutant: lastActiveAt is written in the `finally` only.
BeginUntouched(p) ==
    LET i == posts[p].id IN
    /\ posts[p].pc = "posted"
    /\ posts' = [posts EXCEPT ![p] = IF HasSession(i)
                     THEN [@ EXCEPT !.pc = "running", !.entry = live[i], !.since = clock]
                     ELSE [@ EXCEPT !.pc = "over"]]
    /\ UNCHANGED <<server, terminal>>

\* The server has the body: sendMessage looks the session up and marks it active.
Begin(p) ==
    LET i == posts[p].id IN
    /\ posts[p].pc = "posted"
    /\ IF HasSession(i)
       THEN /\ posts' = [posts EXCEPT ![p].pc = "running", ![p].entry = live[i],
                                      ![p].since = clock]
            /\ lastActive' = [lastActive EXCEPT ![live[i]] = clock]
       ELSE /\ posts' = [posts EXCEPT ![p].pc = "over"]
            /\ UNCHANGED lastActive
    /\ UNCHANGED <<live, clock, removed, terminal>>

\* The agent's stream ends or throws, by itself or because it was aborted.
End(p) ==
    /\ posts[p].pc = "running"
    /\ posts' = [posts EXCEPT ![p].pc = "over"]
    /\ lastActive' = [lastActive EXCEPT ![posts[p].entry] = clock]
    /\ UNCHANGED <<live, clock, removed, terminal>>

\* The response is over for an HTTP client.
Answered(p) ==
    /\ posts[p].pc = "over" /\ p \notin reading
    /\ posts' = [posts EXCEPT ![p] = Idle]
    /\ UNCHANGED <<server, terminal>>

Abort(ps) == [p \in Posts |-> IF p \in ps /\ posts[p] # Idle
                              THEN [posts[p] EXCEPT !.aborted = TRUE] ELSE posts[p]]

\* An HTTP client disconnects: the SSE stream's onAbort.
Hangup(p) ==
    /\ p \notin reading /\ posts[p] # Idle /\ ~posts[p].aborted
    /\ posts' = Abort({p})
    /\ UNCHANGED <<server, terminal>>

-----------------------------------------------------------------------------
(* The terminal *)

Takes == tui.up /\ ~tui.closing  \* lines and keys

\* start, with --session or a new one.
Start(i) ==
    /\ ~tui.up
    /\ tui' = [tui EXCEPT !.up = TRUE, !.session = i]
    /\ CreateSession(i) \/ UNCHANGED server
    /\ UNCHANGED <<posts, reading>>

\* /new and /switch leave the old session on the server.
NewSession(i) ==
    /\ Takes /\ tui' = [tui EXCEPT !.session = i]
    /\ CreateSession(i)
    /\ UNCHANGED <<posts, reading>>

Switch(i) ==
    /\ Takes /\ tui.session # i /\ tui' = [tui EXCEPT !.session = i]
    /\ UNCHANGED <<server, posts, reading>>

\* A line is typed: streamResponse, also while another one runs.
Line(p) ==
    /\ Takes /\ Submit(p, tui.session)
    /\ tui' = [tui EXCEPT !.controller = p, !.isStreaming = TRUE]
    /\ reading' = reading \cup {p}
    /\ UNCHANGED server

\* The `finally` of streamResponse: whichever call ends, the fields are cleared.
Unmark(p) ==
    /\ reading' = reading \ {p}
    /\ tui' = [tui EXCEPT !.controller = None, !.isStreaming = FALSE]

\* streamResponse ends: by turn_end, an error of the server, or its own abort.
ReadEnds(p) ==
    /\ p \in reading /\ (posts[p].pc = "over" \/ posts[p].aborted)
    /\ Unmark(p)
    /\ UNCHANGED <<server, posts>>

\* The fetch or the read of its stream fails: the request did not arrive, or the
\* server sees the connection go, or it goes on without noticing.
ReadFails(p) ==
    /\ p \in reading /\ Unmark(p)
    /\ \/ posts[p].pc = "posted" /\ posts' = [posts EXCEPT ![p] = Idle]
       \/ posts' = Abort({p})
       \/ UNCHANGED posts
    /\ UNCHANGED server

\* /quit, or the end of the input: shutdown, up to the awaited DELETE.
Quit ==
    /\ Takes /\ tui' = [tui EXCEPT !.closing = TRUE]
    /\ UNCHANGED <<server, posts, reading>>

\* Ctrl+C: readline, which nobody asked for SIGINT, closes as on /quit, and the
\* keypress handler aborts the reply.
CancelStream ==
    /\ Takes /\ tui' = [tui EXCEPT !.closing = TRUE]
    /\ tui.isStreaming /\ tui.controller # None
    /\ posts' = Abort({tui.controller})
    /\ UNCHANGED <<server, reading>>

\* The session in view is deleted, if the request gets through, and the process
\* exits with its connections.
Shutdown ==
    /\ tui.closing /\ tui' = NoTerminal
    /\ (HasSession(tui.session) /\ DeleteSession(tui.session)) \/ UNCHANGED server
    /\ posts' = Abort(reading)
    /\ reading' = {}

Next ==
    \/ Minute \/ Quit \/ CancelStream \/ Shutdown
    \/ \E i \in Ids : Create(i) \/ Delete(i) \/ Start(i) \/ NewSession(i) \/ Switch(i)
    \/ \E p \in Posts : \/ Begin(p) \/ End(p) \/ Answered(p) \/ Hangup(p)
                        \/ Line(p) \/ ReadEnds(p) \/ ReadFails(p)
                        \/ \E i \in Ids : HttpMessage(p, i)

Spec == Init /\ [][Next]_vars

-----------------------------------------------------------------------------
(* Properties *)

\* The sweep spares a session whose turn began within the timeout, however long
\* the session had been idle before: steering and deleting still find it.
TurnKeepsSession ==
    \A p \in Posts :
        posts[p].pc = "running" /\ posts[p].entry \notin removed
        /\ clock - posts[p].since <= IdleTimeout
          => HasSession(posts[p].id) /\ live[posts[p].id] = posts[p].entry
=============================================================================
