---------------------------- MODULE SandboxAgent ----------------------------
(***************************************************************************)
(* packages/sandbox-server: agent sessions inside one sandbox, their turns *)
(* and the abort controllers of these (agent.ts, the session routes of     *)
(* server.ts), and the scan of the workspace they all share for files the  *)
(* agent wrote (file-scanner.ts).  The agent provider is external.         *)
(***************************************************************************)
EXTENDS Naturals, FiniteSets

CONSTANTS
    Sessions,   \* session ids
    Turns,      \* slots for requests to POST /sessions/:id/messages
    Files,      \* paths of the workspace outside the excluded directories
    MaxWrites,  \* bound on the writes to a file
    None

ASSUME AgentAssumption ==
    /\ MaxWrites \in Nat
    /\ None \notin Turns \cup Sessions

VARIABLES
    sessions,     \* sessions the provider has created
    controllers,  \* activeTurnControllers: [Sessions -> turn whose controller it is]
    turns,        \* [Turns -> where the turn is]
    snapshots,    \* [Sessions -> snapshot kept for the next turn]
    version,      \* [Files -> mtime and size], of the shared workspace
    reported,     \* history: [Sessions -> file versions announced by file_output]
    owed,         \* history: [Sessions -> files its turns wrote and no scan has seen]
    overlapped    \* history: sessions that got a message while a turn of theirs ran

vars == <<sessions, controllers, turns, snapshots, version, reported, owed, overlapped>>
files == <<snapshots, version, reported, owed>>

Snapshot == [Files -> 0..MaxWrites]
NoSnapshot == [f \in {} |-> 0]

Idle == [pc |-> "idle", session |-> None, aborted |-> FALSE, snapshot |-> NoSnapshot]
Turn == [pc: {"idle", "running", "persisting"}, session: Sessions \cup {None},
         aborted: BOOLEAN, snapshot: Snapshot \cup {NoSnapshot}]

TypeOK ==
    /\ sessions \subseteq Sessions
    /\ controllers \in [Sessions -> Turns \cup {None}]
    /\ turns \in [Turns -> Turn]
    /\ snapshots \in [Sessions -> Snapshot \cup {NoSnapshot}]
    /\ version \in Snapshot
    /\ reported \in [Sessions -> SUBSET (Files \X (0..MaxWrites))]
    /\ owed \in [Sessions -> SUBSET Files]
    /\ overlapped \subseteq Sessions

Init ==
    /\ sessions = {}
    /\ controllers = [s \in Sessions |-> None]
    /\ turns = [t \in Turns |-> Idle]
    /\ snapshots = [s \in Sessions |-> NoSnapshot]
    /\ version = [f \in Files |-> 0]
    /\ reported = [s \in Sessions |-> {}]
    /\ owed = [s \in Sessions |-> {}]
    /\ overlapped = {}

InProgress(s) == {t \in Turns : turns[t].session = s}

-----------------------------------------------------------------------------
(* Sessions *)

\* POST /sessions: the provider makes a session, replacing one of that id.
CreateSession(s) ==
    /\ sessions' = sessions \cup {s}
    /\ UNCHANGED <<controllers, turns, files, overlapped>>

\* Mutant: cancelling forgets the controller without aborting it.
CancelledSilently(s) == turns

\* The turns after the registered controller of s has been aborted.
Cancelled(s) ==
    LET t == controllers[s] IN
    IF t = None THEN turns ELSE [turns EXCEPT ![t].aborted = TRUE]

\* POST /sessions/:id/cancel
CancelSession(s) ==
    /\ s \in sessions
    /\ turns' = Cancelled(s)
    /\ controllers' = [controllers EXCEPT ![s] = None]
    /\ UNCHANGED <<sessions, files, overlapped>>

\* DELETE /sessions/:id
DeleteSession(s) ==
    /\ s \in sessions
    /\ sessions' = sessions \ {s}
    /\ turns' = Cancelled(s)
    /\ controllers' = [controllers EXCEPT ![s] = None]
    /\ snapshots' = [snapshots EXCEPT ![s] = NoSnapshot]
    /\ UNCHANGED <<version, reported, owed, overlapped>>

-----------------------------------------------------------------------------
(* A turn *)

\* POST /sessions/:id/messages up to the first event awaited from the provider.  The
\* client may have gone before the body was read.
StartTurn(t, s) ==
    /\ turns[t] = Idle
    /\ s \in sessions
    /\ overlapped' = IF InProgress(s) = {} THEN overlapped ELSE overlapped \cup {s}
    /\ controllers' = [controllers EXCEPT ![s] = t]
    /\ \E gone \in BOOLEAN :
         turns' = [turns EXCEPT ![t] =
             [pc |-> "running", session |-> s, aborted |-> gone,
              snapshot |-> IF snapshots[s] = NoSnapshot THEN version ELSE snapshots[s]]]
    /\ UNCHANGED <<sessions, files>>

\* The SSE client disconnects.
Disconnect(t) ==
    /\ turns[t] # Idle /\ ~turns[t].aborted
    /\ turns' = [turns EXCEPT ![t].aborted = TRUE]
    /\ UNCHANGED <<sessions, controllers, files, overlapped>>

\* A tool of the turn, or a process it left behind, writes a file.
Write(t, f) ==
    /\ turns[t].pc = "running"
    /\ version[f] < MaxWrites
    /\ version' = [version EXCEPT ![f] = @ + 1]
    /\ owed' = [owed EXCEPT ![turns[t].session] = @ \cup {f}]
    /\ UNCHANGED <<sessions, controllers, turns, snapshots, reported, overlapped>>

\* scanForArtifacts in turn t, which goes on at pc: announce what differs from the
\* turn's snapshot, and advance the snapshot.
Scan(t, pc) ==
    LET s       == turns[t].session
        changed == {f \in Files : version[f] # turns[t].snapshot[f]}
    IN
    /\ reported' = [reported EXCEPT ![s] = @ \cup {<<f, version[f]>> : f \in changed}]
    /\ owed' = [owed EXCEPT ![s] = @ \ changed]
    /\ turns' = [turns EXCEPT ![t].pc = pc, ![t].snapshot = version]

\* The scan after tool_call_end.
ToolCallEnd(t) ==
    /\ turns[t].pc = "running"
    /\ Scan(t, "running")
    /\ UNCHANGED <<sessions, controllers, snapshots, version, overlapped>>

\* Mutant: no scan for stragglers at the end of a turn.
StreamEndsUnscanned(t) ==
    /\ turns[t].pc = "running"
    /\ turns' = [turns EXCEPT ![t].pc = "persisting"]
    /\ UNCHANGED <<sessions, controllers, files, overlapped>>

\* The provider's stream ends, also that of an aborted turn: scan once more, and hand
\* the event over before going on.
StreamEnds(t) ==
    /\ turns[t].pc = "running"
    /\ Scan(t, "persisting")
    /\ UNCHANGED <<sessions, controllers, snapshots, version, overlapped>>

\* Mutant: the next turn starts from the workspace as it is now.
PersistNow(t) ==
    /\ turns[t].pc = "persisting"
    /\ snapshots' = [snapshots EXCEPT ![turns[t].session] = version]
    /\ controllers' = [controllers EXCEPT ![turns[t].session] = None]
    /\ turns' = [turns EXCEPT ![t] = Idle]
    /\ UNCHANGED <<sessions, version, reported, owed, overlapped>>

\* Keep the snapshot for the next turn; the `finally` clears the session's controller,
\* whosever it is.
Persist(t) ==
    /\ turns[t].pc = "persisting"
    /\ snapshots' = [snapshots EXCEPT ![turns[t].session] = turns[t].snapshot]
    /\ controllers' = [controllers EXCEPT ![turns[t].session] = None]
    /\ turns' = [turns EXCEPT ![t] = Idle]
    /\ UNCHANGED <<sessions, version, reported, owed, overlapped>>

\* The provider's stream throws, or the consumer leaves at one of the yields, those of
\* file_output included: only the `finally` runs, nothing is announced or recorded.
TurnThrows(t) ==
    /\ turns[t] # Idle
    /\ controllers' = [controllers EXCEPT ![turns[t].session] = None]
    /\ turns' = [turns EXCEPT ![t] = Idle]
    /\ owed' = [owed EXCEPT ![turns[t].session] = {}]
    /\ UNCHANGED <<sessions, snapshots, version, reported, overlapped>>

Next ==
    \/ \E s \in Sessions : CreateSession(s) \/ CancelSession(s) \/ DeleteSession(s)
    \/ \E t \in Turns :
         \/ \E s \in Sessions : StartTurn(t, s)
         \/ \E f \in Files : Write(t, f)
         \/ Disconnect(t) \/ ToolCallEnd(t) \/ StreamEnds(t) \/ Persist(t) \/ TurnThrows(t)

Spec == Init /\ [][Next]_vars

-----------------------------------------------------------------------------
(* Properties *)

\* "Returns true if there was an active turn to cancel, false if the session has no
\* in-progress turn" (agent.ts:287-288): a running turn that has not been aborted is the
\* one cancelSession would abort - unless turns of the session overlapped: the one that
\* ends first removes the controller of the other (235).
Cancellable ==
    \A t \in Turns :
        turns[t].pc = "running" /\ ~turns[t].aborted /\ turns[t].session \notin overlapped
          => controllers[turns[t].session] = t

\* When a turn's stream has ended, all that the turns of its session wrote has been
\* announced, unless the turn threw: "Final scan after the turn completes to catch
\* stragglers" (agent.ts:224), whatever other sessions write to the same files.
WritesAnnounced ==
    \A t \in Turns :
        turns[t].pc = "persisting" /\ turns[t].session \notin overlapped
          => owed[turns[t].session] = {}

\* A file version enters the snapshot that later turns start from only after it was
\* announced to the session, or was there when its first turn began (turns that do not
\* overlap).
NothingSkipped ==
    [][\A s \in Sessions \ overlapped :
          snapshots[s] # NoSnapshot /\ snapshots'[s] # NoSnapshot =>
            \A f \in Files :
                snapshots'[s][f] # snapshots[s][f] => <<f, snapshots'[s][f]>> \in reported[s]]_vars
=============================================================================
