------------------------ MODULE OrchestratorSessions ------------------------
(***************************************************************************)
(* packages/orchestrator/src/session-manager.ts: the sessions of one user  *)
(* and the sandbox they share.  The registry lives in the orchestrator,    *)
(* the agent sessions live in the sandbox; messages are proxied with one   *)
(* retry.  SandboxManager is represented by what this class sees of it:    *)
(* the cached SandboxState, and the pod behind it.                         *)
(***************************************************************************)
EXTENDS Naturals, FiniteSets

CONSTANTS
    Sessions,   \* session ids of the user
    Calls,      \* slots for calls in progress
    Ops,        \* operations callers use
    FaultKinds, \* which outside failures happen
    MaxFaults,  \* bound on their number
    MaxStates,  \* bound on the number of SandboxState objects
    None

AllOps == {"create", "send", "delete", "destroy", "file"}
AllFaults == {"ensure", "http", "lost", "tunnel", "health", "db"}

VARIABLES
    registry,  \* sessions: ids in the Map
    cached,    \* the number of the cached ready SandboxState, 0 without one
    tracked,   \* its activeSessions
    box,       \* [Sessions -> how often the live pod was told to create the session]
    calls,     \* [Calls -> call in progress]
    states,    \* SandboxState objects so far (bound)
    faults,    \* failures so far (bound)
    disturbed  \* history: a probe has failed, the sandbox was destroyed, or a session was
               \* deleted while another call was creating it

sandbox == <<cached, tracked, box, states>>
vars    == <<registry, sandbox, calls, faults, disturbed>>

Empty == [s \in Sessions |-> 0]

\* state: the SandboxState ensureSandbox returned; ran: how often the agent ran the
\* prompt; seen: the caller got an event of the turn.
Idle == [pc |-> "idle", op |-> None, session |-> None, state |-> 0, ran |-> 0, seen |-> FALSE]

PCs == {"idle", "ensure", "post", "upload", "registered", "touch", "stream", "refresh",
        "retry", "events", "touchAgain", "download", "remove", "unregister", "destroy"}

TypeOK ==
    /\ registry \subseteq Sessions
    /\ cached \in 0..MaxStates /\ states \in 0..MaxStates
    /\ tracked \subseteq Sessions
    /\ box \in [Sessions -> Nat]
    /\ calls \in [Calls -> [pc: PCs, op: AllOps \cup {None}, session: Sessions \cup {None},
                            state: 0..MaxStates, ran: 0..2, seen: BOOLEAN]]
    /\ faults \in 0..MaxFaults /\ disturbed \in BOOLEAN

Init ==
    /\ registry = {}
    /\ cached = 0 /\ tracked = {} /\ box = Empty /\ states = 0
    /\ calls = [c \in Calls |-> Idle]
    /\ faults = 0 /\ disturbed = FALSE

Strikes(k) == k \in FaultKinds /\ faults < MaxFaults /\ faults' = faults + 1
Fault(k)   == Strikes(k) /\ UNCHANGED disturbed
Works      == UNCHANGED <<faults, disturbed>>

Goto(c, pc) == calls' = [calls EXCEPT ![c].pc = pc]
Finish(c)   == calls' = [calls EXCEPT ![c] = Idle]
At(c, pc)   == calls[c].pc = pc

\* Some call is between these steps of its work on session s.
Busy(s, pcs) == \E d \in Calls : calls[d].session = s /\ calls[d].pc \in pcs
Creating(s)  == Busy(s, {"ensure", "post", "upload"})
Deleting(s)  == Busy(s, {"download", "remove", "unregister"})

Start(c, op, s, pc) ==
    /\ At(c, "idle") /\ op \in Ops
    /\ calls' = [calls EXCEPT ![c] = [Idle EXCEPT !.pc = pc, !.op = op, !.session = s]]
    /\ UNCHANGED faults

-----------------------------------------------------------------------------
(* createSession, also called by sendMessage for a session it does not know *)

\* A registered session is returned, or messaged, as it is.
Begin(c, s) ==
    /\ \/ s \notin registry /\ Start(c, "create", s, "ensure")
       \/ Start(c, "send", s, IF s \in registry THEN "touch" ELSE "ensure")
    /\ disturbed' = (disturbed \/ (s \notin registry /\ Deleting(s)))
    /\ UNCHANGED <<registry, sandbox>>

\* pushKBFile, uploadFiles and the user-file operations ensure the sandbox first.
FileOp(c) ==
    /\ Start(c, "file", None, "ensure")
    /\ UNCHANGED <<registry, sandbox, disturbed>>

\* ensureSandbox returns the cached state, or a new one: reattached to the pod or to a
\* new pod.  A file operation then makes its request and is over.
Ensure(c) ==
    /\ At(c, "ensure")
    /\ \/ cached # 0 /\ UNCHANGED sandbox
       \/ /\ cached = 0 /\ states < MaxStates
          /\ states' = states + 1 /\ cached' = states'
          /\ tracked' = {}
          /\ box' \in {box, Empty}
    /\ IF calls[c].op = "file" THEN Finish(c)
       ELSE calls' = [calls EXCEPT ![c].pc = "post", ![c].state = cached']
    /\ Works /\ UNCHANGED registry

\* getHttpClient, then POST /sessions (after the skill files, best effort).
Post(c) ==
    /\ At(c, "post") /\ cached # 0
    /\ box' = [box EXCEPT ![calls[c].session] = @ + 1]
    /\ Goto(c, "upload")
    /\ Works /\ UNCHANGED <<registry, cached, tracked, states>>

\* Something in between throws: no sandbox for getHttpClient, or a request that fails
\* before or after the sandbox has handled it.
CreateThrows(c) ==
    /\ \/ At(c, "ensure") /\ Fault("ensure") /\ UNCHANGED box
       \/ At(c, "post") /\ cached = 0 /\ Works /\ UNCHANGED box
       \/ At(c, "post") /\ Fault("http") /\ UNCHANGED box
       \/ /\ At(c, "post") /\ cached # 0 /\ Fault("http")
          /\ box' = [box EXCEPT ![calls[c].session] = @ + 1]
    /\ Finish(c)
    /\ UNCHANGED <<registry, cached, tracked, states>>

\* Mutant: the session is not added to activeSessions.
RegisterUntracked(c) ==
    /\ At(c, "upload")
    /\ registry' = registry \cup {calls[c].session}
    /\ Goto(c, "registered")
    /\ Works /\ UNCHANGED <<cached, tracked, box, states>>

\* The memory upload is over, best effort: track the session in the state that
\* ensureSandbox returned, which may have been replaced, and register it.
Register(c) ==
    LET s == calls[c].session IN
    /\ At(c, "upload")
    /\ tracked' = IF calls[c].state = cached THEN tracked \cup {s} ELSE tracked
    /\ registry' = registry \cup {s}
    /\ Goto(c, "registered")
    /\ Works /\ UNCHANGED <<cached, box, states>>

\* touchSandbox is over: createSession returns; sendMessage looks the session up again.
Registered(c) ==
    /\ At(c, "registered")
    /\ IF calls[c].op = "send" /\ calls[c].session \in registry
       THEN Goto(c, "touch") ELSE Finish(c)
    /\ Works /\ UNCHANGED <<registry, sandbox>>

-----------------------------------------------------------------------------
(* sendMessage *)

\* touchSandbox, then getHttpClient: without a cached sandbox the message ends here, with
\* "SandboxNotFoundError" (nothing resumes the sandbox of a registered session).
Touch(c) ==
    /\ At(c, "touch")
    /\ IF cached = 0 THEN Finish(c) ELSE Goto(c, "stream")
    /\ Works /\ UNCHANGED <<registry, sandbox>>

\* POST /sessions/:id/messages reaches the sandbox: unknown session, or the turn runs and
\* its first event comes back.
Stream(c) ==
    /\ calls[c].pc \in {"stream", "retry"} /\ cached # 0
    /\ IF box[calls[c].session] = 0 THEN Goto(c, "touchAgain")
       ELSE calls' = [calls EXCEPT ![c].pc = "events", ![c].ran = @ + 1, ![c].seen = TRUE]
    /\ Works /\ UNCHANGED <<registry, sandbox>>

\* "fetch failed" or ECONNREFUSED: nobody listens, the tunnel is dead, or it dies after
\* the sandbox has taken the request.  The first attempt is followed by a recovery.
FetchFails(c) ==
    /\ calls[c].pc \in {"stream", "retry"}
    /\ LET next == IF At(c, "stream") THEN "refresh" ELSE "touchAgain" IN
       \/ /\ IF cached = 0 THEN Works ELSE Fault("tunnel")
          /\ Goto(c, next)
       \/ /\ cached # 0 /\ box[calls[c].session] > 0
          /\ Fault("lost")
          /\ calls' = [calls EXCEPT ![c].pc = next, ![c].ran = @ + 1]
    /\ UNCHANGED <<registry, sandbox>>

\* refreshPortForward and getHttpClient succeed only for a cached sandbox.
Refresh(c) ==
    /\ At(c, "refresh")
    /\ \/ cached # 0 /\ Goto(c, "retry")
       \/ Goto(c, "touchAgain")
    /\ Works /\ UNCHANGED <<registry, sandbox>>

\* Mutant: a stream that breaks is retried even after events.
EventsEndRetried(c) ==
    /\ At(c, "events")
    /\ \/ Goto(c, "touchAgain") /\ Works
       \/ Goto(c, IF calls[c].ran = 1 THEN "refresh" ELSE "touchAgain") /\ Fault("tunnel")
    /\ UNCHANGED <<registry, sandbox>>

\* The event stream ends, or breaks: after an event there is no retry.
EventsEnd(c) ==
    /\ At(c, "events")
    /\ \/ Goto(c, "touchAgain") /\ Works
       \/ Goto(c, "touchAgain") /\ Fault("tunnel")
    /\ UNCHANGED <<registry, sandbox>>

\* The signal has fired: the request rejects.  The first attempt returns at once.
Abort(c) ==
    /\ \/ calls[c].pc \in {"stream", "events"} /\ Finish(c)
       \/ calls[c].pc \in {"retry", "events"} /\ Goto(c, "touchAgain")
    /\ Works /\ UNCHANGED <<registry, sandbox>>

TouchAgain(c) ==
    /\ At(c, "touchAgain")
    /\ Finish(c)
    /\ Works /\ UNCHANGED <<registry, sandbox>>

\* touchSandbox cannot write its row: createSession rejects after it has registered the
\* session, sendMessage before its first request or after its last event.
TouchFails(c) ==
    /\ calls[c].pc \in {"registered", "touch", "touchAgain"} /\ cached # 0
    /\ Fault("db")
    /\ Finish(c)
    /\ UNCHANGED <<registry, sandbox>>

-----------------------------------------------------------------------------
(* deleteSession and destroyUserSandbox *)

DeleteSession(c, s) ==
    /\ s \in registry
    /\ Start(c, "delete", s, "download")
    /\ disturbed' = (disturbed \/ Creating(s))
    /\ UNCHANGED <<registry, sandbox>>

Download(c) ==
    /\ At(c, "download")
    /\ Goto(c, "remove")
    /\ Works /\ UNCHANGED <<registry, sandbox>>

\* DELETE /sessions/:id, its failure ignored.
Remove(c) ==
    /\ At(c, "remove")
    /\ \/ cached # 0 /\ box' = [box EXCEPT ![calls[c].session] = 0] /\ Works
       \/ cached = 0 /\ UNCHANGED box /\ Works
       \/ Fault("http") /\ UNCHANGED box
    /\ Goto(c, "unregister")
    /\ UNCHANGED <<registry, cached, tracked, states>>

\* The current state, whichever it is, and the registry forget the session.
Unregister(c) ==
    LET s == calls[c].session IN
    /\ At(c, "unregister")
    /\ tracked' = tracked \ {s}
    /\ registry' = registry \ {s}
    /\ Finish(c)
    /\ Works /\ UNCHANGED <<cached, box, states>>

DestroyUserSandbox(c) ==
    /\ Start(c, "destroy", None, "destroy")
    /\ registry' = {}
    /\ disturbed' = TRUE
    /\ UNCHANGED sandbox

NoSandbox == cached' = 0 /\ tracked' = {} /\ UNCHANGED states

\* destroySandbox is over.
Destroyed(c) ==
    /\ At(c, "destroy")
    /\ NoSandbox /\ box' = Empty
    /\ Finish(c)
    /\ Works /\ UNCHANGED registry

Step(c) ==
    \/ Ensure(c) \/ Post(c) \/ CreateThrows(c) \/ Register(c) \/ Registered(c)
    \/ Touch(c) \/ Stream(c) \/ FetchFails(c) \/ Refresh(c) \/ EventsEnd(c)
    \/ Abort(c) \/ TouchAgain(c) \/ TouchFails(c)
    \/ Download(c) \/ Remove(c) \/ Unregister(c) \/ Destroyed(c)

-----------------------------------------------------------------------------
(* What SandboxManager does on its own *)

\* suspendIdleSandboxes: no active session, and no activity for the idle timeout, which
\* only a streaming turn outlasts.
SuspendIdle ==
    /\ cached # 0 /\ tracked = {}
    /\ \A c \in Calls : calls[c].pc \in {"idle", "events"}
    /\ NoSandbox /\ box' = Empty
    /\ Works /\ UNCHANGED <<registry, calls>>

\* healthCheckAll: a failed probe drops the state and leaves the pod.
HealthFails ==
    /\ cached # 0
    /\ Strikes("health")
    /\ disturbed' = TRUE
    /\ NoSandbox
    /\ UNCHANGED <<registry, box, calls>>

Next ==
    \/ \E c \in Calls :
         \/ Step(c) \/ FileOp(c) \/ DestroyUserSandbox(c)
         \/ \E s \in Sessions : Begin(c, s) \/ DeleteSession(c, s)
    \/ SuspendIdle \/ HealthFails

Spec == Init /\ [][Next]_vars

-----------------------------------------------------------------------------
(* Properties *)

\* As long as no probe fails, nobody destroys the sandbox and no session is deleted while
\* it is created, a registered session that no call but sendMessage works on is served:
\* there is a sandbox, it hosts the session, and the session keeps idle suspension away
\* from it ("suspended after idle timeout, and resumed on next activity",
\* ARCHITECTURE.md:115).
RegisteredServed ==
    ~disturbed =>
        \A s \in registry :
            (\A c \in Calls : calls[c].session # s \/ calls[c].op = "send")
                => cached # 0 /\ s \in tracked /\ box[s] > 0

\* Once the caller has seen an event of its turn, the prompt is not run again ("No events
\* were received yet, so we can safely retry", session-manager.ts:388, is tested).
NoReplayAfterEvents ==
    [][\A c \in Calls : calls[c].seen => calls'[c].ran <= calls[c].ran]_vars

\* "No events were received yet, so we can safely retry." (session-manager.ts:388): one
\* call of sendMessage runs its prompt once.
PromptRunsOnce == \A c \in Calls : calls[c].ran <= 1
=============================================================================
