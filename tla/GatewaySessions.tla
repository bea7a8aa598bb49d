--------------------------- MODULE GatewaySessions ---------------------------
(***************************************************************************)
(* packages/gateway/src/session-manager.ts: the gateway's sessions, their  *)
(* event emitters and the SSE subscribers, in both modes.  Locally an      *)
(* agent is built per session, one at a time behind a chain of promises;   *)
(* with an orchestrator the creation is one call to it.  The agent         *)
(* provider and the orchestrator are external.                             *)
(***************************************************************************)
EXTENDS Naturals, FiniteSets

CONSTANTS
    Sessions,    \* session ids (all of one user)
    Calls,       \* slots for createSession and sendMessage calls
    Subs,        \* slots for subscribe calls
    MaxObjects,  \* bound on SessionState objects and emitters
    MaxEvents    \* bound on a subscriber's backlog

VARIABLES
    orchestrated,  \* constructor option, fixed
    sessions,      \* [Sessions -> number of its SessionState, 0 without one]
    emitters,      \* [Sessions -> number of its emitter, 0 without one]
    objects,       \* objects made so far
    begun,         \* ids in use; locally those whose directory links the knowledge base
    agents,        \* history: [Sessions -> agent sessions built for it]
    initLock,      \* number of the promise at the end of the chain (0 is resolved)
    resolved,      \* promises of the chain that are resolved
    timers,        \* promises whose 100 ms timer runs
    failed,        \* history: building an agent session has thrown
    calls,         \* [Calls -> call in progress]
    subs           \* [Subs -> subscription in progress]

registry == <<sessions, emitters, objects, begun, agents>>
chain    == <<initLock, resolved, timers, failed>>
vars     == <<orchestrated, registry, chain, calls, subs>>

Ids   == Sessions \cup {0}
Locks == 0..Cardinality(Sessions)

Idle == [pc |-> "idle", op |-> "none", session |-> 0, lock |-> 0, state |-> 0, emitter |-> 0]
Off  == [pc |-> "off", session |-> 0, state |-> 0, emitter |-> 0, queue |-> 0, aborted |-> FALSE]

TypeOK ==
    /\ orchestrated \in BOOLEAN /\ failed \in BOOLEAN
    /\ sessions \in [Sessions -> 0..MaxObjects]
    /\ emitters \in [Sessions -> 0..MaxObjects]
    /\ objects \in 0..MaxObjects
    /\ begun \subseteq Sessions
    /\ agents \in [Sessions -> Nat]
    /\ initLock \in Locks /\ resolved \subseteq Locks /\ timers \subseteq Locks
    /\ calls \in [Calls -> [pc: {"idle", "config", "lock", "integrations", "orchestrator", "upload",
                                 "stream"},
                            op: {"none", "create", "send"}, session: Ids, lock: Locks,
                            state: 0..MaxObjects, emitter: 0..MaxObjects]]
    /\ subs \in [Subs -> [pc: {"off", "running", "held", "awaiting"}, session: Ids,
                          state: 0..MaxObjects, emitter: 0..MaxObjects,
                          queue: 0..MaxEvents, aborted: BOOLEAN]]

Init ==
    /\ orchestrated \in BOOLEAN
    /\ sessions = [s \in Sessions |-> 0] /\ emitters = [s \in Sessions |-> 0]
    /\ objects = 0 /\ begun = {} /\ agents = [s \in Sessions |-> 0]
    /\ initLock = 0 /\ resolved = {0} /\ timers = {} /\ failed = FALSE
    /\ calls = [c \in Calls |-> Idle]
    /\ subs = [u \in Subs |-> Off]

Finish(c) == calls' = [calls EXCEPT ![c] = Idle]

\* getEmitter: from the map, or a new one; n objects exist before.
Emitter(s, n) == IF emitters[s] = 0 THEN n + 1 ELSE emitters[s]

-----------------------------------------------------------------------------
(* sendMessage once the session is known, and createSession's last steps *)

\* The turn of sendMessage that found state st, from its getEmitter on; n objects exist.
Streaming(c, s, st, n) ==
    /\ Emitter(s, n) <= MaxObjects
    /\ emitters' = [emitters EXCEPT ![s] = Emitter(s, n)]
    /\ objects' = IF emitters[s] = 0 THEN n + 1 ELSE n
    /\ calls' = [calls EXCEPT ![c] = [Idle EXCEPT !.pc = "stream", !.op = "send", !.session = s,
                                                  !.state = st, !.emitter = Emitter(s, n)]]

\* The user message is stored; attachments go to the sandbox first.
Accept(c, s, st, n) ==
    \/ Streaming(c, s, st, n)
    \/ /\ orchestrated
       /\ calls' = [calls EXCEPT ![c] = [Idle EXCEPT !.pc = "upload", !.op = "send",
                                                     !.session = s, !.state = st]]
       /\ objects' = n /\ UNCHANGED emitters

\* sessions.set with a new SessionState, and what the caller does next.
Register(c) ==
    LET s == calls[c].session IN
    /\ objects < MaxObjects
    /\ sessions' = [sessions EXCEPT ![s] = objects + 1]
    /\ IF calls[c].op = "send"
       THEN Accept(c, s, objects + 1, objects + 1)
       ELSE Finish(c) /\ objects' = objects + 1 /\ UNCHANGED emitters

\* sendMessage for a known session.
Send(c, s) ==
    /\ calls[c] = Idle
    /\ sessions[s] # 0
    /\ Accept(c, s, sessions[s], objects)
    /\ UNCHANGED <<orchestrated, sessions, begun, agents, chain, subs>>

\* Uploaded, or not: a failure is only logged.
Uploaded(c) ==
    /\ calls[c].pc = "upload"
    /\ Streaming(c, calls[c].session, calls[c].state, objects)
    /\ UNCHANGED <<orchestrated, sessions, begun, agents, chain, subs>>

-----------------------------------------------------------------------------
(* createSession *)

\* Mutant: the directory's link is made only if it is missing.
CreateLocalRelinked(c, op, s) ==
    /\ ~orchestrated
    /\ calls[c] = Idle /\ sessions[s] = 0
    /\ begun' = begun \cup {s}
    /\ calls' = [calls EXCEPT ![c] = [Idle EXCEPT !.pc = "config", !.op = op, !.session = s]]
    /\ UNCHANGED <<orchestrated, sessions, emitters, objects, agents, chain, subs>>

\* Up to the await of getAgentConfig (without a configuration to read, Configured follows
\* at once).  symlinkSync throws when the link exists, so an id that is being created, was
\* deleted, or whose creation has failed is refused.
CreateLocal(c, op, s) ==
    /\ ~orchestrated
    /\ calls[c] = Idle /\ sessions[s] = 0 /\ s \notin begun
    /\ begun' = begun \cup {s}
    /\ calls' = [calls EXCEPT ![c] = [Idle EXCEPT !.pc = "config", !.op = op, !.session = s]]
    /\ UNCHANGED <<orchestrated, sessions, emitters, objects, agents, chain, subs>>

\* The configuration is there; up to `await prevLock`.
Configured(c) ==
    /\ calls[c].pc = "config"
    /\ initLock' = initLock + 1
    /\ calls' = [calls EXCEPT ![c].pc = "lock", ![c].lock = initLock + 1]
    /\ UNCHANGED <<orchestrated, registry, resolved, timers, failed, subs>>

\* getAgentConfig rejects: the directory stays linked.
ConfigRejects(c) ==
    /\ calls[c].pc = "config"
    /\ Finish(c)
    /\ UNCHANGED <<orchestrated, registry, chain, subs>>

\* Mutant: a creation waits for the first of the chain instead of the one before it.
PrevLockFirst(c) ==
    /\ calls[c].pc = "lock" /\ 0 \in resolved
    /\ calls' = [calls EXCEPT ![c].pc = "integrations"]
    /\ UNCHANGED <<orchestrated, registry, chain, subs>>

\* prevLock is resolved; the integrations are read.
PrevLock(c) ==
    /\ calls[c].pc = "lock" /\ calls[c].lock - 1 \in resolved
    /\ calls' = [calls EXCEPT ![c].pc = "integrations"]
    /\ UNCHANGED <<orchestrated, registry, chain, subs>>

\* Mutant: no timer is armed.
BuildAgentUntimed(c) ==
    /\ calls[c].pc = "integrations"
    /\ agents' = [agents EXCEPT ![calls[c].session] = @ + 1]
    /\ Register(c)
    /\ UNCHANGED <<orchestrated, begun, chain, subs>>

\* provider.createSession builds the agent; the lock is released 100 ms later.
BuildAgent(c) ==
    /\ calls[c].pc = "integrations"
    /\ agents' = [agents EXCEPT ![calls[c].session] = @ + 1]
    /\ timers' = timers \cup {calls[c].lock}
    /\ Register(c)
    /\ UNCHANGED <<orchestrated, begun, initLock, resolved, failed, subs>>

\* provider.createSession throws (no model, no API key): nobody will release the lock.
BuildThrows(c) ==
    /\ calls[c].pc = "integrations"
    /\ failed' = TRUE
    /\ Finish(c)
    /\ UNCHANGED <<orchestrated, registry, initLock, resolved, timers, subs>>

ReleaseLock(n) ==
    /\ n \in timers
    /\ timers' = timers \ {n} /\ resolved' = resolved \cup {n}
    /\ UNCHANGED <<orchestrated, registry, initLock, failed, calls, subs>>

\* With an orchestrator: POST /sessions has a fresh id, sendMessage that of its session.
CreateOrchestrated(c, op, s) ==
    /\ orchestrated
    /\ calls[c] = Idle /\ sessions[s] = 0
    /\ op = "create" => s \notin begun
    /\ begun' = begun \cup {s}
    /\ calls' = [calls EXCEPT ![c] = [Idle EXCEPT !.pc = "orchestrator", !.op = op, !.session = s]]
    /\ UNCHANGED <<orchestrated, sessions, emitters, objects, agents, chain, subs>>

\* orchestrator.createSession resolves: whatever the map holds by now is replaced.
Orchestrated(c) ==
    /\ calls[c].pc = "orchestrator"
    /\ Register(c)
    /\ UNCHANGED <<orchestrated, begun, agents, chain, subs>>

OrchestratorRejects(c) ==
    /\ calls[c].pc = "orchestrator"
    /\ Finish(c)
    /\ UNCHANGED <<orchestrated, registry, chain, subs>>

-----------------------------------------------------------------------------
(* The end of sessions *)

DeleteSession(s) ==
    /\ sessions[s] # 0
    /\ emitters' = [emitters EXCEPT ![s] = 0]
    /\ sessions' = [sessions EXCEPT ![s] = 0]
    /\ UNCHANGED <<orchestrated, objects, begun, agents, chain, calls, subs>>

\* The synchronous part; the orchestrator's is modelled in OrchestratorSessions.  It goes
\* by the orchestrator's registry: a session missing there - a late deletion took away
\* what was created again - stays here.
DestroySandbox ==
    /\ orchestrated
    /\ \E known \in SUBSET {s \in Sessions : sessions[s] # 0} :
         /\ emitters' = [s \in Sessions |-> IF s \in known THEN 0 ELSE emitters[s]]
         /\ sessions' = [s \in Sessions |-> IF s \in known THEN 0 ELSE sessions[s]]
    /\ UNCHANGED <<orchestrated, objects, begun, agents, chain, calls, subs>>

-----------------------------------------------------------------------------
(* Turns and subscribers *)

Listening(c) == {u \in Subs : subs[u].pc # "off" /\ subs[u].emitter = calls[c].emitter}

\* notify resolves the promise a subscriber awaits, if it does.
Awake(pc) == IF pc = "awaiting" THEN "running" ELSE pc

\* emitter.emit: every listener takes the event and is woken.
Emit(c) ==
    /\ \A u \in Listening(c) : subs[u].queue < MaxEvents
    /\ subs' = [u \in Subs |-> IF u \in Listening(c)
                               THEN [subs[u] EXCEPT !.queue = @ + 1, !.pc = Awake(@)]
                               ELSE subs[u]]

\* Mutant: the listener does not wake the subscriber.
EventSilent(c) ==
    /\ calls[c].pc = "stream"
    /\ \A u \in Listening(c) : subs[u].queue < MaxEvents
    /\ subs' = [u \in Subs |-> IF u \in Listening(c) THEN [subs[u] EXCEPT !.queue = @ + 1]
                               ELSE subs[u]]
    /\ UNCHANGED <<orchestrated, registry, chain, calls>>

\* The turn's stream yields an event: emitted, then handed to the caller.
Event(c) ==
    /\ calls[c].pc = "stream"
    /\ Emit(c)
    /\ UNCHANGED <<orchestrated, registry, chain, calls>>

\* The stream ends, or its caller stops reading; an exception of the orchestrator's
\* stream is emitted as an event unless the caller has aborted.
StreamEnds(c) ==
    /\ calls[c].pc = "stream"
    /\ Finish(c)
    /\ \/ UNCHANGED subs
       \/ orchestrated /\ Emit(c)
    /\ UNCHANGED <<orchestrated, registry, chain>>

\* Mutant: a subscriber replaces the emitter of the session.
SubscribeFresh(u, s) ==
    /\ subs[u] = Off /\ sessions[s] # 0
    /\ objects < MaxObjects
    /\ emitters' = [emitters EXCEPT ![s] = objects + 1] /\ objects' = objects + 1
    /\ subs' = [subs EXCEPT ![u] = [Off EXCEPT !.pc = "running", !.session = s,
                                               !.state = sessions[s], !.emitter = objects + 1]]
    /\ UNCHANGED <<orchestrated, sessions, begun, agents, chain, calls>>

\* GET /sessions/:id/stream of a known session.
Subscribe(u, s) ==
    /\ subs[u] = Off /\ sessions[s] # 0
    /\ Emitter(s, objects) <= MaxObjects
    /\ emitters' = [emitters EXCEPT ![s] = Emitter(s, objects)]
    /\ objects' = IF emitters[s] = 0 THEN objects + 1 ELSE objects
    /\ subs' = [subs EXCEPT ![u] = [Off EXCEPT !.pc = "running", !.session = s,
                                               !.state = sessions[s],
                                               !.emitter = Emitter(s, objects)]]
    /\ UNCHANGED <<orchestrated, sessions, begun, agents, chain, calls>>

\* The loop from a resumption to its next yield, await or end.
SubscriberRuns(u) ==
    LET k == subs[u] IN
    /\ k.pc \in {"running", "held"}
    /\ subs' = [subs EXCEPT ![u] =
                  IF k.aborted THEN Off
                  ELSE IF k.queue > 0 THEN [k EXCEPT !.queue = k.queue - 1, !.pc = "held"]
                  ELSE [k EXCEPT !.pc = "awaiting"]]
    /\ UNCHANGED <<orchestrated, registry, chain, calls>>

\* Mutant: the signal does not wake the subscriber.
DisconnectSilent(u) ==
    /\ subs[u].pc # "off" /\ ~subs[u].aborted
    /\ subs' = [subs EXCEPT ![u].aborted = TRUE]
    /\ UNCHANGED <<orchestrated, registry, chain, calls>>

\* The client disconnects: the signal fires.
Disconnect(u) ==
    /\ subs[u].pc # "off" /\ ~subs[u].aborted
    /\ subs' = [subs EXCEPT ![u].aborted = TRUE, ![u].pc = Awake(@)]
    /\ UNCHANGED <<orchestrated, registry, chain, calls>>

Next ==
    \/ \E c \in Calls, s \in Sessions :
         \/ Send(c, s)
         \/ \E op \in {"create", "send"} : CreateLocal(c, op, s) \/ CreateOrchestrated(c, op, s)
    \/ \E c \in Calls :
         \/ Configured(c) \/ ConfigRejects(c)
         \/ PrevLock(c) \/ BuildAgent(c) \/ BuildThrows(c)
         \/ Orchestrated(c) \/ OrchestratorRejects(c) \/ Uploaded(c)
         \/ Event(c) \/ StreamEnds(c)
    \/ \E n \in timers : ReleaseLock(n)
    \/ \E s \in Sessions : DeleteSession(s)
    \/ DestroySandbox
    \/ \E u \in Subs :
         \/ SubscriberRuns(u) \/ Disconnect(u)
         \/ \E s \in Sessions : Subscribe(u, s)

Spec == Init /\ [][Next]_vars

-----------------------------------------------------------------------------
(* Properties *)

\* The promises of creations that have passed the lock and not released it.
Initialising ==
    timers \cup {calls[c].lock : c \in {d \in Calls : calls[d].pc = "integrations"}}

\* "Serialize session creation so that process.env.PI_MEMORY_DIR ... is not clobbered"
\* (session-manager.ts:185-187): from the wait for the lock to the end of the timer, at
\* most one creation is under way.
OneInitialiser ==
    /\ Cardinality(Initialising) <= 1
    /\ \A c, d \in Calls : calls[c].pc = "integrations" /\ calls[d].pc = "integrations" => c = d

\* At most one agent session is ever built for an id (nobody disposes of one), although
\* createSession tests the map before its awaits and enters the id after them (98-101, 239).
OneAgentPerSession == \A s \in Sessions : agents[s] <= 1

\* "Yields events emitted by any concurrent `sendMessage` call on this session"
\* (session-manager.ts:409-410): a subscriber and a turn that found the same state of the
\* session, which is still there, share an emitter.
SubscribersHear ==
    \A u \in Subs, c \in Calls :
        /\ subs[u].pc # "off" /\ calls[c].pc = "stream"
        /\ subs[u].session = calls[c].session
        /\ subs[u].state = calls[c].state /\ calls[c].state = sessions[calls[c].session]
        => subs[u].emitter = calls[c].emitter

\* No lost wake-up: no subscriber awaits while events are queued for it or its client
\* is gone (418-439).
SubscriberAwake ==
    \A u \in Subs : subs[u].pc = "awaiting" => subs[u].queue = 0 /\ ~subs[u].aborted

\* Unless building an agent has thrown, every promise of the chain is resolved or has
\* someone to resolve it, its creation or that creation's timer (188-193, 224-237).
PromiseOwned ==
    failed \/ 1..initLock \subseteq
        resolved \cup timers
        \cup {calls[c].lock : c \in {d \in Calls : calls[d].pc \in {"lock", "integrations"}}}

\* A creation waits for ever only if building an agent has thrown (188-193, 224-237).
LockPasses == \A c \in Calls : calls[c].pc = "lock" ~> (calls[c].pc # "lock" \/ failed)

\* "Keeps the generator open until `signal` is aborted" (410-411), and no longer.
SubscriptionEnds == \A u \in Subs : subs[u].aborted ~> subs[u].pc = "off"
=============================================================================
