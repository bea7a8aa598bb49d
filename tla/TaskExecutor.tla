---------------------------- MODULE TaskExecutor ----------------------------
(***************************************************************************)
(* packages/a2a/src/executor.ts behind packages/gateway/src/a2a.ts: the    *)
(* executor of one agent configuration.  tasks/send and tasks/sendSubscribe *)
(* run a turn of the session named after the task; tasks/cancel aborts the *)
(* turn whose controller it finds.  The session provider (a stream of      *)
(* events that honours or ignores the signal) and the request handler of   *)
(* a2a-js are external.                                                    *)
(***************************************************************************)
EXTENDS FiniteSets

CONSTANTS Tasks,    \* task ids
          Requests  \* slots for requests in progress

VARIABLES
    abortControllers,  \* the Map: [tasks with an entry -> request whose controller it is]
    requests,          \* [Requests -> where onMessageSend or onMessageStream is]
    contested          \* history: tasks that requests in progress had at once

vars == <<abortControllers, requests, contested>>

Idle == [pc |-> "idle"]

\* "greeting": a stream suspended at its first yield, before its try; "final":
\* suspended at the last one, within it.
PCs == {"creating", "greeting", "running", "final"}

Request == [pc: PCs, task: Tasks, streaming: BOOLEAN, aborted: BOOLEAN, cancelled: BOOLEAN]

TypeOK ==
    /\ DOMAIN abortControllers \subseteq Tasks
    /\ \A t \in DOMAIN abortControllers : abortControllers[t] \in Requests
    /\ requests \in [Requests -> Request \cup {Idle}]
    /\ contested \subseteq Tasks

Init ==
    /\ abortControllers = [t \in {} |-> Idle]
    /\ requests = [r \in Requests |-> Idle]
    /\ contested = {}

-----------------------------------------------------------------------------

Busy(r)    == requests[r] # Idle
Working(t) == {r \in Requests : Busy(r) /\ requests[r].task = t}

WithEntry(t, r)  == [u \in DOMAIN abortControllers \cup {t} |->
                        IF u = t THEN r ELSE abortControllers[u]]
WithoutEntry(t)  == [u \in DOMAIN abortControllers \ {t} |-> abortControllers[u]]
DeleteEntry(t)   == abortControllers' = WithoutEntry(t)

\* A request with a task id and text, up to the awaited createSession.
Receive(r, t) ==
    /\ ~Busy(r)
    /\ \E streaming \in BOOLEAN :
         requests' = [requests EXCEPT ![r] =
             [pc |-> "creating", task |-> t, streaming |-> streaming,
              aborted |-> FALSE, cancelled |-> FALSE]]
    /\ contested' = IF Working(t) = {} THEN contested \ {t} ELSE contested \cup {t}
    /\ UNCHANGED abortControllers

CreateFails(r) ==
    /\ Busy(r) /\ requests[r].pc = "creating"
    /\ requests' = [requests EXCEPT ![r] = Idle]
    /\ UNCHANGED <<abortControllers, contested>>

\* The session is there: the request registers its controller, over that of
\* another request of the task.
Created(r) ==
    LET req == requests[r] IN
    /\ Busy(r) /\ req.pc = "creating"
    /\ abortControllers' = WithEntry(req.task, r)
    /\ requests' = [requests EXCEPT ![r].pc = IF req.streaming THEN "greeting" ELSE "running"]
    /\ UNCHANGED contested

\* The consumer has written the greeting and asks for the next event.
Greeted(r) ==
    /\ Busy(r) /\ requests[r].pc = "greeting"
    /\ requests' = [requests EXCEPT ![r].pc = "running"]
    /\ UNCHANGED <<abortControllers, contested>>

\* The provider's stream ends or throws.  tasks/send answers and removes the
\* entry of its task, whosever it is; a stream yields its last event first.
TurnEnds(r) ==
    LET req == requests[r] IN
    /\ Busy(r) /\ req.pc = "running"
    /\ IF req.streaming
       THEN /\ requests' = [requests EXCEPT ![r].pc = "final"]
            /\ UNCHANGED abortControllers
       ELSE /\ requests' = [requests EXCEPT ![r] = Idle]
            /\ DeleteEntry(req.task)
    /\ UNCHANGED contested

\* The consumer takes the last event, or stops (the SSE client has gone) at one
\* yielded before: the `finally` runs.
Close(r) ==
    /\ Busy(r) /\ requests[r].pc \in {"running", "final"} /\ requests[r].streaming
    /\ requests' = [requests EXCEPT ![r] = Idle]
    /\ DeleteEntry(requests[r].task)
    /\ UNCHANGED contested

\* The consumer stops at the greeting: no `finally` is entered yet, the entry stays.
LeaveAtGreeting(r) ==
    /\ Busy(r) /\ requests[r].pc = "greeting"
    /\ requests' = [requests EXCEPT ![r] = Idle]
    /\ UNCHANGED <<abortControllers, contested>>

\* Mutant: the entry goes, the signal does not fire.
CancelUnaborted(t) ==
    /\ requests' = [r \in Requests |->
          IF r \in Working(t) /\ requests[r].pc # "creating"
          THEN [requests[r] EXCEPT !.cancelled = TRUE] ELSE requests[r]]
    /\ DeleteEntry(t)
    /\ UNCHANGED contested

\* onCancel: the entry's controller is aborted and the task answered Canceled,
\* whether there was one or not.
Cancel(t) ==
    /\ requests' = [r \in Requests |->
          IF r \in Working(t) /\ requests[r].pc # "creating"
          THEN [requests[r] EXCEPT
                   !.cancelled = TRUE,
                   !.aborted = @ \/ (t \in DOMAIN abortControllers /\ abortControllers[t] = r)]
          ELSE requests[r]]
    /\ DeleteEntry(t)
    /\ UNCHANGED contested

Next ==
    \/ \E t \in Tasks : Cancel(t) \/ \E r \in Requests : Receive(r, t)
    \/ \E r \in Requests : \/ CreateFails(r) \/ Created(r) \/ Greeted(r)
                           \/ TurnEnds(r) \/ Close(r) \/ LeaveAtGreeting(r)

Spec == Init /\ [][Next]_vars

-----------------------------------------------------------------------------
(* Properties *)

\* "tasks/cancel -- Cancel a running task" (docs/PHASE-3-GATEWAY.md:301): a turn
\* whose task was answered Canceled while it ran has its signal aborted - unless
\* several requests had the task at once, where the entry may be another's or
\* none.  (One that still creates its session is not reached.)
CancelReaches ==
    \A r \in Requests :
        Busy(r) /\ requests[r].cancelled /\ requests[r].task \notin contested
          => requests[r].aborted

=============================================================================
