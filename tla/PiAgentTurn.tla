---------------------------- MODULE PiAgentTurn ----------------------------
(***************************************************************************)
(* packages/agents/src/pi.agent.ts: one turn of PiAgentSession.sendMessage. *)
(* Callbacks of the agent SDK put events in a queue; an async generator    *)
(* hands them to its consumer; an idle watchdog aborts an LLM call that    *)
(* hangs.  Callbacks and the generator's synchronous stretches are atomic. *)
(* The SDK (session.prompt, its events, session.abort) is external.        *)
(***************************************************************************)
EXTENDS Naturals, Sequences, FiniteSets

CONSTANTS
    ToolCalls,    \* toolCallIds
    MaxEvents,    \* bound on text deltas and tool calls of a turn
    MaxTimeouts,  \* bound on firings of the idle timer
    MaxTools,     \* tools the SDK executes at once
    MayLeave,     \* may the consumer stop reading before the end?
    MaySignal     \* may the caller's AbortSignal fire?

ASSUME TurnAssumption ==
    /\ MaxEvents \in Nat /\ MaxTimeouts \in Nat /\ MaxTools \in Nat
    /\ MayLeave \in BOOLEAN /\ MaySignal \in BOOLEAN

VARIABLES
    pc,           \* where the generator is
    left,         \* the consumer returned early
    queue,        \* eventQueue
    done,
    toolRunning,
    timer,        \* idleTimer armed
    signal,       \* "none", "listened", "aborted"
    aborted,      \* who called session.abort(): "no", "user", "watchdog"
    sdk,          \* session.prompt(): "off", "running", "ended" (agent_end), "settled"
    tools,        \* tool calls in execution
    emitted,      \* events chosen so far (bound)
    timeouts,     \* timer firings so far (bound)
    sent,         \* history: events enqueued while the generator was reading
    received      \* history: events handed to the consumer

generator == <<pc, left>>
channel   == <<queue, done, sent, received>>
watchdog  == <<toolRunning, timer, timeouts>>
agent     == <<sdk, tools, emitted>>
stops     == <<signal, aborted>>
vars      == <<generator, channel, watchdog, agent, stops>>

Kinds == {"text", "toolStart", "toolEnd", "error", "turnEnd"}

\* "held": suspended at `yield`; "awaiting": on the promise that resolveWaiting
\* resolves (exactly then resolveWaiting is set); "running": about to run its loop.
PCs == {"context", "running", "held", "awaiting", "cleanup", "finished"}

TypeOK ==
    /\ pc \in PCs /\ left \in BOOLEAN
    /\ queue \in Seq(Kinds) /\ sent \in Seq(Kinds) /\ received \in Seq(Kinds)
    /\ done \in BOOLEAN /\ toolRunning \in BOOLEAN /\ timer \in BOOLEAN
    /\ signal \in {"none", "listened", "aborted"} /\ aborted \in {"no", "user", "watchdog"}
    /\ sdk \in {"off", "running", "ended", "settled"} /\ tools \subseteq ToolCalls
    /\ emitted \in 0..MaxEvents /\ timeouts \in 0..MaxTimeouts

Init ==
    /\ pc = "context" /\ left = FALSE
    /\ queue = <<>> /\ done = FALSE /\ sent = <<>> /\ received = <<>>
    /\ toolRunning = FALSE /\ timer = FALSE /\ timeouts = 0
    /\ sdk = "off" /\ tools = {} /\ emitted = 0
    /\ signal = "none" /\ aborted = "no"

-----------------------------------------------------------------------------
(* Helpers *)

\* The listener given to session.subscribe is attached until the `finally`.
Reading == pc \in {"running", "held", "awaiting"}

\* Mutant: enqueue does not resolve the promise the generator awaits.
EnqueueSilent(events) ==
    /\ queue' = queue \o events
    /\ sent' = IF Reading THEN sent \o events ELSE sent
    /\ UNCHANGED <<pc, left, received>>

\* enqueue, as far as the queue is concerned: the events join it and a waiting
\* generator wakes up.
Enqueue(events) ==
    /\ queue' = queue \o events
    /\ sent' = IF Reading THEN sent \o events ELSE sent
    /\ pc' = IF pc = "awaiting" THEN "running" ELSE pc
    /\ UNCHANGED <<left, received>>

\* resetIdleTimer, with the values done and toolRunning have when it runs.
ResetIdleTimer(finished, tool) == timer' = (~finished /\ ~tool)

\* An SDK event the subscriber enqueues; without a subscriber it goes nowhere.
Deliver(events, tool) ==
    IF Reading
    THEN /\ Enqueue(events)
         /\ toolRunning' = tool
         /\ ResetIdleTimer(done, tool)
         /\ UNCHANGED done
    ELSE UNCHANGED <<generator, channel, toolRunning, timer>>

-----------------------------------------------------------------------------
(* The generator *)

\* The session and the memory context are there: arm the watchdog, subscribe, listen
\* to the signal (one that has fired already never fires again) and prompt.
Begin ==
    /\ pc = "context"
    /\ pc' = "running"
    /\ timer' = TRUE
    /\ signal' = IF signal = "none" THEN "listened" ELSE signal
    /\ sdk' = "running"
    /\ UNCHANGED <<left, channel, toolRunning, timeouts, tools, emitted, aborted>>

\* sessionPromise rejects: so does the generator.
SessionRejects ==
    /\ pc = "context"
    /\ pc' = "finished"
    /\ UNCHANGED <<left, channel, watchdog, agent, stops>>

\* The `finally`: clear the timer, unsubscribe, await the prompt.
CleanUp == pc' = "cleanup" /\ timer' = FALSE

\* Mutant: the loop ends as soon as the agent is done.
ContinueUntilDone ==
    /\ pc \in {"running", "held"}
    /\ \/ /\ ~done /\ queue # <<>>
          /\ queue' = Tail(queue) /\ received' = Append(received, Head(queue))
          /\ pc' = "held"
          /\ UNCHANGED timer
       \/ /\ queue = <<>> /\ ~done
          /\ pc' = "awaiting"
          /\ UNCHANGED <<queue, received, timer>>
       \/ /\ done
          /\ CleanUp
          /\ UNCHANGED <<queue, received>>
    /\ UNCHANGED <<left, done, sent, toolRunning, timeouts, agent, stops>>

\* The loop from a resumption (the consumer asks for the next event, or the awaited
\* promise resolves) to its next suspension: yield, await, or the `finally`.
Continue ==
    /\ pc \in {"running", "held"}
    /\ \/ /\ queue # <<>>
          /\ queue' = Tail(queue) /\ received' = Append(received, Head(queue))
          /\ pc' = "held"
          /\ UNCHANGED timer
       \/ /\ queue = <<>> /\ ~done
          /\ pc' = "awaiting"
          /\ UNCHANGED <<queue, received, timer>>
       \/ /\ queue = <<>> /\ done
          /\ CleanUp
          /\ UNCHANGED <<queue, received>>
    /\ UNCHANGED <<left, done, sent, toolRunning, timeouts, agent, stops>>

\* The consumer returns, or throws in its loop body: the `finally` runs at the yield.
Leave ==
    /\ MayLeave
    /\ pc = "held"
    /\ left' = TRUE
    /\ CleanUp
    /\ UNCHANGED <<channel, toolRunning, timeouts, agent, stops>>

\* promptPromise has settled: the generator ends.
Settled ==
    /\ pc = "cleanup" /\ sdk = "settled"
    /\ pc' = "finished"
    /\ UNCHANGED <<left, channel, watchdog, agent, stops>>

-----------------------------------------------------------------------------
(* The SDK *)

\* An event that leaves the agent loop's state alone (message_update and its like).
Text ==
    /\ sdk = "running" /\ emitted < MaxEvents
    /\ emitted' = emitted + 1
    /\ Deliver(<<"text">>, toolRunning)
    /\ UNCHANGED <<sdk, tools, timeouts, stops>>

\* An event that is not passed on, yet resets the watchdog (turn_start and its like).
Heartbeat ==
    /\ sdk = "running" /\ emitted < MaxEvents
    /\ emitted' = emitted + 1
    /\ IF Reading THEN ResetIdleTimer(done, toolRunning) ELSE UNCHANGED timer
    /\ UNCHANGED <<sdk, tools, toolRunning, timeouts, generator, channel, stops>>

ToolStart(t) ==
    /\ sdk = "running" /\ emitted < MaxEvents
    /\ t \notin tools /\ Cardinality(tools) < MaxTools
    /\ emitted' = emitted + 1
    /\ tools' = tools \cup {t}
    /\ Deliver(<<"toolStart">>, TRUE)
    /\ UNCHANGED <<sdk, timeouts, stops>>

\* Mutant: the end of a tool does not resume the watchdog.
ToolEndPaused(t) ==
    /\ t \in tools
    /\ tools' = tools \ {t}
    /\ Deliver(<<"toolEnd">>, toolRunning)
    /\ UNCHANGED <<sdk, emitted, timeouts, stops>>

\* Whichever tool ends, toolRunning is reset.
ToolEnd(t) ==
    /\ t \in tools
    /\ tools' = tools \ {t}
    /\ Deliver(<<"toolEnd">>, FALSE)
    /\ UNCHANGED <<sdk, emitted, timeouts, stops>>

\* agent_end: an error summary if there were errors, turn_end, and only then done.
AgentEnd ==
    /\ sdk = "running" /\ tools = {}
    /\ sdk' = "ended"
    /\ IF Reading
       THEN /\ \E errors \in {<<>>, <<"error">>} : Enqueue(errors \o <<"turnEnd">>)
            /\ ResetIdleTimer(done, toolRunning)
            /\ done' = TRUE
       ELSE UNCHANGED <<generator, channel, timer>>
    /\ UNCHANGED <<tools, emitted, toolRunning, timeouts, stops>>

\* After agent_end the SDK may retry a failed call or compact the context and go on
\* (auto_retry_start, auto_compaction_start): the prompt has not settled, but done is set.
Resume ==
    /\ sdk = "ended" /\ aborted = "no" /\ emitted < MaxEvents
    /\ sdk' = "running"
    /\ emitted' = emitted + 1
    /\ Deliver(<<"text">>, toolRunning)
    /\ UNCHANGED <<tools, timeouts, stops>>

PromptResolves ==
    /\ sdk = "ended"
    /\ sdk' = "settled"
    /\ UNCHANGED <<generator, channel, watchdog, tools, emitted, stops>>

\* session.prompt() rejects; the handler needs no subscription.
PromptRejects ==
    /\ sdk \in {"running", "ended"} /\ tools = {}
    /\ sdk' = "settled"
    /\ Enqueue(<<"error">>)
    /\ ResetIdleTimer(done, toolRunning)
    /\ done' = TRUE
    /\ UNCHANGED <<tools, emitted, toolRunning, timeouts, stops>>

-----------------------------------------------------------------------------
(* The watchdog and the caller's signal *)

\* Mutant: the watchdog reports the timeout and lets the LLM call hang.
TimerFiresNoAbort ==
    /\ timer /\ timeouts < MaxTimeouts
    /\ timeouts' = timeouts + 1
    /\ IF done
       THEN timer' = FALSE /\ UNCHANGED <<generator, channel>>
       ELSE Enqueue(<<"error">>) /\ ResetIdleTimer(done, toolRunning) /\ UNCHANGED done
    /\ UNCHANGED <<agent, toolRunning, stops>>

\* LLM_IDLE_TIMEOUT_MS without an event: report it, which re-arms the timer, and abort.
TimerFires ==
    /\ timer /\ timeouts < MaxTimeouts
    /\ timeouts' = timeouts + 1
    /\ IF done
       THEN timer' = FALSE /\ UNCHANGED <<generator, channel, aborted>>
       ELSE /\ Enqueue(<<"error">>) /\ ResetIdleTimer(done, toolRunning) /\ UNCHANGED done
            /\ aborted' = IF aborted = "no" THEN "watchdog" ELSE aborted
    /\ UNCHANGED <<agent, toolRunning, signal>>

\* The caller aborts: the listener, if there is one by now, aborts the SDK session.
SignalAborts ==
    /\ MaySignal
    /\ signal # "aborted"
    /\ signal' = "aborted"
    /\ aborted' = IF signal = "listened" THEN "user" ELSE aborted
    /\ UNCHANGED <<generator, channel, watchdog, agent>>

Next ==
    \/ Begin \/ SessionRejects \/ Continue \/ Leave \/ Settled
    \/ Text \/ Heartbeat \/ AgentEnd \/ Resume \/ PromptResolves \/ PromptRejects
    \/ \E t \in ToolCalls : ToolStart(t) \/ ToolEnd(t)
    \/ TimerFires \/ SignalAborts

Spec == Init /\ [][Next]_vars

\* The event loop runs what is ready, an armed timer fires, a tool ends, the consumer
\* reads on, an aborted agent loop ends and its prompt settles.  The LLM owes nothing.
Fairness ==
    /\ WF_vars(Begin \/ Continue \/ Settled)
    /\ WF_vars(TimerFires)
    /\ WF_vars(\E t \in ToolCalls : ToolEnd(t))
    /\ WF_vars(aborted # "no" /\ AgentEnd)
    /\ WF_vars(PromptResolves)

FairSpec == Spec /\ Fairness

-----------------------------------------------------------------------------
(* Properties *)

Stream == INSTANCE EventStream WITH
    Events <- Kinds,
    phase  <- IF left THEN "left"
              ELSE IF pc \in {"cleanup", "finished"} THEN "closed" ELSE "open"

\* Every event enqueued while the consumer reads reaches it, once and in order, and
\* the stream closes only when the queue is drained, although `done` is set by
\* callbacks that run between any two steps of the generator (pi.agent.ts:358-375,
\* 478-510): the turn implements EventStream.
Delivery == Stream!Spec

\* No lost wake-up: the generator never awaits the next event while one is queued or
\* the agent is done (the check at 495 and the promise at 501-503 leave no gap).
NoLostWakeup == pc = "awaiting" => queue = <<>> /\ ~done

\* The watchdog is armed whenever the consumer still waits on an agent that executes no
\* tool, whatever events came and went before and however the tools overlapped.
Watched == Reading /\ ~done /\ tools = {} => timer

\* The watchdog never aborts the session while a tool is executing: "The timer is paused
\* while a tool is executing" (pi.agent.ts:209).  The one flag toolRunning says so for
\* tools that do not overlap; of two that do, the first end re-arms the timer.
ToolsUndisturbed ==
    [][aborted = "no" /\ aborted' = "watchdog" => tools = {}]_vars

\* The turn ends even when the LLM call hangs, thanks to the watchdog and to the
\* re-armed timer (pi.agent.ts:207-240).  Two turns are excepted, whose `finally` awaits a
\* prompt that nobody watches any more (512-515): the consumer left, or the SDK went on
\* after the agent_end that ended the loop.
Abandoned == left \/ (pc = "cleanup" /\ sdk = "running")

TurnEnds == Reading ~> (pc = "finished" \/ Abandoned)
=============================================================================
