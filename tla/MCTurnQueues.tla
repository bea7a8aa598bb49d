---------------------------- MODULE MCTurnQueues ----------------------------
(***************************************************************************)
(* The two queues that callbacks fill and a loop empties on the way of a   *)
(* Slack message: the messages of a thread (SlackQueue) and the events of  *)
(* an agent turn (PiAgentTurn).  They share nothing, so that one behaviour *)
(* is of one of them.                                                      *)
(***************************************************************************)
EXTENDS PiAgentTurn, TLC

CONSTANTS Messages, Threads, Sessions, TurnTimeoutEnv, None

ASSUME QueueAssumption == None \notin Messages \cup Sessions

VARIABLES
    side,
    thread, stage, session, sessionMap, queues, active, drainer, timedOut

Slack == INSTANCE SlackQueue

slackVars == <<thread, stage, session, sessionMap, queues, active, drainer, timedOut>>
sideVars  == <<side, vars, slackVars>>

SideInit == side \in {"agent", "slack"} /\ Init /\ Slack!Init

SideNext ==
    /\ UNCHANGED side
    /\ \/ side = "agent" /\ Next /\ UNCHANGED slackVars
       \/ side = "slack" /\ Slack!Next /\ UNCHANGED vars

\* The fairness of the two modules, each where its program runs.
AgentFairness ==
    /\ WF_vars(side = "agent" /\ (Begin \/ Continue \/ Settled))
    /\ WF_vars(side = "agent" /\ TimerFires)
    /\ WF_vars(side = "agent" /\ \E t \in ToolCalls : ToolEnd(t))
    /\ WF_vars(side = "agent" /\ aborted # "no" /\ AgentEnd)
    /\ WF_vars(side = "agent" /\ PromptResolves)

SlackFairness ==
    \A m \in Messages :
        /\ WF_slackVars(side = "slack" /\ (Slack!LookUp(m) \/ Slack!Create(m) \/ Slack!Enqueue(m)))
        /\ WF_slackVars(side = "slack" /\ Slack!TimeoutFires(m))
        /\ WF_slackVars(side = "slack" /\ drainer[m] \in timedOut /\ Slack!TurnEnds(m))
        /\ WF_slackVars(side = "slack" /\ Slack!Processed(m))

SideSpec == SideInit /\ [][SideNext]_sideVars /\ AgentFairness /\ SlackFairness

\* No message waits in the queue of a session nobody drains (SlackQueue).
NoStranded == Slack!NoStranded

\* The loops of one session exclude each other (SlackQueue).
OneTurnPerSession == Slack!OneTurnPerSession

\* Every queued message is processed (SlackQueue).
Answered == Slack!Answered

=============================================================================
