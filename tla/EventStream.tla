---------------------------- MODULE EventStream ----------------------------
(***************************************************************************)
(* What a turn's AsyncGenerator<AgentStreamEvent> promises its consumer:   *)
(* the events of the turn, all of them, once each, in order; the stream    *)
(* ends only when nothing is left to hand over or the consumer has left.   *)
(***************************************************************************)
EXTENDS Naturals, Sequences

CONSTANT Events   \* event kinds

VARIABLES
    sent,       \* events of the turn, oldest first
    received,   \* events handed to the consumer
    phase       \* "open", "left" by its consumer, or "closed"

TypeOK ==
    /\ sent \in Seq(Events) /\ received \in Seq(Events)
    /\ phase \in {"open", "left", "closed"}

Init == sent = <<>> /\ received = <<>> /\ phase = "open"

\* One callback of the agent loop may emit several events at once.
Send ==
    /\ phase = "open"
    /\ \E e \in Events : sent' \in {Append(sent, e), Append(Append(sent, "error"), e)}
    /\ UNCHANGED <<received, phase>>

Receive ==
    /\ phase = "open" /\ Len(received) < Len(sent)
    /\ received' = Append(received, sent[Len(received) + 1])
    /\ UNCHANGED <<sent, phase>>

Close ==
    /\ phase = "open" /\ received = sent
    /\ phase' = "closed"
    /\ UNCHANGED <<sent, received>>

Leave ==
    /\ phase = "open"
    /\ phase' = "left"
    /\ UNCHANGED <<sent, received>>

Next == Send \/ Receive \/ Close \/ Leave

Spec == Init /\ [][Next]_<<sent, received, phase>>

\* Delivery in order without loss or duplication.
IsPrefix(s, t) == Len(s) <= Len(t) /\ \A i \in 1..Len(s) : s[i] = t[i]
InOrder == IsPrefix(received, sent) /\ (phase = "closed" => received = sent)
=============================================================================
