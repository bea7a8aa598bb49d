------------------------------- MODULE Memory -------------------------------
(***************************************************************************)
(* packages/zosma-mem as packages/agents/src/pi.agent.ts uses it: the      *)
(* agent sessions of a process that share a memory directory, each with an *)
(* engine of its own.  An engine's operations are synchronous, so each is  *)
(* one step on the directory.  A score is kept as its integral part        *)
(* 2*reuseCount + 5*decisionInfluence - 2*ignoredReads; the decay with age *)
(* is "none to speak of" or "more than the rest".  Which facts a message   *)
(* retrieves and a reply uses, and what is extracted, is the model's.      *)
(***************************************************************************)
EXTENDS Integers, FiniteSets

CONSTANTS
    Agents,       \* sessions of the process
    Facts,        \* entity ids
    TopK,         \* memories retrieved per turn
    PruneCycles,  \* gcPruneCycles
    MaxScore      \* bound: |integral part of a score|

VARIABLES
    facts,     \* [facts in the store -> [score, cycles (belowThresholdCycles)]]
    aged,      \* facts long enough not accessed for decay to outweigh their score
    coAccess,  \* [Agents with an engine -> its coAccess graph in memory]
    saved,     \* the graph in co-access.json
    injections, \* [Agents -> the facts injected into the turn in progress, or None]
    extracts,  \* agents with an extraction of facts in flight
    streak     \* history: [Facts -> collections in a row that found it too low], up
               \* to PruneCycles

vars == <<facts, aged, coAccess, saved, injections, extracts, streak>>

Pairs   == Facts \X Facts
NoTurn  == [injected |-> {}, on |-> FALSE]
Stored  == DOMAIN facts

TypeOK ==
    /\ Stored \subseteq Facts /\ aged \subseteq Facts
    /\ \A f \in Stored : facts[f] \in [score: -MaxScore .. MaxScore, cycles: Nat]
    /\ DOMAIN coAccess \subseteq Agents
    /\ \A a \in DOMAIN coAccess : coAccess[a] \subseteq Pairs
    /\ saved \subseteq Pairs
    /\ injections \in [Agents -> [injected: SUBSET Facts, on: BOOLEAN]]
    /\ extracts \subseteq DOMAIN coAccess
    /\ streak \in [Facts -> 0 .. PruneCycles]

Init ==
    /\ facts = [f \in {} |-> 0] /\ aged = {}
    /\ coAccess = [a \in {} |-> {}] /\ saved = {}
    /\ injections = [a \in Agents |-> NoTurn] /\ extracts = {}
    /\ streak = [f \in Facts |-> 0]

-----------------------------------------------------------------------------

Open(a) == a \in DOMAIN coAccess

\* computeSalience below the threshold 0.4: a fresh score of 0 is.
TooLow(f) == facts[f].score <= 0 \/ f \in aged

Clamp(n) == IF n > MaxScore THEN MaxScore ELSE IF n < -MaxScore THEN -MaxScore ELSE n

Counted(n) == IF n < PruneCycles THEN n + 1 ELSE n

\* recordRead (used) and recordIgnoredRead on those of the facts still stored.
Reinforced(used, ignored) ==
    [f \in Stored |-> [facts[f] EXCEPT !.score =
        Clamp(@ + (IF f \in used THEN 2 ELSE 0) - (IF f \in ignored THEN 2 ELSE 0))]]

-----------------------------------------------------------------------------

\* createMemoryEngine reads the graph; an agent's timer runs until dispose.
CreateEngine(a) ==
    /\ ~Open(a)
    /\ coAccess' = [b \in DOMAIN coAccess \cup {a} |-> IF b = a THEN saved ELSE coAccess[b]]
    /\ UNCHANGED <<facts, aged, saved, injections, extracts, streak>>

\* A turn begins, loadContext: the topK best of all facts, however low; the pairs
\* among them enter the graph, which replaces the saved one; those with an
\* attention score below 1 - no tag of the message, and no more than 1 from
\* salience and co-access - count as ignored.
LoadContext(a) ==
    /\ Open(a) /\ ~injections[a].on
    /\ \E found \in SUBSET Stored :
         /\ Cardinality(found) = IF Cardinality(Stored) < TopK THEN Cardinality(Stored) ELSE TopK
         /\ coAccess' = [coAccess EXCEPT ![a] =
                @ \cup {p \in found \X found : p[1] # p[2]}]
         /\ saved' = coAccess'[a]
         /\ \E dull \in SUBSET {f \in found : facts[f].score <= 1 \/ f \in aged} :
              facts' = Reinforced({}, dull)
         /\ injections' = [injections EXCEPT ![a] = [injected |-> found, on |-> TRUE]]
    /\ UNCHANGED <<aged, extracts, streak>>

\* The turn is over: each injected fact was used in the reply or not, and what the
\* exchange taught is being extracted.
TurnEnds(a) ==
    /\ injections[a].on
    /\ \E used \in SUBSET injections[a].injected :
         /\ facts' = Reinforced(used, injections[a].injected \ used)
         /\ aged' = aged \ used
    /\ injections' = [injections EXCEPT ![a] = NoTurn]
    /\ extracts' = extracts \cup {a}
    /\ UNCHANGED <<coAccess, saved, streak>>

\* A turn that throws gives no feedback.
TurnThrows(a) ==
    /\ injections[a].on /\ injections' = [injections EXCEPT ![a] = NoTurn]
    /\ UNCHANGED <<facts, aged, coAccess, saved, extracts, streak>>

\* ingest: a fact keeps its score if it is stored, and is refreshed if it is
\* worded anew; an archived one starts again.
IngestFacts(a) ==
    /\ a \in extracts /\ extracts' = extracts \ {a}
    /\ \E learned \in SUBSET Facts : \E reworded \in SUBSET (learned \cap Stored),
                                        decisions \in SUBSET (learned \ Stored) :
         /\ facts' = [f \in Stored \cup learned |->
                IF f \notin Stored
                THEN [score |-> IF f \in decisions THEN Clamp(5) ELSE 0, cycles |-> 0]
                ELSE IF f \in reworded THEN [facts[f] EXCEPT !.cycles = 0] ELSE facts[f]]
         /\ aged' = aged \ (reworded \cup (learned \ Stored))
         /\ streak' = [f \in Facts |-> IF f \in learned \ Stored THEN 0 ELSE streak[f]]
    /\ UNCHANGED <<coAccess, saved, injections>>

\* Mutant: a collection that finds a fact high enough leaves its count.
CollectUnreset(a) ==
    LET counted == [f \in Stored |-> IF TooLow(f) THEN [facts[f] EXCEPT !.cycles = @ + 1]
                                                  ELSE facts[f]]
        archived == {f \in Stored : TooLow(f) /\ counted[f].cycles >= PruneCycles}
    IN  /\ facts' = [f \in Stored \ archived |-> counted[f]]
        /\ aged' = aged \ archived
        /\ streak' = [f \in Facts |-> IF f \notin Stored THEN streak[f]
                                      ELSE IF TooLow(f) THEN Counted(streak[f]) ELSE 0]
        /\ saved' = coAccess[a]

\* runGc, of the timer or of dispose: count the facts that are too low, archive the
\* ones that have been for gcPruneCycles, and save the engine's graph.
Collect(a) ==
    LET counted == [f \in Stored |-> [facts[f] EXCEPT !.cycles = IF TooLow(f) THEN @ + 1 ELSE 0]]
        archived == {f \in Stored : TooLow(f) /\ counted[f].cycles >= PruneCycles}
    IN  /\ facts' = [f \in Stored \ archived |-> counted[f]]
        /\ aged' = aged \ archived
        /\ streak' = [f \in Facts |-> IF f \notin Stored THEN streak[f]
                                      ELSE IF TooLow(f) THEN Counted(streak[f]) ELSE 0]
        /\ saved' = coAccess[a]

Gc(a) == Open(a) /\ Collect(a) /\ UNCHANGED <<coAccess, injections, extracts>>

\* dispose: the extractions are awaited, then one collection, then the timer stops.
Dispose(a) ==
    /\ Open(a) /\ ~injections[a].on /\ a \notin extracts
    /\ Collect(a)
    /\ coAccess' = [b \in DOMAIN coAccess \ {a} |-> coAccess[b]]
    /\ UNCHANGED <<injections, extracts>>

Age(f) ==
    /\ f \in Stored \ aged /\ aged' = aged \cup {f}
    /\ UNCHANGED <<facts, coAccess, saved, injections, extracts, streak>>

Next ==
    \/ \E a \in Agents : \/ CreateEngine(a) \/ LoadContext(a) \/ TurnEnds(a) \/ TurnThrows(a)
                         \/ IngestFacts(a) \/ Gc(a) \/ Dispose(a)
    \/ \E f \in Facts : Age(f)

Spec == Init /\ [][Next]_vars

-----------------------------------------------------------------------------
(* Properties *)

\* "Archive entities that have been below threshold for gcPruneCycles consecutive
\* cycles" (prune.ts:4): a fact leaves the store only if so many collections in a
\* row found it too low since it was learned, whichever engines ran them and
\* whatever turns and rewordings came between.
PruneEarned ==
    [][\A f \in Stored \ Stored' : streak'[f] >= PruneCycles]_vars

=============================================================================
