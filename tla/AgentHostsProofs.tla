-------------------------- MODULE AgentHostsProofs --------------------------
(***************************************************************************)
(* Theorems about the programs of MCAgentHosts, each as a property of      *)
(* HostSpec, where one behaviour is of one program.  A program that does   *)
(* not run stands still in its initial state, so the inductive invariant   *)
(* of each program is one of HostSpec as well.                             *)
(***************************************************************************)
EXTENDS MCAgentHosts, Integers, TLAPS

-----------------------------------------------------------------------------
(* TaskExecutor: what the entry of a task says about its request *)

\* A task that was not contested has one request at work.
OneAtWork == \A t \in Sessions \ contested : \A r, s \in A2A!Working(t) : r = s

\* A request whose session is there is aborted, or its controller is the entry of its
\* task and nobody cancelled it; before it has a session nobody could.
Reached == \A r \in Turns :
    /\ A2A!Busy(r) /\ requests[r].pc = "creating" => ~requests[r].cancelled
    /\ A2A!Busy(r) /\ requests[r].pc # "creating" /\ requests[r].task \notin contested
         => \/ requests[r].aborted
            \/ /\ ~requests[r].cancelled
               /\ requests[r].task \in DOMAIN abortControllers
               /\ abortControllers[requests[r].task] = r

TaskInv == A2A!TypeOK /\ OneAtWork /\ Reached

LEMMA TaskInit == A2A!Init => TaskInv
BY DEF A2A!Init, TaskInv, A2A!TypeOK, OneAtWork, Reached, A2A!Busy, A2A!Working, A2A!Idle

LEMMA TaskReceive ==
    ASSUME TaskInv, NEW r \in Turns, NEW t \in Sessions, A2A!Receive(r, t)
    PROVE  TaskInv'
<1> USE DEF A2A!Receive, A2A!Busy, A2A!Idle, TaskInv, A2A!TypeOK, A2A!Request
<1>1. A2A!TypeOK'
  BY DEF A2A!PCs
<1>2. OneAtWork'
  BY DEF OneAtWork, A2A!Working
<1>3. Reached'
  BY DEF Reached, A2A!Working
<1> QED
  BY <1>1, <1>2, <1>3

\* Steps that remove a request of no registered turn, or advance one.
LEMMA TaskAdvance ==
    ASSUME TaskInv, NEW r \in Turns,
           A2A!CreateFails(r) \/ A2A!Greeted(r) \/ A2A!LeaveAtGreeting(r)
    PROVE  TaskInv'
<1> USE DEF A2A!CreateFails, A2A!Greeted, A2A!LeaveAtGreeting, A2A!Busy, A2A!Idle,
            TaskInv, A2A!TypeOK, A2A!Request
<1>1. A2A!TypeOK'
  BY DEF A2A!PCs
<1>2. OneAtWork'
  BY DEF OneAtWork, A2A!Working
<1>3. Reached'
  BY DEF Reached
<1> QED
  BY <1>1, <1>2, <1>3

LEMMA TaskCreated ==
    ASSUME TaskInv, NEW r \in Turns, A2A!Created(r)
    PROVE  TaskInv'
<1> USE DEF A2A!Created, A2A!Busy, A2A!Idle, A2A!WithEntry, TaskInv, A2A!TypeOK, A2A!Request
<1>1. A2A!TypeOK'
  BY DEF A2A!PCs
<1>2. OneAtWork'
  BY DEF OneAtWork, A2A!Working
<1>3. Reached'
  BY DEF Reached, OneAtWork, A2A!Working
<1> QED
  BY <1>1, <1>2, <1>3

\* The end of a request removes the entry of its task.
LEMMA TaskEnds ==
    ASSUME TaskInv, NEW r \in Turns, A2A!TurnEnds(r) \/ A2A!Close(r)
    PROVE  TaskInv'
<1> USE DEF A2A!TurnEnds, A2A!Close, A2A!DeleteEntry, A2A!WithoutEntry, A2A!Busy, A2A!Idle,
            TaskInv, A2A!TypeOK, A2A!Request
<1>1. A2A!TypeOK'
  BY DEF A2A!PCs
<1>2. OneAtWork'
  BY DEF OneAtWork, A2A!Working
<1>3. Reached'
  BY DEF Reached, OneAtWork, A2A!Working
<1> QED
  BY <1>1, <1>2, <1>3

LEMMA TaskCancel ==
    ASSUME TaskInv, NEW t \in Sessions, A2A!Cancel(t)
    PROVE  TaskInv'
<1> USE DEF TaskInv, A2A!TypeOK
<1> DEFINE Hit(r) == r \in A2A!Working(t) /\ requests[r].pc # "creating"
<1>1. ASSUME NEW r \in Turns, A2A!Busy(r)
      PROVE  /\ requests'[r] \in A2A!Request
             /\ requests'[r].task = requests[r].task /\ requests'[r].pc = requests[r].pc
             /\ ~Hit(r) => requests'[r] = requests[r]
             /\ Hit(r) => /\ requests'[r].cancelled
                          /\ requests[r].aborted => requests'[r].aborted
                          /\ t \in DOMAIN abortControllers /\ abortControllers[t] = r
                               => requests'[r].aborted
  <2>1. requests[r] \in A2A!Request
    BY <1>1 DEF A2A!Busy
  <2>2. CASE Hit(r)
    BY <1>1, <2>1, <2>2 DEF A2A!Cancel, A2A!Request
  <2>3. CASE ~Hit(r)
    BY <1>1, <2>1, <2>3 DEF A2A!Cancel, A2A!Request
  <2> QED
    BY <2>2, <2>3
<1>2. ASSUME NEW r \in Turns, ~A2A!Busy(r)
      PROVE  requests'[r] = requests[r]
  BY <1>2 DEF A2A!Cancel, A2A!Working, A2A!Busy
<1>3. ASSUME NEW r \in Turns
      PROVE  A2A!Busy(r)' <=> A2A!Busy(r)
  <2>1. ASSUME NEW q \in A2A!Request
        PROVE  q # A2A!Idle
    BY DEF A2A!Request, A2A!Idle, A2A!PCs
  <2> QED
    BY <1>1, <1>2, <2>1 DEF A2A!Busy
<1>4. /\ contested' = contested
      /\ DOMAIN abortControllers' = DOMAIN abortControllers \ {t}
      /\ \A u \in DOMAIN abortControllers \ {t} : abortControllers'[u] = abortControllers[u]
  BY DEF A2A!Cancel, A2A!DeleteEntry, A2A!WithoutEntry
<1>5. A2A!TypeOK'
  <2>1. requests' \in [Turns -> A2A!Request \cup {A2A!Idle}]
    <3>1. requests' = [r \in Turns |-> requests'[r]]
      BY DEF A2A!Cancel
    <3> QED
      BY <1>1, <1>2, <3>1 DEF A2A!Busy
  <2> QED
    BY <1>4, <2>1
<1>6. OneAtWork'
  BY <1>1, <1>3, <1>4 DEF OneAtWork, A2A!Working
<1>7. Reached'
  <2> SUFFICES ASSUME NEW r \in Turns, A2A!Busy(r)
               PROVE  /\ requests'[r].pc = "creating" => ~requests'[r].cancelled
                      /\ requests'[r].pc # "creating" /\ requests'[r].task \notin contested
                           => \/ requests'[r].aborted
                              \/ /\ ~requests'[r].cancelled
                                 /\ requests'[r].task \in DOMAIN abortControllers'
                                 /\ abortControllers'[requests'[r].task] = r
    BY <1>3, <1>4 DEF Reached
  <2>1. CASE Hit(r)
    BY <1>1, <2>1 DEF Reached, A2A!Working
  <2>2. CASE ~Hit(r)
    BY <1>1, <1>4, <2>2 DEF Reached, A2A!Working
  <2> QED
    BY <2>1, <2>2
<1> QED
  BY <1>5, <1>6, <1>7

LEMMA TaskStep == TaskInv /\ [A2A!Next]_taskVars => TaskInv'
<1> SUFFICES ASSUME TaskInv, [A2A!Next]_taskVars
             PROVE  TaskInv'
  OBVIOUS
<1>1. ASSUME NEW t \in Sessions, A2A!Cancel(t)
      PROVE  TaskInv'
  BY <1>1, TaskCancel
<1>2. ASSUME NEW t \in Sessions, NEW r \in Turns, A2A!Receive(r, t)
      PROVE  TaskInv'
  BY <1>2, TaskReceive
<1>3. ASSUME NEW r \in Turns, A2A!CreateFails(r) \/ A2A!Greeted(r) \/ A2A!LeaveAtGreeting(r)
      PROVE  TaskInv'
  BY <1>3, TaskAdvance
<1>4. ASSUME NEW r \in Turns, A2A!Created(r)
      PROVE  TaskInv'
  BY <1>4, TaskCreated
<1>5. ASSUME NEW r \in Turns, A2A!TurnEnds(r) \/ A2A!Close(r)
      PROVE  TaskInv'
  BY <1>5, TaskEnds
<1>6. CASE UNCHANGED taskVars
  BY <1>6 DEF taskVars, TaskInv, A2A!TypeOK, OneAtWork, Reached, A2A!Busy, A2A!Working
<1> QED
  BY <1>1, <1>2, <1>3, <1>4, <1>5, <1>6 DEF A2A!Next

LEMMA TaskInvariant == HostSpec => []TaskInv
<1>1. HostInit => TaskInv
  BY TaskInit DEF HostInit
<1>2. TaskInv /\ [HostNext]_hostVars => TaskInv'
  BY TaskStep DEF HostNext, hostVars, taskVars
<1> QED
  BY <1>1, <1>2, PTL DEF HostSpec

\* A turn of a task that was answered Canceled while it ran has its signal aborted,
\* unless several requests had the task at once: cancelTask (executor.ts:51) and the
\* deletions of the entry (93, 108, 203) never miss it.
THEOREM CancelCorrect == HostSpec => []CancelReaches
<1>1. TaskInv => CancelReaches
  BY DEF TaskInv, Reached, CancelReaches, A2A!CancelReaches
<1> QED
  BY <1>1, TaskInvariant, PTL

-----------------------------------------------------------------------------
(* Harness: entries in use are neither reused nor swept too early *)

HarnessTypeOK == PiHarness!TypeOK /\ (tui.up => tui.session \in Sessions)

\* The entry of a running turn was active no earlier than the turn's beginning, and is
\* the session's unless it was removed or the turn has outlived the timeout.
Kept == \A p \in Turns :
    posts[p].pc = "running" =>
        /\ posts[p].entry \in Entries
        /\ posts[p].since <= lastActive[posts[p].entry]
        /\ posts[p].entry \notin removed /\ clock - posts[p].since <= IdleTimeout
             => posts[p].id \in DOMAIN live /\ live[posts[p].id] = posts[p].entry

NotAhead == \A e \in Entries : lastActive[e] <= clock

HarnessInv == HarnessTypeOK /\ Kept /\ NotAhead

LEMMA HarnessInit == PiHarness!Init => HarnessInv
<1> SUFFICES ASSUME PiHarness!Init
             PROVE  HarnessInv
  OBVIOUS
<1> USE HostAssumption DEF PiHarness!Init, PiHarness!NoTerminal, PiHarness!Idle
<1>1. HarnessTypeOK
  <2>1. DOMAIN live \subseteq Sessions /\ \A i \in DOMAIN live : live[i] \in Entries
    OBVIOUS
  <2>2. lastActive \in [Entries -> 0 .. MaxClock] /\ clock \in 0 .. MaxClock
    OBVIOUS
  <2>3. tui \in [up: BOOLEAN, closing: BOOLEAN, session: Sessions \cup {None},
                 controller: Turns \cup {None}, isStreaming: BOOLEAN]
    OBVIOUS
  <2> QED
    BY <2>1, <2>2, <2>3 DEF HarnessTypeOK, PiHarness!TypeOK
<1>2. Kept /\ NotAhead
  BY DEF Kept, NotAhead
<1> QED
  BY <1>1, <1>2 DEF HarnessInv

\* Posts are told apart from free slots by their pc.
LEMMA PostTyped ==
    ASSUME HarnessInv, NEW p \in Turns, posts[p].pc \in {"posted", "running", "over"}
    PROVE  posts[p] \in PiHarness!Post
BY DEF HarnessInv, HarnessTypeOK, PiHarness!TypeOK, PiHarness!Idle, PiHarness!Post

\* createSession, on its own or for the terminal: the new entry is of no turn.
LEMMA KeptByCreate ==
    ASSUME HarnessInv, NEW i \in Sessions, PiHarness!CreateSession(i), posts' = posts
    PROVE  /\ Kept' /\ NotAhead'
           /\ DOMAIN live' \subseteq Sessions /\ \A j \in DOMAIN live' : live'[j] \in Entries
           /\ lastActive' \in [Entries -> 0 .. MaxClock] /\ clock' \in 0 .. MaxClock
           /\ removed' \subseteq Entries
<1> USE DEF HarnessInv, HarnessTypeOK, PiHarness!TypeOK
<1>1. PICK e \in Entries \ PiHarness!InUse :
         /\ removed' = (removed \ {e})
                         \cup (IF PiHarness!HasSession(i) THEN {live[i]} ELSE {})
         /\ live' = [j \in DOMAIN live \cup {i} |-> IF j = i THEN e ELSE live[j]]
         /\ lastActive' = [lastActive EXCEPT ![e] = clock]
  BY DEF PiHarness!CreateSession
<1>2. clock' = clock
  BY DEF PiHarness!CreateSession
<1>3. NotAhead'
  BY <1>1, <1>2, HostAssumption DEF NotAhead
<1>4. Kept'
  <2> SUFFICES ASSUME NEW p \in Turns, posts[p].pc = "running"
               PROVE  /\ posts[p].entry \in Entries
                      /\ posts[p].since <= lastActive'[posts[p].entry]
                      /\ posts[p].entry \notin removed' /\ clock - posts[p].since <= IdleTimeout
                           => posts[p].id \in DOMAIN live' /\ live'[posts[p].id] = posts[p].entry
    BY <1>2 DEF Kept
  <2>1. posts[p].entry # e
    BY DEF PiHarness!InUse
  <2>2. posts[p].id = i /\ posts[p].id \in DOMAIN live /\ live[posts[p].id] = posts[p].entry
          => posts[p].entry \in removed'
    BY <1>1 DEF PiHarness!HasSession
  <2>3. posts[p].entry \in removed => posts[p].entry \in removed'
    BY <1>1, <2>1
  <2> QED
    BY <1>1, <2>1, <2>2, <2>3 DEF Kept
<1>5. removed' \subseteq Entries
  BY <1>1 DEF PiHarness!HasSession
<1> QED
  BY <1>1, <1>2, <1>3, <1>4, <1>5

LEMMA KeptByDelete ==
    ASSUME HarnessInv, NEW i \in Sessions, PiHarness!DeleteSession(i),
           \A p \in Turns : posts'[p].pc = "running" =>
              /\ posts[p].pc = "running" /\ posts'[p].entry = posts[p].entry
              /\ posts'[p].since = posts[p].since /\ posts'[p].id = posts[p].id
    PROVE  /\ Kept' /\ NotAhead'
           /\ DOMAIN live' \subseteq Sessions /\ \A j \in DOMAIN live' : live'[j] \in Entries
           /\ lastActive' \in [Entries -> 0 .. MaxClock] /\ clock' \in 0 .. MaxClock
           /\ removed' \subseteq Entries
<1> USE DEF HarnessInv, HarnessTypeOK, PiHarness!TypeOK, PiHarness!DeleteSession,
            PiHarness!HasSession
<1>1. Kept'
  BY DEF Kept
<1>2. NotAhead'
  BY DEF NotAhead
<1> QED
  BY <1>1, <1>2

\* The sweep takes what was last active longer ago than the timeout, hence no entry of a
\* turn that began within it.
LEMMA HarnessMinute ==
    ASSUME HarnessInv, PiHarness!Minute
    PROVE  HarnessInv'
<1> USE HostAssumption DEF PiHarness!Minute, PiHarness!server, PiHarness!terminal
<1>1. HarnessTypeOK'
  BY DEF HarnessInv, HarnessTypeOK, PiHarness!TypeOK, PiHarness!Post
<1>2. NotAhead'
  BY DEF HarnessInv, HarnessTypeOK, PiHarness!TypeOK, NotAhead
<1>3. Kept'
  <2> SUFFICES ASSUME NEW p \in Turns, posts[p].pc = "running"
               PROVE  /\ posts[p].entry \in Entries
                      /\ posts[p].since <= lastActive[posts[p].entry]
                      /\ posts[p].entry \notin removed /\ clock' - posts[p].since <= IdleTimeout
                           => posts[p].id \in DOMAIN live' /\ live'[posts[p].id] = posts[p].entry
    BY DEF Kept
  <2>1. posts[p].since \in 0 .. MaxClock /\ clock \in 0 .. MaxClock
    BY PostTyped DEF HarnessInv, HarnessTypeOK, PiHarness!TypeOK, PiHarness!Post
  <2>2. /\ posts[p].entry \in Entries /\ posts[p].since <= lastActive[posts[p].entry]
        /\ lastActive[posts[p].entry] \in 0 .. MaxClock
    BY DEF HarnessInv, Kept, HarnessTypeOK, PiHarness!TypeOK
  <2>3. ASSUME posts[p].entry \notin removed, clock' - posts[p].since <= IdleTimeout
        PROVE  posts[p].id \in DOMAIN live' /\ live'[posts[p].id] = posts[p].entry
    <3>1. posts[p].id \in DOMAIN live /\ live[posts[p].id] = posts[p].entry
      BY <2>1, <2>3 DEF HarnessInv, Kept
    <3>2. clock' - lastActive[live[posts[p].id]] <= IdleTimeout
      BY <2>1, <2>2, <2>3, <3>1
    <3> QED
      BY <3>1, <3>2
  <2> QED
    BY <2>2, <2>3
<1> QED
  BY <1>1, <1>2, <1>3 DEF HarnessInv

LEMMA HarnessSessions ==
    ASSUME HarnessInv, NEW i \in Sessions,
           \/ PiHarness!Create(i) \/ PiHarness!Delete(i) \/ PiHarness!Start(i)
           \/ PiHarness!NewSession(i) \/ PiHarness!Switch(i)
    PROVE  HarnessInv'
<1> USE DEF HarnessInv, HarnessTypeOK, PiHarness!TypeOK, PiHarness!server,
            PiHarness!terminal
<1>1. ASSUME posts' = posts, reading' = reading,
             tui' \in [up: BOOLEAN, closing: BOOLEAN, session: Sessions \cup {None},
                       controller: Turns \cup {None}, isStreaming: BOOLEAN],
             tui'.up => tui'.session \in Sessions,
             PiHarness!CreateSession(i) \/ UNCHANGED PiHarness!server
      PROVE  HarnessInv'
  <2>1. CASE PiHarness!CreateSession(i)
    BY <1>1, <2>1, KeptByCreate
  <2>2. CASE UNCHANGED PiHarness!server
    BY <1>1, <2>2 DEF Kept, NotAhead
  <2> QED
    BY <1>1, <2>1, <2>2
<1>2. CASE PiHarness!Create(i)
  BY <1>1, <1>2 DEF PiHarness!Create
<1>3. CASE PiHarness!Delete(i)
  <2>1. /\ PiHarness!DeleteSession(i) /\ posts' = posts
        /\ tui' = tui /\ reading' = reading
    BY <1>3 DEF PiHarness!Delete
  <2> QED
    BY <2>1, KeptByDelete
<1>4. CASE PiHarness!Start(i)
  <2>1. /\ posts' = posts /\ reading' = reading
        /\ tui' = [tui EXCEPT !.up = TRUE, !.session = i]
        /\ PiHarness!CreateSession(i) \/ UNCHANGED PiHarness!server
    BY <1>4 DEF PiHarness!Start
  <2>2. /\ tui' \in [up: BOOLEAN, closing: BOOLEAN, session: Sessions \cup {None},
                     controller: Turns \cup {None}, isStreaming: BOOLEAN]
        /\ tui'.up => tui'.session \in Sessions
    BY <2>1
  <2> QED
    BY <1>1, <2>1, <2>2
<1>5. CASE PiHarness!NewSession(i)
  <2>1. /\ posts' = posts /\ reading' = reading
        /\ tui.up /\ tui' = [tui EXCEPT !.session = i]
        /\ PiHarness!CreateSession(i)
    BY <1>5 DEF PiHarness!NewSession, PiHarness!Takes
  <2>2. /\ tui' \in [up: BOOLEAN, closing: BOOLEAN, session: Sessions \cup {None},
                     controller: Turns \cup {None}, isStreaming: BOOLEAN]
        /\ tui'.up => tui'.session \in Sessions
    BY <2>1
  <2> QED
    BY <1>1, <2>1, <2>2
<1>6. CASE PiHarness!Switch(i)
  <2>1. /\ posts' = posts /\ reading' = reading
        /\ tui.up /\ tui' = [tui EXCEPT !.session = i]
        /\ UNCHANGED PiHarness!server
    BY <1>6 DEF PiHarness!Switch, PiHarness!Takes
  <2>2. /\ tui' \in [up: BOOLEAN, closing: BOOLEAN, session: Sessions \cup {None},
                     controller: Turns \cup {None}, isStreaming: BOOLEAN]
        /\ tui'.up => tui'.session \in Sessions
    BY <2>1
  <2> QED
    BY <1>1, <2>1, <2>2
<1> QED
  BY <1>2, <1>3, <1>4, <1>5, <1>6

\* A message arrives, from an HTTP client or typed at the terminal.
LEMMA HarnessSubmits ==
    ASSUME HarnessInv, NEW p \in Turns,
           PiHarness!Line(p) \/ \E i \in Sessions : PiHarness!HttpMessage(p, i)
    PROVE  HarnessInv'
<1> USE DEF HarnessInv, HarnessTypeOK, PiHarness!TypeOK
<1>1. PICK i \in Sessions : PiHarness!Submit(p, i)
  BY DEF PiHarness!Line, PiHarness!HttpMessage, PiHarness!Takes
<1>2. UNCHANGED PiHarness!server
  BY DEF PiHarness!Line, PiHarness!HttpMessage
<1>3. posts' \in [Turns -> PiHarness!Post \cup {PiHarness!Idle}]
  BY <1>1 DEF PiHarness!Submit, PiHarness!Post
<1>4. Kept' /\ NotAhead'
  BY <1>1, <1>2 DEF PiHarness!Submit, PiHarness!server, Kept, NotAhead
<1> QED
  BY <1>2, <1>3, <1>4
     DEF PiHarness!server, PiHarness!Line, PiHarness!HttpMessage, PiHarness!terminal

\* The server takes a message up, marking its session active, and ends it so.
LEMMA HarnessRuns ==
    ASSUME HarnessInv, NEW p \in Turns, PiHarness!Begin(p) \/ PiHarness!End(p)
    PROVE  HarnessInv'
<1> USE HostAssumption DEF HarnessInv, PiHarness!Begin, PiHarness!End
<1>1. posts[p] \in PiHarness!Post
  BY PostTyped
<1>2. HarnessTypeOK'
  BY <1>1 DEF HarnessTypeOK, PiHarness!TypeOK, PiHarness!Post, PiHarness!HasSession,
              PiHarness!terminal, Kept
<1>3. NotAhead'
  BY <1>1 DEF HarnessTypeOK, PiHarness!TypeOK, NotAhead, PiHarness!Post
<1>4. Kept'
  <2> SUFFICES ASSUME NEW q \in Turns, posts'[q].pc = "running"
               PROVE  /\ posts'[q].entry \in Entries
                      /\ posts'[q].since <= lastActive'[posts'[q].entry]
                      /\ posts'[q].entry \notin removed
                         /\ clock - posts'[q].since <= IdleTimeout
                           => /\ posts'[q].id \in DOMAIN live
                              /\ live[posts'[q].id] = posts'[q].entry
    BY DEF Kept
  <2>1. CASE q = p
    BY <1>1, <2>1 DEF HarnessTypeOK, PiHarness!TypeOK, PiHarness!HasSession, PiHarness!Post
  <2>2. CASE q # p
    <3>1. posts'[q] = posts[q]
      BY <2>2 DEF HarnessTypeOK, PiHarness!TypeOK
    <3>2. posts[q] \in PiHarness!Post
      BY <3>1, PostTyped
    <3>3. lastActive[posts[q].entry] <= lastActive'[posts[q].entry]
      BY <1>1, <3>1, <3>2
         DEF HarnessTypeOK, PiHarness!TypeOK, PiHarness!Post, NotAhead, Kept, PiHarness!HasSession
    <3> QED
      BY <3>1, <3>2, <3>3 DEF HarnessTypeOK, PiHarness!TypeOK, PiHarness!Post, Kept
  <2> QED
    BY <2>1, <2>2
<1> QED
  BY <1>2, <1>3, <1>4

LEMMA AbortKeeps ==
    ASSUME HarnessInv, NEW ps
    PROVE  /\ PiHarness!Abort(ps) \in [Turns -> PiHarness!Post \cup {PiHarness!Idle}]
           /\ \A q \in Turns : PiHarness!Abort(ps)[q].pc = "running" =>
                 /\ posts[q].pc = "running"
                 /\ PiHarness!Abort(ps)[q].entry = posts[q].entry
                 /\ PiHarness!Abort(ps)[q].since = posts[q].since
                 /\ PiHarness!Abort(ps)[q].id = posts[q].id
<1> SUFFICES ASSUME NEW q \in Turns
             PROVE  /\ PiHarness!Abort(ps)[q] \in PiHarness!Post \cup {PiHarness!Idle}
                    /\ PiHarness!Abort(ps)[q].pc = "running" =>
                         /\ posts[q].pc = "running"
                         /\ PiHarness!Abort(ps)[q].entry = posts[q].entry
                         /\ PiHarness!Abort(ps)[q].since = posts[q].since
                         /\ PiHarness!Abort(ps)[q].id = posts[q].id
  BY DEF PiHarness!Abort
<1>1. posts[q] \in PiHarness!Post \cup {PiHarness!Idle}
  BY DEF HarnessInv, HarnessTypeOK, PiHarness!TypeOK
<1>2. CASE posts[q] = PiHarness!Idle
  BY <1>2 DEF PiHarness!Abort, PiHarness!Idle
<1>3. CASE posts[q] \in PiHarness!Post
  BY <1>3 DEF PiHarness!Abort, PiHarness!Post
<1> QED
  BY <1>1, <1>2, <1>3

\* Aborting or forgetting requests changes neither which turns run nor their entries.
LEMMA HarnessAborts ==
    ASSUME HarnessInv,
           \/ PiHarness!CancelStream
           \/ \E p \in Turns : PiHarness!Answered(p) \/ PiHarness!Hangup(p)
    PROVE  HarnessInv'
<1>1. ASSUME NEW p \in Turns, PiHarness!Answered(p)
      PROVE  HarnessInv'
  BY <1>1 DEF HarnessInv, HarnessTypeOK, PiHarness!TypeOK, PiHarness!Answered, PiHarness!Idle,
              PiHarness!server, PiHarness!terminal, Kept, NotAhead
<1>2. ASSUME NEW ps, posts' = PiHarness!Abort(ps),
             tui' = tui \/ tui' = [tui EXCEPT !.closing = TRUE],
             UNCHANGED <<PiHarness!server, reading>>
      PROVE  HarnessInv'
  <2>1. posts' \in [Turns -> PiHarness!Post \cup {PiHarness!Idle}]
    BY <1>2, AbortKeeps
  <2>2. Kept'
    BY <1>2, AbortKeeps DEF HarnessInv, PiHarness!server, Kept
  <2> QED
    BY <1>2, <2>1, <2>2
       DEF HarnessInv, HarnessTypeOK, PiHarness!TypeOK, PiHarness!server, NotAhead
<1>3. ASSUME NEW p \in Turns, PiHarness!Hangup(p)
      PROVE  HarnessInv'
  BY <1>2, <1>3 DEF PiHarness!Hangup, PiHarness!terminal
<1>4. CASE PiHarness!CancelStream
  BY <1>2, <1>4 DEF PiHarness!CancelStream
<1> QED
  BY <1>1, <1>3, <1>4

LEMMA HarnessTerminal ==
    ASSUME HarnessInv,
           \/ PiHarness!Quit \/ PiHarness!Shutdown
           \/ \E p \in Turns : PiHarness!ReadEnds(p) \/ PiHarness!ReadFails(p)
    PROVE  HarnessInv'
<1> USE DEF HarnessInv, HarnessTypeOK, PiHarness!TypeOK
<1>1. CASE PiHarness!Quit
  BY <1>1 DEF PiHarness!Quit, PiHarness!Takes, PiHarness!server, Kept, NotAhead
<1>2. ASSUME NEW p \in Turns, PiHarness!ReadEnds(p)
      PROVE  HarnessInv'
  BY <1>2 DEF PiHarness!ReadEnds, PiHarness!Unmark, PiHarness!server, Kept, NotAhead
<1>3. ASSUME NEW p \in Turns, PiHarness!ReadFails(p)
      PROVE  HarnessInv'
  <2>1. UNCHANGED PiHarness!server
    BY <1>3 DEF PiHarness!ReadFails
  <2>2. /\ posts' \in [Turns -> PiHarness!Post \cup {PiHarness!Idle}]
        /\ \A q \in Turns : posts'[q].pc = "running" =>
             /\ posts[q].pc = "running" /\ posts'[q].entry = posts[q].entry
             /\ posts'[q].since = posts[q].since /\ posts'[q].id = posts[q].id
    <3>1. CASE posts' = [posts EXCEPT ![p] = PiHarness!Idle]
      BY <3>1 DEF PiHarness!Idle
    <3>2. CASE posts' = PiHarness!Abort({p})
      BY <3>2, AbortKeeps
    <3>3. CASE UNCHANGED posts
      BY <3>3
    <3> QED
      BY <1>3, <3>1, <3>2, <3>3 DEF PiHarness!ReadFails
  <2>3. Kept' /\ NotAhead'
    BY <2>1, <2>2 DEF PiHarness!server, Kept, NotAhead
  <2> QED
    BY <1>3, <2>1, <2>2, <2>3 DEF PiHarness!ReadFails, PiHarness!Unmark, PiHarness!server
<1>4. CASE PiHarness!Shutdown
  <2> USE <1>4 DEF PiHarness!Shutdown, PiHarness!NoTerminal
  <2>1. posts' \in [Turns -> PiHarness!Post \cup {PiHarness!Idle}]
    BY AbortKeeps
  <2>2. \A q \in Turns : posts'[q].pc = "running" =>
            /\ posts[q].pc = "running" /\ posts'[q].entry = posts[q].entry
            /\ posts'[q].since = posts[q].since /\ posts'[q].id = posts[q].id
    BY AbortKeeps
  <2>3. tui' \in [up: BOOLEAN, closing: BOOLEAN, session: Sessions \cup {None},
                  controller: Turns \cup {None}, isStreaming: BOOLEAN]
    OBVIOUS
  <2>4. CASE PiHarness!HasSession(tui.session) /\ PiHarness!DeleteSession(tui.session)
    <3>1. tui.session \in Sessions
      BY <2>4 DEF PiHarness!HasSession
    <3>2. /\ Kept' /\ NotAhead'
          /\ DOMAIN live' \subseteq Sessions /\ \A j \in DOMAIN live' : live'[j] \in Entries
          /\ lastActive' \in [Entries -> 0 .. MaxClock] /\ clock' \in 0 .. MaxClock
          /\ removed' \subseteq Entries
      BY <2>2, <2>4, <3>1, KeptByDelete
    <3> QED
      BY <2>1, <2>3, <3>2
  <2>5. CASE UNCHANGED PiHarness!server
    <3>1. Kept' /\ NotAhead'
      BY <2>2, <2>5 DEF PiHarness!server, Kept, NotAhead
    <3> QED
      BY <2>1, <2>3, <2>5, <3>1 DEF PiHarness!server
  <2> QED
    BY <2>4, <2>5
<1> QED
  BY <1>1, <1>2, <1>3, <1>4

LEMMA HarnessStep == HarnessInv /\ [PiHarness!Next]_harnessVars => HarnessInv'
<1> SUFFICES ASSUME HarnessInv, [PiHarness!Next]_harnessVars
             PROVE  HarnessInv'
  OBVIOUS
<1>1. CASE PiHarness!Minute
  BY <1>1, HarnessMinute
<1>2. CASE PiHarness!Quit \/ PiHarness!Shutdown
  BY <1>2, HarnessTerminal
<1>3. CASE PiHarness!CancelStream
  BY <1>3, HarnessAborts
<1>4. ASSUME NEW i \in Sessions,
             \/ PiHarness!Create(i) \/ PiHarness!Delete(i) \/ PiHarness!Start(i)
             \/ PiHarness!NewSession(i) \/ PiHarness!Switch(i)
      PROVE  HarnessInv'
  BY <1>4, HarnessSessions
<1>5. ASSUME NEW p \in Turns, PiHarness!Begin(p) \/ PiHarness!End(p)
      PROVE  HarnessInv'
  BY <1>5, HarnessRuns
<1>6. ASSUME NEW p \in Turns, PiHarness!Answered(p) \/ PiHarness!Hangup(p)
      PROVE  HarnessInv'
  BY <1>6, HarnessAborts
<1>7. ASSUME NEW p \in Turns,
             PiHarness!Line(p) \/ \E i \in Sessions : PiHarness!HttpMessage(p, i)
      PROVE  HarnessInv'
  BY <1>7, HarnessSubmits
<1>8. ASSUME NEW p \in Turns, PiHarness!ReadEnds(p) \/ PiHarness!ReadFails(p)
      PROVE  HarnessInv'
  BY <1>8, HarnessTerminal
<1>9. CASE UNCHANGED harnessVars
  BY <1>9 DEF harnessVars, HarnessInv, HarnessTypeOK, PiHarness!TypeOK, Kept, NotAhead
<1> QED
  BY <1>1, <1>2, <1>3, <1>4, <1>5, <1>6, <1>7, <1>8, <1>9 DEF PiHarness!Next

LEMMA HarnessInvariant == HostSpec => []HarnessInv
<1>1. HostInit => HarnessInv
  BY HarnessInit DEF HostInit
<1>2. HarnessInv /\ [HostNext]_hostVars => HarnessInv'
  BY HarnessStep DEF HostNext, hostVars, harnessVars
<1> QED
  BY <1>1, <1>2, PTL DEF HostSpec

\* The idle sweep (session-manager.ts:217) spares a session whose turn began within the
\* timeout: what it reads, lastActiveAt, is never older than the beginning of a turn.
THEOREM KeepsSessionCorrect == HostSpec => []TurnKeepsSession
<1>1. HarnessInv => TurnKeepsSession
  BY DEF HarnessInv, Kept, TurnKeepsSession, PiHarness!TurnKeepsSession, PiHarness!HasSession
<1> QED
  BY <1>1, HarnessInvariant, PTL

-----------------------------------------------------------------------------
(* Memory: the count that archives a fact never runs ahead of the collections *)

\* belowThresholdCycles is at most the number of collections in a row that found the
\* fact too low, which is kept up to PruneCycles.
Counts == \A f \in DOMAIN facts :
    facts[f].cycles <= streak[f] \/ streak[f] = PruneCycles

\* An engine is not disposed of while a turn of its agent runs.
EngineOpen == \A b \in Sessions : injections[b].on => b \in DOMAIN coAccess

MemoryInv == ZosmaMem!TypeOK /\ Counts /\ EngineOpen

LEMMA MemoryInit == ZosmaMem!Init => MemoryInv
BY HostAssumption DEF ZosmaMem!Init, ZosmaMem!TypeOK, ZosmaMem!Stored, ZosmaMem!NoTurn,
                      ZosmaMem!Pairs, MemoryInv, Counts, EngineOpen

LEMMA ClampBounds ==
    ASSUME NEW n \in Int
    PROVE  ZosmaMem!Clamp(n) \in -MaxScore .. MaxScore
BY HostAssumption DEF ZosmaMem!Clamp

\* Feedback moves scores and nothing else.
LEMMA ReinforcedKeeps ==
    ASSUME MemoryInv, NEW used, NEW ignored
    PROVE  /\ DOMAIN ZosmaMem!Reinforced(used, ignored) = DOMAIN facts
           /\ \A f \in DOMAIN facts :
                 /\ ZosmaMem!Reinforced(used, ignored)[f]
                       \in [score: -MaxScore .. MaxScore, cycles: Nat]
                 /\ ZosmaMem!Reinforced(used, ignored)[f].cycles = facts[f].cycles
<1> SUFFICES ASSUME NEW f \in DOMAIN facts
             PROVE  /\ ZosmaMem!Reinforced(used, ignored)[f]
                         \in [score: -MaxScore .. MaxScore, cycles: Nat]
                    /\ ZosmaMem!Reinforced(used, ignored)[f].cycles = facts[f].cycles
  BY DEF ZosmaMem!Reinforced, ZosmaMem!Stored
<1> DEFINE n == facts[f].score + (IF f \in used THEN 2 ELSE 0)
                  - (IF f \in ignored THEN 2 ELSE 0)
<1>1. facts[f] \in [score: -MaxScore .. MaxScore, cycles: Nat]
  BY DEF MemoryInv, ZosmaMem!TypeOK, ZosmaMem!Stored
<1>2. n \in Int
  BY <1>1, HostAssumption
<1>3. ZosmaMem!Reinforced(used, ignored)[f] = [facts[f] EXCEPT !.score = ZosmaMem!Clamp(n)]
  BY DEF ZosmaMem!Reinforced, ZosmaMem!Stored
<1>4. ZosmaMem!Clamp(n) \in -MaxScore .. MaxScore
  BY <1>2, ClampBounds
<1> HIDE DEF n
<1> QED
  BY <1>1, <1>3, <1>4

\* Steps that leave the facts and their counts: engines come, turns fail.
LEMMA MemoryIdle ==
    ASSUME MemoryInv, NEW a \in Sessions,
           ZosmaMem!CreateEngine(a) \/ ZosmaMem!TurnThrows(a)
    PROVE  MemoryInv'
<1> USE DEF MemoryInv, ZosmaMem!TypeOK, ZosmaMem!Stored, Counts, EngineOpen
<1>1. CASE ZosmaMem!CreateEngine(a)
  <2>1. /\ DOMAIN coAccess' = DOMAIN coAccess \cup {a}
        /\ \A b \in DOMAIN coAccess' : coAccess'[b] = saved \/ coAccess'[b] = coAccess[b]
        /\ \A b \in DOMAIN coAccess' : b \in DOMAIN coAccess \/ coAccess'[b] = saved
    BY <1>1 DEF ZosmaMem!CreateEngine, ZosmaMem!Open
  <2> QED
    BY <1>1, <2>1 DEF ZosmaMem!CreateEngine
<1>2. CASE ZosmaMem!TurnThrows(a)
  BY <1>2 DEF ZosmaMem!TurnThrows, ZosmaMem!NoTurn
<1> QED
  BY <1>1, <1>2

LEMMA MemoryTurn ==
    ASSUME MemoryInv, NEW a \in Sessions, ZosmaMem!LoadContext(a) \/ ZosmaMem!TurnEnds(a)
    PROVE  MemoryInv'
<1>1. PICK used, ignored : facts' = ZosmaMem!Reinforced(used, ignored)
  BY DEF ZosmaMem!LoadContext, ZosmaMem!TurnEnds
<1>2. streak' = streak
  BY DEF ZosmaMem!LoadContext, ZosmaMem!TurnEnds
<1>3. Counts'
  BY <1>1, <1>2, ReinforcedKeeps DEF MemoryInv, Counts
<1>4. /\ DOMAIN facts' = DOMAIN facts
      /\ \A f \in DOMAIN facts' : facts'[f] \in [score: -MaxScore .. MaxScore, cycles: Nat]
  BY <1>1, ReinforcedKeeps
<1>5. ZosmaMem!TypeOK'
  <2>1. CASE ZosmaMem!LoadContext(a)
    <3>1. PICK found \in SUBSET DOMAIN facts :
             /\ coAccess' = [coAccess EXCEPT ![a] =
                    @ \cup {p \in found \X found : p[1] # p[2]}]
             /\ injections' = [injections EXCEPT ![a] = [injected |-> found, on |-> TRUE]]
      BY <2>1 DEF ZosmaMem!LoadContext, ZosmaMem!Stored
    <3>2. /\ a \in DOMAIN coAccess /\ saved' = coAccess'[a]
          /\ UNCHANGED <<aged, extracts>>
      BY <2>1 DEF ZosmaMem!LoadContext, ZosmaMem!Open
    <3>3. found \X found \subseteq Entries \X Entries
      BY DEF MemoryInv, ZosmaMem!TypeOK, ZosmaMem!Stored
    <3>4. /\ DOMAIN coAccess' = DOMAIN coAccess
          /\ \A b \in DOMAIN coAccess' : coAccess'[b] \subseteq Entries \X Entries
      BY <3>1, <3>2, <3>3 DEF MemoryInv, ZosmaMem!TypeOK, ZosmaMem!Pairs
    <3>5. injections' \in [Sessions -> [injected: SUBSET Entries, on: BOOLEAN]]
      BY <3>1 DEF MemoryInv, ZosmaMem!TypeOK, ZosmaMem!Stored
    <3> QED
      BY <1>2, <1>4, <3>2, <3>4, <3>5
         DEF MemoryInv, ZosmaMem!TypeOK, ZosmaMem!Stored, ZosmaMem!Pairs
  <2>2. CASE ZosmaMem!TurnEnds(a)
    <3>1. injections' \in [Sessions -> [injected: SUBSET Entries, on: BOOLEAN]]
      BY <2>2 DEF MemoryInv, ZosmaMem!TypeOK, ZosmaMem!NoTurn, ZosmaMem!TurnEnds
    <3>2. aged' \subseteq Entries /\ saved' \subseteq ZosmaMem!Pairs
      BY <2>2 DEF MemoryInv, ZosmaMem!TypeOK, ZosmaMem!TurnEnds
    <3>3. extracts' \subseteq DOMAIN coAccess' /\ coAccess' = coAccess
      BY <2>2 DEF MemoryInv, ZosmaMem!TypeOK, ZosmaMem!TurnEnds, EngineOpen
    <3> QED
      BY <1>2, <1>4, <3>1, <3>2, <3>3 DEF MemoryInv, ZosmaMem!TypeOK, ZosmaMem!Stored
  <2> QED
    BY <2>1, <2>2
<1>6. EngineOpen'
  BY DEF MemoryInv, ZosmaMem!TypeOK, ZosmaMem!NoTurn, ZosmaMem!Open, ZosmaMem!LoadContext,
         ZosmaMem!TurnEnds, EngineOpen
<1> QED
  BY <1>3, <1>5, <1>6 DEF MemoryInv

LEMMA MemoryIngest ==
    ASSUME MemoryInv, NEW a \in Sessions, ZosmaMem!IngestFacts(a)
    PROVE  MemoryInv'
<1> USE HostAssumption
        DEF MemoryInv, ZosmaMem!TypeOK, ZosmaMem!Stored, ZosmaMem!IngestFacts
<1>1. PICK learned \in SUBSET Entries :
         \E reworded \in SUBSET (learned \cap DOMAIN facts),
            decisions \in SUBSET (learned \ DOMAIN facts) :
           /\ facts' = [f \in DOMAIN facts \cup learned |->
                  IF f \notin DOMAIN facts
                  THEN [score |-> IF f \in decisions THEN ZosmaMem!Clamp(5) ELSE 0,
                        cycles |-> 0]
                  ELSE IF f \in reworded THEN [facts[f] EXCEPT !.cycles = 0] ELSE facts[f]]
           /\ aged' = aged \ (reworded \cup (learned \ DOMAIN facts))
           /\ streak' = [f \in Entries |->
                            IF f \in learned \ DOMAIN facts THEN 0 ELSE streak[f]]
  OBVIOUS
<1>2. ZosmaMem!Clamp(5) \in -MaxScore .. MaxScore
  BY ClampBounds
<1>3. \A f \in DOMAIN facts' : facts'[f] \in [score: -MaxScore .. MaxScore, cycles: Nat]
  BY <1>1, <1>2
<1>4. Counts'
  BY <1>1 DEF Counts
<1>5. DOMAIN facts' \subseteq Entries /\ aged' \subseteq Entries
      /\ streak' \in [Entries -> 0 .. PruneCycles]
  BY <1>1
<1> QED
  BY <1>3, <1>4, <1>5 DEF EngineOpen

\* A collection: what is archived was found too low PruneCycles times in a row.
LEMMA MemoryCollect ==
    ASSUME MemoryInv, NEW a \in Sessions, ZosmaMem!Collect(a)
    PROVE  /\ DOMAIN facts' \subseteq DOMAIN facts /\ aged' \subseteq aged
           /\ \A f \in DOMAIN facts' :
                 facts'[f] \in [score: -MaxScore .. MaxScore, cycles: Nat]
           /\ streak' \in [Entries -> 0 .. PruneCycles]
           /\ saved' = coAccess[a]
           /\ Counts'
           /\ \A f \in DOMAIN facts \ DOMAIN facts' : streak'[f] >= PruneCycles
<1> USE HostAssumption DEF MemoryInv, ZosmaMem!TypeOK, ZosmaMem!Stored
<1> DEFINE counted  == [f \in DOMAIN facts |->
                           [facts[f] EXCEPT !.cycles = IF ZosmaMem!TooLow(f) THEN @ + 1 ELSE 0]]
           archived == {f \in DOMAIN facts :
                           ZosmaMem!TooLow(f) /\ counted[f].cycles >= PruneCycles}
<1>1. /\ facts' = [f \in DOMAIN facts \ archived |-> counted[f]]
      /\ aged' = aged \ archived
      /\ streak' = [f \in Entries |-> IF f \notin DOMAIN facts THEN streak[f]
                                      ELSE IF ZosmaMem!TooLow(f) THEN ZosmaMem!Counted(streak[f])
                                      ELSE 0]
      /\ saved' = coAccess[a]
  BY DEF ZosmaMem!Collect
<1>2. ASSUME NEW f \in DOMAIN facts
      PROVE  /\ counted[f] \in [score: -MaxScore .. MaxScore, cycles: Nat]
             /\ streak'[f] \in 0 .. PruneCycles
             /\ counted[f].cycles <= streak'[f] \/ streak'[f] = PruneCycles
  <2>1. facts[f] \in [score: -MaxScore .. MaxScore, cycles: Nat] /\ streak[f] \in 0 .. PruneCycles
    OBVIOUS
  <2>2. CASE ZosmaMem!TooLow(f)
    <3>1. counted[f] = [facts[f] EXCEPT !.cycles = @ + 1]
      BY <2>2
    <3>2. streak'[f] = ZosmaMem!Counted(streak[f])
      BY <1>1, <2>2
    <3> HIDE DEF counted, archived
    <3> QED
      BY <2>1, <3>1, <3>2 DEF ZosmaMem!Counted, Counts
  <2>3. CASE ~ZosmaMem!TooLow(f)
    BY <1>1, <2>1, <2>3
  <2> QED
    BY <2>2, <2>3
<1>3. streak' \in [Entries -> 0 .. PruneCycles]
  BY <1>1, <1>2
<1>4. /\ DOMAIN facts' = DOMAIN facts \ archived
      /\ \A f \in DOMAIN facts' : facts'[f] = counted[f]
  BY <1>1
<1>5. \A f \in archived : streak'[f] >= PruneCycles
  <2>1. \A f \in archived : f \in DOMAIN facts /\ counted[f].cycles >= PruneCycles
    OBVIOUS
  <2> HIDE DEF counted, archived
  <2> QED
    BY <1>2, <2>1
<1> HIDE DEF counted
<1> QED
  BY <1>1, <1>2, <1>3, <1>4, <1>5 DEF Counts

LEMMA MemoryGc ==
    ASSUME MemoryInv, NEW a \in Sessions, ZosmaMem!Gc(a) \/ ZosmaMem!Dispose(a)
    PROVE  /\ MemoryInv'
           /\ \A f \in DOMAIN facts \ DOMAIN facts' : streak'[f] >= PruneCycles
<1>1. ZosmaMem!Collect(a) /\ a \in DOMAIN coAccess
  BY DEF ZosmaMem!Gc, ZosmaMem!Dispose, ZosmaMem!Open
<1>2. /\ injections' = injections /\ extracts' = extracts
      /\ extracts' \subseteq DOMAIN coAccess'
      /\ DOMAIN coAccess' \subseteq DOMAIN coAccess
      /\ \A b \in DOMAIN coAccess' : coAccess'[b] = coAccess[b]
      /\ EngineOpen'
  BY DEF ZosmaMem!Gc, ZosmaMem!Dispose, MemoryInv, ZosmaMem!TypeOK, EngineOpen
<1> QED
  BY <1>1, <1>2, MemoryCollect DEF MemoryInv, ZosmaMem!TypeOK, ZosmaMem!Stored

LEMMA MemoryStep ==
    ASSUME MemoryInv, [ZosmaMem!Next]_memoryVars
    PROVE  /\ MemoryInv'
           /\ \A f \in DOMAIN facts \ DOMAIN facts' : streak'[f] >= PruneCycles
<1>1. ASSUME NEW a \in Sessions,
             ZosmaMem!CreateEngine(a) \/ ZosmaMem!TurnThrows(a)
      PROVE  MemoryInv' /\ facts' = facts
  BY <1>1, MemoryIdle DEF ZosmaMem!CreateEngine, ZosmaMem!TurnThrows
<1>2. ASSUME NEW f \in Entries, ZosmaMem!Age(f)
      PROVE  MemoryInv' /\ facts' = facts
  BY <1>2 DEF MemoryInv, ZosmaMem!TypeOK, ZosmaMem!Stored, Counts, EngineOpen, ZosmaMem!Age
<1>3. ASSUME NEW a \in Sessions, ZosmaMem!LoadContext(a) \/ ZosmaMem!TurnEnds(a)
      PROVE  MemoryInv' /\ DOMAIN facts' = DOMAIN facts
  BY <1>3, MemoryTurn DEF ZosmaMem!LoadContext, ZosmaMem!TurnEnds, ZosmaMem!Reinforced,
                          ZosmaMem!Stored
<1>4. ASSUME NEW a \in Sessions, ZosmaMem!IngestFacts(a)
      PROVE  MemoryInv' /\ DOMAIN facts \subseteq DOMAIN facts'
  BY <1>4, MemoryIngest DEF ZosmaMem!IngestFacts, ZosmaMem!Stored
<1>5. ASSUME NEW a \in Sessions, ZosmaMem!Gc(a) \/ ZosmaMem!Dispose(a)
      PROVE  /\ MemoryInv'
             /\ \A f \in DOMAIN facts \ DOMAIN facts' : streak'[f] >= PruneCycles
  BY <1>5, MemoryGc
<1>6. CASE UNCHANGED memoryVars
  BY <1>6 DEF memoryVars, MemoryInv, ZosmaMem!TypeOK, ZosmaMem!Stored, Counts, EngineOpen
<1> QED
  BY <1>1, <1>2, <1>3, <1>4, <1>5, <1>6 DEF ZosmaMem!Next

LEMMA MemoryInvariant == HostSpec => []MemoryInv
<1>1. HostInit => MemoryInv
  BY MemoryInit DEF HostInit
<1>2. MemoryInv /\ [HostNext]_hostVars => MemoryInv'
  BY MemoryStep DEF HostNext, hostVars, memoryVars
<1> QED
  BY <1>1, <1>2, PTL DEF HostSpec

\* A fact leaves the store only after gcPruneCycles collections in a row found it too low
\* (prune.ts), whichever engines ran them and whatever turns came between.
THEOREM PruneCorrect == HostSpec => PruneEarned
<1>1. ASSUME MemoryInv, [HostNext]_hostVars
      PROVE  [\A f \in ZosmaMem!Stored \ ZosmaMem!Stored' :
                 streak'[f] >= PruneCycles]_(ZosmaMem!vars)
  <2>1. [ZosmaMem!Next]_memoryVars
    BY <1>1 DEF HostNext, hostVars, memoryVars
  <2> QED
    BY <1>1, <2>1, MemoryStep DEF ZosmaMem!Stored
<1> QED
  BY <1>1, MemoryInvariant, PTL DEF HostSpec, PruneEarned, ZosmaMem!PruneEarned

-----------------------------------------------------------------------------
(* The sandbox server: aborting a turn and announcing what it wrote *)

\* A slot without a turn is blank; a turn has a session and a snapshot.
TurnShape == \A t \in Turns :
    IF turns[t].pc = "idle" THEN turns[t] = Idle
    ELSE turns[t].session \in Sessions /\ turns[t].snapshot \in Snapshot

\* A registered controller is that of a turn of its session.
Registered ==
    \A s \in Sessions : controllers[s] # None => turns[controllers[s]].session = s

\* A session whose turns never overlapped has at most one.
OneTurn == \A s \in Sessions \ overlapped : \A t, u \in InProgress(s) : t = u

\* Its turn is aborted or its controller is the registered one.
Abortable ==
    \A t \in Turns : turns[t].pc # "idle" /\ turns[t].session \notin overlapped
        => turns[t].aborted \/ controllers[turns[t].session] = t

\* Snapshots are of the past.
Past == \A f \in Files :
    /\ \A s \in Sessions : snapshots[s] # NoSnapshot => snapshots[s][f] <= version[f]
    /\ \A t \in Turns : turns[t].pc # "idle" => turns[t].snapshot[f] <= version[f]

\* What it owes its turn wrote after the turn's snapshot, and the turn still runs.
Owes == \A s \in Sessions \ overlapped : \A f \in owed[s] :
    \E t \in InProgress(s) : turns[t].pc = "running" /\ turns[t].snapshot[f] < version[f]

\* Where the turn's snapshot left the session's, it was announced.
Told == \A t \in Turns :
    (/\ turns[t].pc # "idle" /\ turns[t].session \notin overlapped
     /\ snapshots[turns[t].session] # NoSnapshot)
        => \A f \in Files : \/ turns[t].snapshot[f] = snapshots[turns[t].session][f]
                            \/ <<f, turns[t].snapshot[f]>> \in reported[turns[t].session]

AgentInv == /\ TypeOK /\ TurnShape /\ Registered /\ OneTurn
            /\ Abortable /\ Past /\ Owes /\ Told

LEMMA AgentInit == Init => AgentInv
BY AgentAssumption DEF Init, AgentInv, TypeOK, TurnShape, Registered, OneTurn, Abortable, Past,
                       Owes, Told, InProgress, Idle, Turn, Snapshot

\* A turn that is not idle is one of a session, and a session's turns are not idle.
LEMMA TurnOf ==
    ASSUME AgentInv, NEW t \in Turns
    PROVE  /\ turns[t].pc = "idle" <=> turns[t].session = None
           /\ turns[t].pc = "idle" <=> turns[t] = Idle
           /\ turns[t].pc # "idle" => turns[t].session \in Sessions
<1>1. CASE turns[t].pc = "idle"
  <2>1. turns[t] = Idle
    BY <1>1 DEF AgentInv, TurnShape
  <2> QED
    BY <1>1, <2>1 DEF Idle
<1>2. CASE turns[t].pc # "idle"
  <2>1. turns[t].session \in Sessions
    BY <1>2 DEF AgentInv, TurnShape
  <2> QED
    BY <1>2, <2>1, AgentAssumption DEF Idle
<1> QED
  BY <1>1, <1>2

\* Cancelling aborts the registered turn and changes no turn otherwise.
LEMMA CancelledKeeps ==
    ASSUME AgentInv, NEW s \in Sessions, turns' = Cancelled(s)
    PROVE  /\ turns' \in [Turns -> Turn]
           /\ \A t \in Turns :
                 /\ turns'[t].pc = turns[t].pc /\ turns'[t].session = turns[t].session
                 /\ turns'[t].snapshot = turns[t].snapshot
                 /\ turns[t].aborted => turns'[t].aborted
                 /\ turns[t].pc = "idle" => turns'[t] = turns[t]
                 /\ controllers[s] = t => turns'[t].aborted
<1>1. turns \in [Turns -> Turn] /\ controllers[s] \in Turns \cup {None}
  BY DEF AgentInv, TypeOK
<1>2. controllers[s] # None => turns[controllers[s]].pc # "idle"
  BY <1>1, TurnOf, AgentAssumption DEF AgentInv, Registered
<1> QED
  BY <1>1, <1>2, AgentAssumption DEF Cancelled, Turn

LEMMA AgentSessions ==
    ASSUME AgentInv, NEW s \in Sessions,
           CreateSession(s) \/ CancelSession(s) \/ DeleteSession(s)
    PROVE  AgentInv'
<1>1. CASE CreateSession(s)
  BY <1>1 DEF AgentInv, TypeOK, TurnShape, Registered, OneTurn, Abortable, Past, Owes, Told,
              InProgress, CreateSession, files
<1>2. CASE CancelSession(s) \/ DeleteSession(s)
  <2>1. /\ turns' = Cancelled(s)
        /\ controllers' = [controllers EXCEPT ![s] = None]
        /\ snapshots' = snapshots \/ snapshots' = [snapshots EXCEPT ![s] = NoSnapshot]
        /\ sessions' \subseteq Sessions
        /\ UNCHANGED <<version, reported, owed, overlapped>>
    BY <1>2 DEF AgentInv, TypeOK, CancelSession, DeleteSession, files
  <2>2. TypeOK'
    BY <2>1, CancelledKeeps DEF AgentInv, TypeOK
  <2>3. TurnShape' /\ Registered'
    BY <2>1, CancelledKeeps, AgentAssumption DEF AgentInv, TypeOK, TurnShape, Registered
  <2>4. OneTurn' /\ Owes'
    BY <2>1, CancelledKeeps DEF AgentInv, OneTurn, Owes, InProgress
  <2>5. Abortable'
    BY <2>1, CancelledKeeps, TurnOf DEF AgentInv, TypeOK, Abortable
  <2>6. \A r \in Sessions : snapshots'[r] # NoSnapshot => snapshots'[r] = snapshots[r]
    BY <2>1 DEF AgentInv, TypeOK
  <2>7. Past' /\ Told'
    BY <2>1, <2>6, CancelledKeeps, TurnOf DEF AgentInv, Past, Told
  <2> QED
    BY <2>2, <2>3, <2>4, <2>5, <2>7 DEF AgentInv
<1> QED
  BY <1>1, <1>2

LEMMA AgentStarts ==
    ASSUME AgentInv, NEW t \in Turns, NEW s \in Sessions, StartTurn(t, s)
    PROVE  AgentInv'
<1>1. PICK new \in Turn :
         /\ turns' = [turns EXCEPT ![t] = new]
         /\ new.pc = "running" /\ new.session = s
         /\ new.snapshot \in Snapshot
         /\ snapshots[s] = NoSnapshot => new.snapshot = version
         /\ snapshots[s] # NoSnapshot => new.snapshot = snapshots[s]
  <2>1. PICK gone \in BOOLEAN :
           turns' = [turns EXCEPT ![t] =
               [pc |-> "running", session |-> s, aborted |-> gone,
                snapshot |-> IF snapshots[s] = NoSnapshot THEN version ELSE snapshots[s]]]
    BY DEF StartTurn
  <2> DEFINE new == [pc |-> "running", session |-> s, aborted |-> gone,
                     snapshot |-> IF snapshots[s] = NoSnapshot THEN version ELSE snapshots[s]]
  <2>2. new \in Turn /\ new.snapshot \in Snapshot
    BY DEF Turn, AgentInv, TypeOK
  <2> QED
    BY <2>1, <2>2
<1>2. /\ turns[t] = Idle /\ turns[t].pc = "idle" /\ turns[t].session = None
      /\ controllers' = [controllers EXCEPT ![s] = t]
      /\ UNCHANGED <<sessions, snapshots, version, reported, owed>>
      /\ overlapped \subseteq overlapped' /\ overlapped' \subseteq Sessions
      /\ s \notin overlapped' => InProgress(s) = {}
      /\ overlapped' \subseteq overlapped \cup {s}
  BY DEF StartTurn, Idle, files, AgentInv, TypeOK
<1>3. \A r \in Sessions : InProgress(r)' = IF r = s THEN InProgress(s) \cup {t}
                                                    ELSE InProgress(r)
  BY <1>1, <1>2, AgentAssumption DEF InProgress, AgentInv, TypeOK
<1>4. TypeOK' /\ TurnShape'
  BY <1>1, <1>2 DEF AgentInv, TypeOK, TurnShape
<1>5. Registered'
  BY <1>1, <1>2, AgentAssumption DEF AgentInv, TypeOK, Registered
<1>6. OneTurn'
  BY <1>2, <1>3 DEF AgentInv, OneTurn
<1>7. Abortable'
  BY <1>1, <1>2, TurnOf DEF AgentInv, TypeOK, Abortable, InProgress
<1>8. Past'
  BY <1>1, <1>2 DEF AgentInv, TypeOK, Past, Snapshot
<1>9. Owes'
  BY <1>1, <1>2, <1>3 DEF AgentInv, TypeOK, Owes, InProgress
<1>10. Told'
  BY <1>1, <1>2 DEF AgentInv, TypeOK, Told
<1> QED
  BY <1>4, <1>5, <1>6, <1>7, <1>8, <1>9, <1>10 DEF AgentInv

LEMMA AgentWrites ==
    ASSUME AgentInv, NEW t \in Turns,
           Disconnect(t) \/ \E f \in Files : Write(t, f)
    PROVE  AgentInv'
<1>1. CASE Disconnect(t)
  <2> USE <1>1 DEF Disconnect, files, AgentInv, TypeOK
  <2>1. /\ turns' \in [Turns -> Turn]
        /\ \A u \in Turns : /\ turns'[u].pc = turns[u].pc
                            /\ turns'[u].session = turns[u].session
                            /\ turns'[u].snapshot = turns[u].snapshot
                            /\ turns[u].aborted => turns'[u].aborted
                            /\ turns[u].pc = "idle" => turns'[u] = turns[u]
    BY TurnOf DEF Turn
  <2>2. TurnShape' /\ Registered'
    BY <2>1, AgentAssumption DEF TurnShape, Registered
  <2>3. OneTurn' /\ Owes'
    BY <2>1 DEF OneTurn, Owes, InProgress
  <2>4. Abortable' /\ Past' /\ Told'
    BY <2>1 DEF Abortable, Past, Told
  <2> QED
    BY <2>1, <2>2, <2>3, <2>4
<1>2. ASSUME NEW f \in Files, Write(t, f)
      PROVE  AgentInv'
  <2> USE <1>2 DEF Write, AgentInv, TypeOK
  <2>1. /\ turns[t].pc = "running" /\ turns[t].session \in Sessions
        /\ turns[t].snapshot \in Snapshot
        /\ UNCHANGED <<sessions, controllers, turns, snapshots, reported, overlapped>>
    BY DEF TurnShape
  <2>2. /\ version' \in Snapshot /\ version'[f] = version[f] + 1
        /\ \A g \in Files : version[g] <= version'[g]
        /\ \A g \in Files : version[g] \in Nat /\ version'[g] \in Nat
    BY AgentAssumption DEF Snapshot
  <2>3. /\ owed' \in [Sessions -> SUBSET Files]
        /\ \A s \in Sessions : owed'[s] = owed[s] \cup (IF s = turns[t].session THEN {f} ELSE {})
    BY <2>1
  <2>4. TurnShape' /\ Registered' /\ OneTurn' /\ Abortable' /\ Told'
    BY <2>1 DEF TurnShape, Registered, OneTurn, Abortable, Told, InProgress
  <2>5. \A u \in Turns : turns[u].pc # "idle" => turns[u].snapshot \in Snapshot
    BY DEF TurnShape
  <2>6. Past'
    BY <2>1, <2>2, <2>5 DEF Past, Snapshot
  <2>7. Owes'
    <3>1. turns[t].snapshot[f] < version'[f] /\ t \in InProgress(turns[t].session)
      BY <2>1, <2>2 DEF Past, Snapshot, InProgress
    <3>2. \A u \in Turns : \A g \in Files :
             turns[u].pc # "idle" => turns[u].snapshot[g] \in Nat
      BY <2>5 DEF Snapshot
    <3>3. ASSUME NEW s \in Sessions \ overlapped, NEW g \in owed'[s]
          PROVE  \E u \in InProgress(s) :
                    turns[u].pc = "running" /\ turns[u].snapshot[g] < version'[g]
      <4>1. CASE g \in owed[s]
        <5>1. PICK u \in InProgress(s) :
                turns[u].pc = "running" /\ turns[u].snapshot[g] < version[g]
          BY <4>1 DEF Owes
        <5>2. g \in Files /\ u \in Turns
          BY <4>1 DEF InProgress
        <5> QED
          BY <2>2, <3>2, <5>1, <5>2
      <4>2. CASE g = f /\ s = turns[t].session
        BY <2>1, <3>1, <4>2
      <4> QED
        BY <2>3, <3>3, <4>1, <4>2
    <3> QED
      BY <2>1, <3>3 DEF Owes, InProgress
  <2> QED
    BY <2>1, <2>2, <2>3, <2>4, <2>6, <2>7
<1> QED
  BY <1>1, <1>2

\* A scan announces what the turn's snapshot does not show and brings it up to date.
LEMMA AgentScans ==
    ASSUME AgentInv, NEW t \in Turns, turns[t].pc = "running",
           NEW pc \in {"running", "persisting"}, Scan(t, pc),
           UNCHANGED <<sessions, controllers, snapshots, version, overlapped>>
    PROVE  AgentInv'
<1> USE DEF AgentInv, TypeOK
<1> DEFINE s == turns[t].session
           changed == {f \in Files : version[f] # turns[t].snapshot[f]}
<1>1. s \in Sessions /\ turns[t].snapshot \in Snapshot
  BY DEF TurnShape
<1>2. /\ turns' = [turns EXCEPT ![t].pc = pc, ![t].snapshot = version]
      /\ reported' = [reported EXCEPT ![s] = @ \cup {<<f, version[f]>> : f \in changed}]
      /\ owed' = [owed EXCEPT ![s] = @ \ changed]
  BY DEF Scan
<1>3. /\ turns' \in [Turns -> Turn]
      /\ turns'[t].pc = pc /\ turns'[t].snapshot = version
      /\ \A u \in Turns : /\ turns'[u].session = turns[u].session
                          /\ turns'[u].aborted = turns[u].aborted
                          /\ turns'[u].pc = "idle" <=> turns[u].pc = "idle"
                          /\ u # t => turns'[u] = turns[u]
  BY <1>2 DEF Turn
<1>4. \A f \in changed : f \in Files /\ <<f, version[f]>> \in Files \X (0 .. MaxWrites)
  BY DEF Snapshot
<1>5. /\ reported' \in [Sessions -> SUBSET (Files \X (0 .. MaxWrites))]
      /\ \A r \in Sessions : reported[r] \subseteq reported'[r]
      /\ \A f \in changed : <<f, version[f]>> \in reported'[s]
  BY <1>1, <1>2, <1>4
<1>6. TurnShape' /\ Registered' /\ OneTurn' /\ Abortable'
  BY <1>3, AgentAssumption DEF TurnShape, Registered, OneTurn, Abortable, InProgress
<1>7. Past'
  BY <1>3 DEF Past, Snapshot
<1>8. /\ owed' \in [Sessions -> SUBSET Files]
      /\ \A r \in Sessions : owed'[r] = IF r = s THEN owed[s] \ changed ELSE owed[r]
  BY <1>1, <1>2
<1>9. s \in overlapped \/ owed'[s] = {}
  <2> SUFFICES ASSUME s \notin overlapped, NEW f \in owed[s]
               PROVE  f \in changed
    BY <1>1, <1>8
  <2>1. PICK u \in InProgress(s) : turns[u].pc = "running" /\ turns[u].snapshot[f] < version[f]
    BY <1>1 DEF Owes
  <2>2. u = t
    BY <1>1, <2>1 DEF OneTurn, InProgress
  <2>3. f \in Files /\ version[f] \in Nat /\ turns[t].snapshot[f] \in Nat
    BY <1>1 DEF Snapshot
  <2> QED
    BY <2>1, <2>2, <2>3
<1>10. Owes'
  <2> SUFFICES ASSUME NEW r \in Sessions \ overlapped, NEW f \in owed'[r]
               PROVE  \E u \in InProgress(r)' :
                         turns'[u].pc = "running" /\ turns'[u].snapshot[f] < version[f]
    BY DEF Owes
  <2>1. r # s /\ f \in owed[r]
    BY <1>8, <1>9
  <2>2. PICK u \in InProgress(r) : turns[u].pc = "running" /\ turns[u].snapshot[f] < version[f]
    BY <2>1 DEF Owes
  <2>3. u \in Turns /\ u # t
    BY <2>1, <2>2 DEF InProgress
  <2> QED
    BY <1>3, <2>2, <2>3 DEF InProgress
<1>11. Told'
  <2> SUFFICES ASSUME NEW u \in Turns, turns'[u].pc # "idle", turns'[u].session \notin overlapped,
                      snapshots[turns'[u].session] # NoSnapshot, NEW f \in Files
               PROVE  \/ turns'[u].snapshot[f] = snapshots[turns'[u].session][f]
                      \/ <<f, turns'[u].snapshot[f]>> \in reported'[turns'[u].session]
    BY DEF Told
  <2>1. \/ turns[u].snapshot[f] = snapshots[turns[u].session][f]
        \/ <<f, turns[u].snapshot[f]>> \in reported[turns[u].session]
    BY <1>3 DEF Told
  <2>2. turns[u].session \in Sessions /\ turns'[u].session = turns[u].session
    BY <1>3, TurnOf
  <2>3. CASE u # t \/ f \notin changed
    BY <1>3, <1>5, <2>1, <2>2, <2>3
  <2>4. CASE u = t /\ f \in changed
    BY <1>3, <1>5, <2>4
  <2> QED
    BY <2>3, <2>4
<1> QED
  BY <1>3, <1>5, <1>6, <1>7, <1>8, <1>10, <1>11

\* A turn that ends leaves its slot; its snapshot may become the session's.
LEMMA AgentEnds ==
    ASSUME AgentInv, NEW t \in Turns, Persist(t) \/ TurnThrows(t)
    PROVE  AgentInv'
<1> USE DEF AgentInv, TypeOK
<1> DEFINE s == turns[t].session
<1>1. s \in Sessions /\ turns[t].snapshot \in Snapshot /\ turns[t].pc # "idle"
  BY DEF TurnShape, Persist, TurnThrows
<1>2. /\ turns' = [turns EXCEPT ![t] = Idle]
      /\ controllers' = [controllers EXCEPT ![s] = None]
      /\ UNCHANGED <<sessions, version, reported, overlapped>>
      /\ \/ snapshots' = snapshots /\ owed' = [owed EXCEPT ![s] = {}]
         \/ /\ snapshots' = [snapshots EXCEPT ![s] = turns[t].snapshot] /\ owed' = owed
            /\ turns[t].pc = "persisting"
  BY DEF Persist, TurnThrows
<1>3. TypeOK' /\ TurnShape'
  BY <1>1, <1>2, AgentAssumption DEF TurnShape, Idle, Turn
<1>4. /\ \A u \in Turns \ {t} : turns'[u] = turns[u]
      /\ turns'[t].session = None /\ turns'[t].pc = "idle"
  BY <1>2 DEF Idle
<1>5. \A r \in Sessions : InProgress(r)' = InProgress(r) \ {t}
  BY <1>4, AgentAssumption DEF InProgress
<1>6. Registered'
  BY <1>1, <1>2, <1>4 DEF Registered
<1>7. OneTurn'
  BY <1>2, <1>5 DEF OneTurn
<1>8. Abortable'
  BY <1>1, <1>2, <1>4, TurnOf DEF Abortable, OneTurn, InProgress
<1>9. Past'
  BY <1>1, <1>2, <1>4 DEF Past
<1>10. Owes'
  <2> SUFFICES ASSUME NEW r \in Sessions \ overlapped, NEW f \in owed'[r]
               PROVE  \E u \in InProgress(r) \ {t} :
                         turns'[u].pc = "running" /\ turns'[u].snapshot[f] < version[f]
    BY <1>2, <1>5 DEF Owes
  <2>1. f \in owed[r] /\ (r = s => turns[t].pc = "persisting")
    BY <1>1, <1>2
  <2>2. PICK u \in InProgress(r) : turns[u].pc = "running" /\ turns[u].snapshot[f] < version[f]
    BY <2>1 DEF Owes
  <2>3. u # t
    BY <2>1, <2>2 DEF InProgress
  <2> QED
    BY <1>4, <2>2, <2>3 DEF InProgress
<1>11. Told'
  <2> SUFFICES ASSUME NEW u \in Turns, turns'[u].pc # "idle", turns'[u].session \notin overlapped,
                      snapshots'[turns'[u].session] # NoSnapshot, NEW f \in Files
               PROVE  \/ turns'[u].snapshot[f] = snapshots'[turns'[u].session][f]
                      \/ <<f, turns'[u].snapshot[f]>> \in reported[turns'[u].session]
    BY <1>2 DEF Told
  <2>1. u # t /\ turns'[u] = turns[u]
    BY <1>4
  <2>2. turns[u].session \in Sessions /\ turns[u].session # s
    BY <1>1, <2>1, TurnOf DEF OneTurn, InProgress
  <2>3. snapshots'[turns[u].session] = snapshots[turns[u].session]
    BY <1>2, <2>2
  <2> QED
    BY <2>1, <2>3 DEF Told
<1> QED
  BY <1>3, <1>6, <1>7, <1>8, <1>9, <1>10, <1>11

LEMMA AgentStep == AgentInv /\ [Next]_vars => AgentInv'
<1> SUFFICES ASSUME AgentInv, [Next]_vars
             PROVE  AgentInv'
  OBVIOUS
<1>1. ASSUME NEW s \in Sessions, CreateSession(s) \/ CancelSession(s) \/ DeleteSession(s)
      PROVE  AgentInv'
  BY <1>1, AgentSessions
<1>2. ASSUME NEW t \in Turns, \E s \in Sessions : StartTurn(t, s)
      PROVE  AgentInv'
  BY <1>2, AgentStarts
<1>3. ASSUME NEW t \in Turns, Disconnect(t) \/ \E f \in Files : Write(t, f)
      PROVE  AgentInv'
  BY <1>3, AgentWrites
<1>4. ASSUME NEW t \in Turns, ToolCallEnd(t) \/ StreamEnds(t)
      PROVE  AgentInv'
  BY <1>4, AgentScans DEF ToolCallEnd, StreamEnds
<1>5. ASSUME NEW t \in Turns, Persist(t) \/ TurnThrows(t)
      PROVE  AgentInv'
  BY <1>5, AgentEnds
<1>6. CASE UNCHANGED vars
  BY <1>6 DEF vars, AgentInv, TypeOK, TurnShape, Registered, OneTurn, Abortable, Past, Owes,
              Told, InProgress
<1> QED
  BY <1>1, <1>2, <1>3, <1>4, <1>5, <1>6 DEF Next

LEMMA AgentInvariant == HostSpec => []AgentInv
<1>1. HostInit => AgentInv
  BY AgentInit DEF HostInit
<1>2. AgentInv /\ [HostNext]_hostVars => AgentInv'
  BY AgentStep DEF HostNext, hostVars, vars
<1> QED
  BY <1>1, <1>2, PTL DEF HostSpec

\* cancelSession (agent.ts:290) finds the controller of a running turn that nothing has
\* aborted, as long as turns of the session do not overlap.
THEOREM CancellableCorrect == HostSpec => []Cancellable
<1>1. AgentInv => Cancellable
  BY DEF AgentInv, Abortable, Cancellable
<1> QED
  BY <1>1, AgentInvariant, PTL

\* The final scan (agent.ts:224) leaves nothing the turns of the session wrote
\* unannounced, whatever other sessions write to the same files.
THEOREM WritesAnnouncedCorrect == HostSpec => []WritesAnnounced
<1>1. ASSUME AgentInv, NEW t \in Turns, turns[t].pc = "persisting",
             turns[t].session \notin overlapped
      PROVE  owed[turns[t].session] = {}
  <2>1. turns[t].session \in Sessions \ overlapped /\ t \in InProgress(turns[t].session)
    BY <1>1 DEF AgentInv, TurnShape, InProgress
  <2> QED
    BY <1>1, <2>1 DEF AgentInv, Owes, OneTurn
<1>2. AgentInv => WritesAnnounced
  BY <1>1 DEF WritesAnnounced
<1> QED
  BY <1>2, AgentInvariant, PTL

\* The snapshot that the next turn starts from (agent.ts:231) shows a file as the session
\* last saw it or as it was announced.
THEOREM NothingSkippedCorrect == HostSpec => NothingSkipped
<1> DEFINE Skips == \A s \in Sessions \ overlapped :
              snapshots[s] # NoSnapshot /\ snapshots'[s] # NoSnapshot =>
                \A f \in Files : snapshots'[s][f] # snapshots[s][f]
                                   => <<f, snapshots'[s][f]>> \in reported[s]
<1>1. ASSUME AgentInv, [HostNext]_hostVars
      PROVE  Skips \/ UNCHANGED vars
  <2>1. ASSUME NEW t \in Turns, Persist(t)
        PROVE  Skips
    BY <1>1, <2>1 DEF Persist, AgentInv, TypeOK, TurnShape, Told
  <2>2. ASSUME NEW s \in Sessions, DeleteSession(s)
        PROVE  Skips
    BY <1>1, <2>2 DEF DeleteSession, AgentInv, TypeOK
  <2>3. CASE UNCHANGED snapshots
    BY <2>3
  <2>4. [Next]_vars
    BY <1>1 DEF HostNext, hostVars, vars
  <2> HIDE DEF Skips
  <2> QED
    BY <2>1, <2>2, <2>3, <2>4
       DEF Next, CreateSession, CancelSession, StartTurn, Write, Disconnect, ToolCallEnd,
           StreamEnds, TurnThrows, files
<1>2. ASSUME AgentInv, [HostNext]_hostVars
      PROVE  [Skips]_vars
  BY <1>1, <1>2
<1> QED
  BY <1>2, AgentInvariant, PTL DEF HostSpec, NothingSkipped

-----------------------------------------------------------------------------
(* OrchestratorSessions: the registry and the sandbox that serves it *)

\* What the place a call has reached says of it: how often its prompt may have run, that
\* only the last steps have seen an event, and what it works on.
Shaped(k) ==
    /\ k.pc \in {"idle", "ensure", "post", "upload", "registered", "touch", "stream"} => k.ran = 0
    /\ k.pc \in {"refresh", "retry"} => k.ran <= 1
    /\ k.seen => k.pc \in {"events", "touchAgain"}
    /\ k.pc \in {"post", "upload", "registered", "touch", "stream", "refresh", "retry",
                 "download", "remove", "unregister"} => k.session \in Sessions
    /\ k.pc = "ensure" => k.op = "file" \/ k.session \in Sessions
    /\ k.pc \in {"download", "remove", "unregister"} => k.op = "delete"

Call == [pc: Orchestrator!PCs, op: Orchestrator!AllOps \cup {None}, session: Sessions \cup {None},
         state: 0 .. MaxStates, ran: 0 .. 2, seen: BOOLEAN]

CallsShaped == \A c \in Turns :
    Shaped(calls[c]) /\ (calls[c].pc = "destroy" => disturbed)

\* A registered session that nobody deletes is hosted and tracked.
Served == \A s \in registry :
    ~Orchestrator!Deleting(s) => cached # 0 /\ s \in tracked /\ box[s] > 0

\* A call that creates a session does so in the cached sandbox.
Built == \A c \in Turns :
    /\ calls[c].pc \in {"post", "upload"} => cached # 0 /\ calls[c].state = cached
    /\ calls[c].pc = "upload" => box[calls[c].session] > 0

\* Nobody deletes a session that is being created.
Apart == \A s \in Sessions : ~(Orchestrator!Creating(s) /\ Orchestrator!Deleting(s))

Calm == Served /\ Built /\ Apart

OrchInv == Orchestrator!TypeOK /\ CallsShaped /\ (~disturbed => Calm)

LEMMA IdleCall ==
    Orchestrator!Idle \in Call /\ Shaped(Orchestrator!Idle) /\ Orchestrator!Idle.pc = "idle"
BY HostAssumption DEF Orchestrator!Idle, Orchestrator!PCs, Call, Shaped

LEMMA OrchInit == Orchestrator!Init => OrchInv
<1> SUFFICES ASSUME Orchestrator!Init
             PROVE  OrchInv
  OBVIOUS
<1>1. calls \in [Turns -> Call] /\ \A c \in Turns : calls[c] = Orchestrator!Idle
  BY IdleCall DEF Orchestrator!Init
<1>2. Orchestrator!TypeOK
  <2>1. box \in [Sessions -> Nat] /\ registry \subseteq Sessions /\ tracked \subseteq Sessions
    BY DEF Orchestrator!Init, Orchestrator!Empty
  <2>2. cached \in 0 .. MaxStates /\ states \in 0 .. MaxStates /\ faults \in 0 .. MaxFaults
    BY HostAssumption DEF Orchestrator!Init
  <2>3. disturbed \in BOOLEAN
    BY DEF Orchestrator!Init
  <2> QED
    BY <1>1, <2>1, <2>2, <2>3 DEF Orchestrator!TypeOK, Call
<1>3. CallsShaped
  BY <1>1, IdleCall DEF CallsShaped
<1>4. Calm
  BY <1>1, IdleCall
     DEF Orchestrator!Init, Calm, Served, Built, Apart, Orchestrator!Creating, Orchestrator!Busy
<1> QED
  BY <1>2, <1>3, <1>4 DEF OrchInv

\* What a step makes of a call.
Moved(k, pc, ran, seen) == [k EXCEPT !.pc = pc, !.ran = ran, !.seen = seen]

LEMMA MovedCall ==
    ASSUME NEW k \in Call, NEW pc \in Orchestrator!PCs, NEW ran \in 0 .. 2, NEW seen \in BOOLEAN
    PROVE  LET n == Moved(k, pc, ran, seen) IN
           /\ n \in Call /\ n.pc = pc /\ n.ran = ran /\ n.seen = seen
           /\ n.session = k.session /\ n.op = k.op /\ n.state = k.state
BY DEF Call, Moved

LEMMA GotoMoves ==
    ASSUME calls \in [Turns -> Call], NEW c \in Turns, NEW pc
    PROVE  [calls EXCEPT ![c].pc = pc]
              = [calls EXCEPT ![c] = Moved(calls[c], pc, calls[c].ran, calls[c].seen)]
BY DEF Call, Moved

\* One call moves and the others stay as they are.
LEMMA OneMoves ==
    ASSUME Orchestrator!TypeOK, CallsShaped, NEW c \in Turns, NEW k \in Call,
           Shaped(k), k.pc = "destroy" => disturbed',
           calls' = [calls EXCEPT ![c] = k], disturbed => disturbed'
    PROVE  CallsShaped' /\ calls' \in [Turns -> Call]
BY DEF Orchestrator!TypeOK, CallsShaped, Call

\* A step of a call on its way through a message, which works on no session's making or
\* unmaking, leaves the registry and the sandbox in agreement.
LEMMA QuietStep ==
    ASSUME Calm, NEW c \in Turns, NEW k \in Call, calls \in [Turns -> Call],
           calls' = [calls EXCEPT ![c] = k],
           calls[c].pc \notin {"ensure", "post", "upload", "download", "remove", "unregister"},
           k.pc \notin {"post", "upload", "download", "remove", "unregister"},
           k.pc = "ensure" => k.session \notin Sessions,
           UNCHANGED <<registry, Orchestrator!sandbox>>, registry \subseteq Sessions
    PROVE  Calm'
<1>1. /\ calls'[c] = k
      /\ \A d \in Turns \ {c} : calls'[d] = calls[d]
  OBVIOUS
<1>2. ASSUME NEW s \in Sessions
      PROVE  /\ Orchestrator!Deleting(s)' <=> Orchestrator!Deleting(s)
             /\ Orchestrator!Creating(s)' <=> Orchestrator!Creating(s)
  BY <1>1 DEF Orchestrator!Deleting, Orchestrator!Creating, Orchestrator!Busy
<1>3. Served'
  BY <1>2 DEF Calm, Served, Orchestrator!sandbox
<1>4. Built'
  BY <1>1 DEF Calm, Built, Orchestrator!sandbox
<1>5. Apart'
  BY <1>2 DEF Calm, Apart
<1> QED
  BY <1>3, <1>4, <1>5 DEF Calm

\* The steps of sendMessage once its session is there.
Messaging(c) ==
    \/ Orchestrator!Registered(c) \/ Orchestrator!Touch(c) \/ Orchestrator!Stream(c)
    \/ Orchestrator!FetchFails(c) \/ Orchestrator!Refresh(c) \/ Orchestrator!EventsEnd(c)
    \/ Orchestrator!Abort(c) \/ Orchestrator!TouchAgain(c) \/ Orchestrator!TouchFails(c)

LEMMA MessagingStep ==
    ASSUME OrchInv, NEW c \in Turns, Messaging(c)
    PROVE  OrchInv'
<1> USE DEF OrchInv
<1> DEFINE k == calls[c]
<1>1. /\ calls \in [Turns -> Call] /\ k \in Call /\ Shaped(k)
  BY DEF Orchestrator!TypeOK, CallsShaped, Call
<1>2. /\ UNCHANGED <<registry, Orchestrator!sandbox, disturbed>>
      /\ faults' \in 0 .. MaxFaults
      /\ k.pc \in {"registered", "touch", "stream", "refresh", "retry", "events", "touchAgain"}
  BY HostAssumption
     DEF Messaging, Orchestrator!Registered, Orchestrator!Touch, Orchestrator!Stream,
         Orchestrator!FetchFails, Orchestrator!Refresh, Orchestrator!EventsEnd,
         Orchestrator!Abort, Orchestrator!TouchAgain, Orchestrator!TouchFails,
         Orchestrator!Works, Orchestrator!Fault,
         Orchestrator!Strikes, Orchestrator!At, Orchestrator!TypeOK
<1>3. PICK n \in Call :
         /\ calls' = [calls EXCEPT ![c] = n] /\ Shaped(n)
         /\ n.pc \in {"touch", "stream", "refresh", "retry", "events", "touchAgain", "idle"}
  <2>1. CASE calls' = [calls EXCEPT ![c] = Orchestrator!Idle]
    BY <2>1, IdleCall
  <2>2. ASSUME NEW pc \in {"touch", "stream", "refresh", "retry", "events", "touchAgain"},
               calls' = [calls EXCEPT ![c].pc = pc],
               pc \in {"touch", "stream"} => k.ran = 0 /\ k.session \in Sessions,
               pc \in {"refresh", "retry"} => k.ran <= 1 /\ k.session \in Sessions,
               k.seen => pc \in {"events", "touchAgain"}
        PROVE  \E n \in Call :
                  /\ calls' = [calls EXCEPT ![c] = n] /\ Shaped(n) /\ n.pc = pc
    <3> DEFINE n == Moved(k, pc, k.ran, k.seen)
    <3>1. calls' = [calls EXCEPT ![c] = n]
      BY <1>1, <2>2, GotoMoves
    <3>2. pc \in Orchestrator!PCs /\ k.ran \in 0 .. 2 /\ k.seen \in BOOLEAN
      BY <1>1 DEF Orchestrator!PCs, Call
    <3>3. n \in Call /\ n.pc = pc /\ n.session = k.session /\ n.ran = k.ran /\ n.seen = k.seen
      BY <1>1, <3>2, MovedCall
    <3> HIDE DEF n
    <3>4. Shaped(n)
      BY <2>2, <3>3 DEF Shaped
    <3> QED
      BY <3>1, <3>3, <3>4
  <2>3. CASE Orchestrator!Registered(c) \/ Orchestrator!Touch(c)
    BY <1>1, <2>1, <2>2, <2>3
       DEF Orchestrator!Registered, Orchestrator!Touch, Orchestrator!Goto, Orchestrator!Finish,
           Orchestrator!At, Shaped
  <2>4. CASE Orchestrator!Stream(c)
    <3>1. CASE calls' = [calls EXCEPT ![c].pc = "touchAgain"]
      BY <2>2, <3>1
    <3>2. CASE calls' = [calls EXCEPT ![c].pc = "events", ![c].ran = @ + 1, ![c].seen = TRUE]
      <4> DEFINE n == Moved(k, "events", k.ran + 1, TRUE)
      <4>1. k.ran + 1 \in 0 .. 2 /\ "events" \in Orchestrator!PCs
        BY <1>1, <2>4 DEF Orchestrator!Stream, Orchestrator!PCs, Shaped, Call
      <4>2. calls' = [calls EXCEPT ![c] = n]
        BY <1>1, <3>2 DEF Call, Moved
      <4>3. n \in Call /\ n.pc = "events"
        BY <1>1, <4>1, MovedCall
      <4> HIDE DEF n
      <4> QED
        BY <4>2, <4>3 DEF Shaped
    <3> QED
      BY <2>4, <3>1, <3>2 DEF Orchestrator!Stream, Orchestrator!Goto
  <2>5. CASE Orchestrator!FetchFails(c)
    <3>1. PICK next \in {"refresh", "touchAgain"} :
             /\ next = IF k.pc = "stream" THEN "refresh" ELSE "touchAgain"
             /\ k.pc \in {"stream", "retry"}
             /\ \/ calls' = [calls EXCEPT ![c].pc = next]
                \/ calls' = [calls EXCEPT ![c].pc = next, ![c].ran = @ + 1]
      BY <2>5 DEF Orchestrator!FetchFails, Orchestrator!Goto, Orchestrator!At
    <3>4. /\ k.ran \in 0 .. 1 /\ (next = "refresh" => k.ran = 0)
          /\ k.session \in Sessions /\ ~k.seen
      BY <1>1, <3>1 DEF Shaped, Call
    <3>2. CASE calls' = [calls EXCEPT ![c].pc = next]
      <4>1. k.ran <= 1
        BY <3>4
      <4>2. CASE next = "refresh"
        BY <2>2, <3>2, <3>4, <4>1, <4>2
      <4>3. CASE next = "touchAgain"
        BY <2>2, <3>2, <4>3
      <4> QED
        BY <3>1, <4>2, <4>3
    <3>3. CASE calls' = [calls EXCEPT ![c].pc = next, ![c].ran = @ + 1]
      <4> DEFINE n == Moved(k, next, k.ran + 1, k.seen)
      <4>1. calls' = [calls EXCEPT ![c] = n]
        BY <1>1, <3>3 DEF Call, Moved
      <4>2. next \in Orchestrator!PCs /\ k.ran + 1 \in 0 .. 2 /\ k.seen \in BOOLEAN
        BY <1>1, <3>1, <3>4 DEF Call, Orchestrator!PCs
      <4>3. /\ n \in Call /\ n.pc = next /\ n.session = k.session
            /\ n.ran = k.ran + 1 /\ n.seen = k.seen
        BY <1>1, <4>2, MovedCall
      <4> HIDE DEF n
      <4>4. Shaped(n)
        BY <3>1, <3>4, <4>3 DEF Shaped
      <4> QED
        BY <3>1, <4>1, <4>3, <4>4
    <3> QED
      BY <3>1, <3>2, <3>3
  <2>6. CASE Orchestrator!Refresh(c) \/ Orchestrator!EventsEnd(c)
    BY <1>1, <2>2, <2>6
       DEF Orchestrator!Refresh, Orchestrator!EventsEnd, Orchestrator!Goto, Orchestrator!At,
           Shaped
  <2>7. CASE Orchestrator!Abort(c) \/ Orchestrator!TouchAgain(c) \/ Orchestrator!TouchFails(c)
    BY <1>1, <2>1, <2>2, <2>7
       DEF Orchestrator!Abort, Orchestrator!TouchAgain, Orchestrator!TouchFails,
           Orchestrator!Goto, Orchestrator!Finish
  <2> QED
    BY <2>3, <2>4, <2>5, <2>6, <2>7 DEF Messaging
<1>4. CallsShaped' /\ calls' \in [Turns -> Call]
  BY <1>2, <1>3, OneMoves
<1>5. Orchestrator!TypeOK'
  BY <1>2, <1>4 DEF Orchestrator!TypeOK, Orchestrator!sandbox, Call
<1>6. ~disturbed' => Calm'
  BY <1>1, <1>2, <1>3, QuietStep DEF Orchestrator!TypeOK
<1> QED
  BY <1>4, <1>5, <1>6

\* The record a call starts with.
LEMMA StartMoves ==
    ASSUME NEW c \in Turns, NEW op \in Orchestrator!AllOps, NEW s \in Sessions \cup {None},
           NEW pc \in Orchestrator!PCs, Orchestrator!Start(c, op, s, pc)
    PROVE  \E n \in Call : /\ calls' = [calls EXCEPT ![c] = n]
                           /\ n.pc = pc /\ n.op = op /\ n.session = s
                           /\ n.ran = 0 /\ ~n.seen
<1> DEFINE k == Orchestrator!Idle
           n == [k EXCEPT !.pc = pc, !.op = op, !.session = s]
<1>1. n \in Call /\ n.pc = pc /\ n.op = op /\ n.session = s /\ n.ran = 0 /\ ~n.seen
  <2>1. k \in Call /\ k.ran = 0 /\ k.seen = FALSE
    BY IdleCall DEF Orchestrator!Idle
  <2> HIDE DEF k
  <2> QED
    BY <2>1 DEF Call
<1>2. calls' = [calls EXCEPT ![c] = n]
  BY DEF Orchestrator!Start
<1> QED
  BY <1>1, <1>2

\* A call begins.  Creating a session that is being deleted, deleting one that is being
\* created and destroying the sandbox are what disturbs the rest.
LEMMA OrchStarts ==
    ASSUME OrchInv, NEW c \in Turns,
           \/ Orchestrator!FileOp(c) \/ Orchestrator!DestroyUserSandbox(c)
           \/ \E s \in Sessions : Orchestrator!Begin(c, s) \/ Orchestrator!DeleteSession(c, s)
    PROVE  OrchInv'
<1> USE DEF OrchInv
<1>1. /\ calls \in [Turns -> Call] /\ registry \subseteq Sessions
      /\ calls[c].pc = "idle" /\ UNCHANGED <<Orchestrator!sandbox, faults>>
  BY DEF Orchestrator!TypeOK, Call, Orchestrator!FileOp, Orchestrator!DestroyUserSandbox,
         Orchestrator!Begin, Orchestrator!DeleteSession, Orchestrator!Start, Orchestrator!At
<1>2. ASSUME NEW op \in Orchestrator!AllOps, NEW s \in Sessions \cup {None},
             NEW pc \in {"ensure", "touch", "download", "destroy"},
             Orchestrator!Start(c, op, s, pc),
             registry' \subseteq Sessions, disturbed' \in BOOLEAN, disturbed => disturbed',
             pc = "ensure" => op = "file" \/ s \in Sessions,
             pc \in {"touch", "download"} => s \in Sessions,
             pc = "download" => op = "delete",
             pc = "destroy" => disturbed'
      PROVE  \E n \in Call : /\ Orchestrator!TypeOK' /\ CallsShaped'
                             /\ calls' = [calls EXCEPT ![c] = n]
                             /\ n.pc = pc /\ n.op = op /\ n.session = s
  <2>1. pc \in Orchestrator!PCs
    BY DEF Orchestrator!PCs
  <2>2. PICK n \in Call : /\ calls' = [calls EXCEPT ![c] = n]
                          /\ n.pc = pc /\ n.op = op /\ n.session = s
                          /\ n.ran = 0 /\ ~n.seen
    BY <1>2, <2>1, StartMoves
  <2>3. Shaped(n)
    BY <1>2, <2>2 DEF Shaped
  <2>4. CallsShaped' /\ calls' \in [Turns -> Call]
    BY <1>2, <2>2, <2>3, OneMoves
  <2> QED
    BY <1>1, <1>2, <2>2, <2>4 DEF Orchestrator!TypeOK, Orchestrator!sandbox, Call
<1>3. CASE Orchestrator!FileOp(c)
  <2>1. "file" \in Orchestrator!AllOps /\ None \notin Sessions
    BY AgentAssumption DEF Orchestrator!AllOps
  <2>2. PICK n \in Call : /\ Orchestrator!TypeOK' /\ CallsShaped'
                          /\ calls' = [calls EXCEPT ![c] = n]
                          /\ n.pc = "ensure" /\ n.session = None
    BY <1>1, <1>2, <1>3, <2>1 DEF Orchestrator!FileOp, Orchestrator!TypeOK
  <2>3. ~disturbed' => Calm'
    BY <1>1, <1>3, <2>1, <2>2, QuietStep DEF Orchestrator!FileOp
  <2> QED
    BY <2>2, <2>3
<1>4. CASE Orchestrator!DestroyUserSandbox(c)
  <2>1. "destroy" \in Orchestrator!AllOps
    BY DEF Orchestrator!AllOps
  <2> QED
    BY <1>2, <1>4, <2>1 DEF Orchestrator!DestroyUserSandbox
<1>5. ASSUME NEW s \in Sessions, Orchestrator!Begin(c, s)
      PROVE  OrchInv'
  <2>1. "create" \in Orchestrator!AllOps /\ "send" \in Orchestrator!AllOps
    BY DEF Orchestrator!AllOps
  <2>2. PICK op \in Orchestrator!AllOps, pc \in {"ensure", "touch"} :
          Orchestrator!Start(c, op, s, pc) /\ (s \in registry <=> pc = "touch")
    BY <1>5, <2>1 DEF Orchestrator!Begin
  <2>3. /\ registry' = registry
        /\ disturbed' = (disturbed \/ (s \notin registry /\ Orchestrator!Deleting(s)))
    BY <1>5 DEF Orchestrator!Begin
  <2>4. disturbed' \in BOOLEAN /\ (disturbed => disturbed') /\ registry' \subseteq Sessions
    BY <1>1, <2>3 DEF Orchestrator!TypeOK
  <2>5. PICK n \in Call : /\ Orchestrator!TypeOK' /\ CallsShaped'
                          /\ calls' = [calls EXCEPT ![c] = n]
                          /\ n.pc = pc /\ n.session = s
    <3>1. pc # "download" /\ pc # "destroy" /\ s \in Sessions \cup {None}
      OBVIOUS
    <3>2. pc \in {"ensure", "touch", "download", "destroy"}
      OBVIOUS
    <3> HIDE DEF OrchInv
    <3> QED
      BY <1>2, <2>2, <2>4, <3>1, <3>2
  <2>6. ASSUME ~disturbed'
        PROVE  Calm'
    <3>1. Calm /\ ~disturbed
      BY <2>3, <2>6
    <3>2. CASE pc = "touch"
      BY <1>1, <2>3, <2>5, <3>1, <3>2, QuietStep
    <3>3. CASE pc = "ensure"
      <4>1. ~Orchestrator!Deleting(s)
        BY <2>2, <2>3, <2>6, <3>3
      <4>2. \A r \in Sessions : Orchestrator!Deleting(r)' <=> Orchestrator!Deleting(r)
        BY <1>1, <2>5, <3>3 DEF Orchestrator!Deleting, Orchestrator!Busy
      <4>3. \A r \in Sessions \ {s} : Orchestrator!Creating(r)' <=> Orchestrator!Creating(r)
        BY <1>1, <2>5, <3>3 DEF Orchestrator!Creating, Orchestrator!Busy
      <4>4. Apart'
        BY <3>1, <4>1, <4>2, <4>3 DEF Calm, Apart
      <4>5. Served'
        BY <1>1, <2>3, <3>1, <4>2 DEF Calm, Served, Orchestrator!sandbox
      <4>6. Built'
        BY <1>1, <2>5, <3>1, <3>3 DEF Calm, Built, Orchestrator!sandbox
      <4> QED
        BY <4>4, <4>5, <4>6 DEF Calm
    <3> QED
      BY <3>2, <3>3
  <2> QED
    BY <2>5, <2>6
<1>6. ASSUME NEW s \in Sessions, Orchestrator!DeleteSession(c, s)
      PROVE  OrchInv'
  <2>1. "delete" \in Orchestrator!AllOps
    BY DEF Orchestrator!AllOps
  <2>2. /\ Orchestrator!Start(c, "delete", s, "download")
        /\ registry' = registry /\ disturbed' = (disturbed \/ Orchestrator!Creating(s))
    BY <1>6 DEF Orchestrator!DeleteSession
  <2>3. disturbed' \in BOOLEAN /\ (disturbed => disturbed') /\ registry' \subseteq Sessions
    BY <1>1, <2>2 DEF Orchestrator!TypeOK
  <2>4. PICK n \in Call : /\ Orchestrator!TypeOK' /\ CallsShaped'
                          /\ calls' = [calls EXCEPT ![c] = n]
                          /\ n.pc = "download" /\ n.session = s
    <3> HIDE DEF OrchInv
    <3> QED
      BY <1>2, <2>1, <2>2, <2>3
  <2>5. ASSUME ~disturbed'
        PROVE  Calm'
    <3>1. Calm /\ ~Orchestrator!Creating(s)
      BY <2>2, <2>5
    <3>2. \A r \in Sessions : Orchestrator!Creating(r)' <=> Orchestrator!Creating(r)
      BY <1>1, <2>4 DEF Orchestrator!Creating, Orchestrator!Busy
    <3>3. \A r \in Sessions : IF r = s THEN Orchestrator!Deleting(r)'
                              ELSE Orchestrator!Deleting(r)' <=> Orchestrator!Deleting(r)
      BY <1>1, <2>4 DEF Orchestrator!Deleting, Orchestrator!Busy
    <3>4. Apart'
      BY <3>1, <3>2, <3>3 DEF Calm, Apart
    <3>5. Served'
      BY <1>1, <2>2, <3>1, <3>3 DEF Calm, Served, Orchestrator!sandbox
    <3>6. Built'
      BY <1>1, <2>4, <3>1 DEF Calm, Built, Orchestrator!sandbox
    <3> QED
      BY <3>4, <3>5, <3>6 DEF Calm
  <2> QED
    BY <2>4, <2>5
<1> QED
  BY <1>3, <1>4, <1>5, <1>6

\* A call that moves to pc, everything else of its record being kept.
LEMMA GotoStep ==
    ASSUME calls \in [Turns -> Call], NEW c \in Turns, NEW pc \in Orchestrator!PCs,
           Orchestrator!Goto(c, pc)
    PROVE  \E n \in Call : /\ calls' = [calls EXCEPT ![c] = n]
                           /\ n.pc = pc /\ n.session = calls[c].session /\ n.op = calls[c].op
                           /\ n.ran = calls[c].ran /\ n.seen = calls[c].seen
                           /\ n.state = calls[c].state
<1> DEFINE n == Moved(calls[c], pc, calls[c].ran, calls[c].seen)
<1>1. calls[c].ran \in 0 .. 2 /\ calls[c].seen \in BOOLEAN /\ calls[c] \in Call
  BY DEF Call
<1>2. calls' = [calls EXCEPT ![c] = n]
  BY GotoMoves DEF Orchestrator!Goto
<1>3. /\ n \in Call /\ n.pc = pc /\ n.ran = calls[c].ran /\ n.seen = calls[c].seen
      /\ n.session = calls[c].session /\ n.op = calls[c].op /\ n.state = calls[c].state
  BY <1>1, MovedCall
<1> HIDE DEF n
<1> QED
  BY <1>2, <1>3

LEMMA OrchEnsure ==
    ASSUME OrchInv, NEW c \in Turns, Orchestrator!Ensure(c)
    PROVE  OrchInv'
<1> DEFINE k == calls[c]
<1>1. /\ calls \in [Turns -> Call] /\ k \in Call /\ Shaped(k) /\ k.pc = "ensure"
      /\ cached \in 0 .. MaxStates /\ states \in 0 .. MaxStates
      /\ UNCHANGED <<registry, faults, disturbed>>
  BY DEF OrchInv, Orchestrator!TypeOK, CallsShaped, Call, Orchestrator!Ensure, Orchestrator!At,
         Orchestrator!Works
<1>2. \/ cached # 0 /\ UNCHANGED Orchestrator!sandbox
      \/ /\ cached = 0 /\ states' = states + 1 /\ states < MaxStates /\ cached' = states'
         /\ tracked' = {} /\ box' \in {box, Orchestrator!Empty}
  BY DEF Orchestrator!Ensure
<1>3. /\ cached' \in 0 .. MaxStates /\ states' \in 0 .. MaxStates /\ cached' # 0
      /\ tracked' \subseteq Sessions /\ box' \in [Sessions -> Nat]
      /\ cached # 0 => UNCHANGED Orchestrator!sandbox
  BY <1>1, <1>2, HostAssumption
     DEF OrchInv, Orchestrator!TypeOK, Orchestrator!sandbox, Orchestrator!Empty
<1>4. PICK n \in Call :
         /\ calls' = [calls EXCEPT ![c] = n] /\ Shaped(n)
         /\ \/ n.pc = "idle"
            \/ n.pc = "post" /\ n.session = k.session /\ n.state = cached'
  <2>1. CASE calls' = [calls EXCEPT ![c] = Orchestrator!Idle]
    BY <2>1, IdleCall
  <2>2. CASE k.op # "file" /\ calls' = [calls EXCEPT ![c].pc = "post", ![c].state = cached']
    <3> DEFINE n == [k EXCEPT !.pc = "post", !.state = cached']
    <3>1. calls' = [calls EXCEPT ![c] = n]
      BY <1>1, <2>2 DEF Call
    <3>2. "post" \in Orchestrator!PCs
      BY DEF Orchestrator!PCs
    <3>3. /\ n \in Call /\ n.pc = "post" /\ n.session = k.session /\ n.state = cached'
          /\ n.ran = k.ran /\ n.seen = k.seen
      BY <1>1, <1>3, <3>2 DEF Call
    <3> HIDE DEF n
    <3>4. Shaped(n)
      BY <1>1, <2>2, <3>3 DEF Shaped
    <3> QED
      BY <3>1, <3>3, <3>4
  <2> QED
    BY <2>1, <2>2 DEF Orchestrator!Ensure, Orchestrator!Finish
<1>5. CallsShaped' /\ calls' \in [Turns -> Call]
  BY <1>1, <1>4, OneMoves DEF OrchInv
<1>6. Orchestrator!TypeOK'
  BY <1>1, <1>3, <1>5 DEF OrchInv, Orchestrator!TypeOK, Call
<1>7. ASSUME ~disturbed'
      PROVE  Calm'
  <2>1. Calm
    BY <1>1, <1>7 DEF OrchInv
  <2>2. calls'[c] = n /\ \A d \in Turns \ {c} : calls'[d] = calls[d]
    BY <1>1, <1>4
  <2>3. \A s \in Sessions : /\ Orchestrator!Deleting(s)' <=> Orchestrator!Deleting(s)
                            /\ Orchestrator!Creating(s)' => Orchestrator!Creating(s)
    BY <1>1, <1>4, <2>2 DEF Orchestrator!Deleting, Orchestrator!Creating, Orchestrator!Busy
  <2>4. Apart'
    BY <2>1, <2>3 DEF Calm, Apart
  <2>5. Served'
    BY <1>1, <1>3, <2>1, <2>3 DEF Calm, Served, OrchInv, Orchestrator!TypeOK, Orchestrator!sandbox
  <2>6. Built'
    BY <1>1, <1>3, <1>4, <2>1, <2>2 DEF Calm, Built, Orchestrator!sandbox
  <2> QED
    BY <2>4, <2>5, <2>6 DEF Calm
<1> QED
  BY <1>5, <1>6, <1>7 DEF OrchInv

\* POST /sessions, answered or not, and whatever else ends a creation.
LEMMA OrchPosts ==
    ASSUME OrchInv, NEW c \in Turns, Orchestrator!Post(c) \/ Orchestrator!CreateThrows(c)
    PROVE  OrchInv'
<1> DEFINE k == calls[c]
<1>1. /\ calls \in [Turns -> Call] /\ k \in Call /\ Shaped(k) /\ k.pc \in {"ensure", "post"}
      /\ box \in [Sessions -> Nat]
      /\ UNCHANGED <<registry, cached, tracked, states, disturbed>>
      /\ faults' \in 0 .. MaxFaults
  BY HostAssumption
     DEF OrchInv, Orchestrator!TypeOK, CallsShaped, Call, Orchestrator!Post,
         Orchestrator!CreateThrows, Orchestrator!At, Orchestrator!Works, Orchestrator!Fault,
         Orchestrator!Strikes
<1>2. \/ box' = box
      \/ box' = [box EXCEPT ![k.session] = @ + 1] /\ k.session \in Sessions
  BY <1>1 DEF Orchestrator!Post, Orchestrator!CreateThrows, Orchestrator!At, Shaped
<1>3. box' \in [Sessions -> Nat] /\ \A s \in Sessions : box[s] > 0 => box'[s] > 0
  BY <1>1, <1>2
<1>4. PICK n \in Call :
         /\ calls' = [calls EXCEPT ![c] = n] /\ Shaped(n)
         /\ \/ n.pc = "idle"
            \/ /\ n.pc = "upload" /\ n.session = k.session /\ n.state = k.state
               /\ k.pc = "post" /\ n.session \in Sessions /\ box'[n.session] > 0
  <2>1. CASE Orchestrator!CreateThrows(c)
    BY <2>1, IdleCall DEF Orchestrator!CreateThrows, Orchestrator!Finish
  <2>2. CASE Orchestrator!Post(c)
    <3>1. k.pc = "post" /\ "upload" \in Orchestrator!PCs /\ Orchestrator!Goto(c, "upload")
          /\ k.session \in Sessions /\ box' = [box EXCEPT ![k.session] = @ + 1]
      BY <1>1, <2>2 DEF Orchestrator!Post, Orchestrator!At, Orchestrator!PCs, Shaped
    <3>2. box'[k.session] > 0
      BY <1>1, <3>1
    <3>3. PICK n \in Call : /\ calls' = [calls EXCEPT ![c] = n]
                            /\ n.pc = "upload" /\ n.session = k.session
                            /\ n.ran = k.ran /\ n.seen = k.seen /\ n.state = k.state
      BY <1>1, <3>1, GotoStep
    <3>4. Shaped(n)
      BY <1>1, <3>1, <3>3 DEF Shaped
    <3> QED
      BY <3>1, <3>2, <3>3, <3>4
  <2> QED
    BY <2>1, <2>2
<1>5. CallsShaped' /\ calls' \in [Turns -> Call]
  BY <1>1, <1>4, OneMoves DEF OrchInv
<1>6. Orchestrator!TypeOK'
  BY <1>1, <1>3, <1>5 DEF OrchInv, Orchestrator!TypeOK, Call
<1>7. ASSUME ~disturbed'
      PROVE  Calm'
  <2>1. Calm
    BY <1>1, <1>7 DEF OrchInv
  <2>2. calls'[c] = n /\ \A d \in Turns \ {c} : calls'[d] = calls[d]
    BY <1>1, <1>4
  <2>3. \A s \in Sessions : /\ Orchestrator!Deleting(s)' <=> Orchestrator!Deleting(s)
                            /\ Orchestrator!Creating(s)' => Orchestrator!Creating(s)
    BY <1>1, <1>4, <2>2 DEF Orchestrator!Deleting, Orchestrator!Creating, Orchestrator!Busy
  <2>4. Apart'
    BY <2>1, <2>3 DEF Calm, Apart
  <2>5. Served'
    BY <1>1, <1>3, <2>1, <2>3 DEF Calm, Served, OrchInv, Orchestrator!TypeOK
  <2>6. \A d \in Turns : calls[d].pc = "upload" => calls[d].session \in Sessions
    BY DEF OrchInv, CallsShaped, Shaped
  <2>7. Built'
    BY <1>1, <1>3, <1>4, <2>1, <2>2, <2>6 DEF Calm, Built
  <2> QED
    BY <2>4, <2>5, <2>7 DEF Calm
<1> QED
  BY <1>5, <1>6, <1>7 DEF OrchInv

\* The session is registered in the sandbox that hosts it: nobody has replaced that.
LEMMA OrchRegister ==
    ASSUME OrchInv, NEW c \in Turns, Orchestrator!Register(c)
    PROVE  OrchInv'
<1> DEFINE k == calls[c]
           s == k.session
<1>1. /\ calls \in [Turns -> Call] /\ k \in Call /\ Shaped(k) /\ k.pc = "upload"
      /\ s \in Sessions
      /\ UNCHANGED <<cached, box, states, disturbed, faults>>
      /\ registry' = registry \cup {s}
      /\ tracked' = IF k.state = cached THEN tracked \cup {s} ELSE tracked
  BY DEF OrchInv, Orchestrator!TypeOK, CallsShaped, Shaped, Call, Orchestrator!Register,
         Orchestrator!At, Orchestrator!Works
<1>2. "registered" \in Orchestrator!PCs /\ Orchestrator!Goto(c, "registered")
  BY DEF Orchestrator!Register, Orchestrator!PCs
<1>3. PICK n \in Call : /\ calls' = [calls EXCEPT ![c] = n]
                        /\ n.pc = "registered" /\ n.session = s
                        /\ n.ran = k.ran /\ n.seen = k.seen
  BY <1>1, <1>2, GotoStep
<1>4. Shaped(n)
  BY <1>1, <1>3 DEF Shaped
<1>5. CallsShaped' /\ calls' \in [Turns -> Call]
  BY <1>1, <1>3, <1>4, OneMoves DEF OrchInv
<1>6. Orchestrator!TypeOK'
  BY <1>1, <1>5 DEF OrchInv, Orchestrator!TypeOK, Call
<1>7. ASSUME ~disturbed'
      PROVE  Calm'
  <2>1. Calm
    BY <1>1, <1>7 DEF OrchInv
  <2>2. calls'[c] = n /\ \A d \in Turns \ {c} : calls'[d] = calls[d]
    BY <1>1, <1>3
  <2>3. \A r \in Sessions : /\ Orchestrator!Deleting(r)' <=> Orchestrator!Deleting(r)
                            /\ Orchestrator!Creating(r)' => Orchestrator!Creating(r)
    BY <1>1, <1>3, <2>2 DEF Orchestrator!Deleting, Orchestrator!Creating, Orchestrator!Busy
  <2>4. Apart'
    BY <2>1, <2>3 DEF Calm, Apart
  <2>5. cached # 0 /\ k.state = cached /\ box[s] > 0
    BY <1>1, <2>1 DEF Calm, Built
  <2>6. Served'
    BY <1>1, <2>1, <2>3, <2>5 DEF Calm, Served, OrchInv, Orchestrator!TypeOK
  <2>7. Built'
    BY <1>1, <1>3, <2>1, <2>2 DEF Calm, Built
  <2> QED
    BY <2>4, <2>6, <2>7 DEF Calm
<1> QED
  BY <1>5, <1>6, <1>7 DEF OrchInv

\* Deleting a session touches nothing of the other sessions.
LEMMA OrchDeletes ==
    ASSUME OrchInv, NEW c \in Turns,
           Orchestrator!Download(c) \/ Orchestrator!Remove(c) \/ Orchestrator!Unregister(c)
    PROVE  OrchInv'
<1> DEFINE k == calls[c]
           s == k.session
<1>1. /\ calls \in [Turns -> Call] /\ k \in Call /\ Shaped(k)
      /\ k.pc \in {"download", "remove", "unregister"} /\ s \in Sessions
      /\ box \in [Sessions -> Nat] /\ registry \subseteq Sessions
      /\ UNCHANGED <<cached, states, disturbed>>
      /\ faults' \in 0 .. MaxFaults
  BY HostAssumption
     DEF OrchInv, Orchestrator!TypeOK, CallsShaped, Shaped, Call, Orchestrator!Download,
         Orchestrator!Remove, Orchestrator!Unregister, Orchestrator!At, Orchestrator!Works,
         Orchestrator!Fault, Orchestrator!Strikes, Orchestrator!sandbox
<1>2. box' = box \/ (box' = [box EXCEPT ![s] = 0])
  BY DEF Orchestrator!Download, Orchestrator!Remove, Orchestrator!Unregister,
         Orchestrator!sandbox
<1>3. box' \in [Sessions -> Nat] /\ \A r \in Sessions \ {s} : box'[r] = box[r]
  BY <1>1, <1>2
<1>4. PICK n \in Call :
         /\ calls' = [calls EXCEPT ![c] = n] /\ Shaped(n)
         /\ \/ n.pc = "idle" /\ registry' = registry \ {s} /\ tracked' = tracked \ {s}
            \/ /\ n.pc \in {"remove", "unregister"} /\ n.session = s
               /\ UNCHANGED <<registry, tracked>>
  <2>1. CASE Orchestrator!Unregister(c)
    BY <2>1, IdleCall DEF Orchestrator!Unregister, Orchestrator!Finish
  <2>2. ASSUME NEW pc \in {"remove", "unregister"}, Orchestrator!Goto(c, pc),
               UNCHANGED <<registry, tracked>>
        PROVE  \E n \in Call : /\ calls' = [calls EXCEPT ![c] = n] /\ Shaped(n)
                               /\ n.pc = pc /\ n.session = s
    <3>1. pc \in Orchestrator!PCs
      BY DEF Orchestrator!PCs
    <3>2. PICK n \in Call : /\ calls' = [calls EXCEPT ![c] = n]
                            /\ n.pc = pc /\ n.session = s /\ n.op = k.op
                            /\ n.ran = k.ran /\ n.seen = k.seen
      BY <1>1, <2>2, <3>1, GotoStep
    <3>3. Shaped(n)
      BY <1>1, <3>2 DEF Shaped
    <3> QED
      BY <3>2, <3>3
  <2>3. CASE Orchestrator!Download(c) \/ Orchestrator!Remove(c)
    BY <2>2, <2>3 DEF Orchestrator!Download, Orchestrator!Remove, Orchestrator!sandbox
  <2> QED
    BY <2>1, <2>3
<1>5. CallsShaped' /\ calls' \in [Turns -> Call]
  BY <1>1, <1>4, OneMoves DEF OrchInv
<1>6. Orchestrator!TypeOK'
  BY <1>1, <1>3, <1>4, <1>5 DEF OrchInv, Orchestrator!TypeOK, Call
<1>7. ASSUME ~disturbed'
      PROVE  Calm'
  <2>1. Calm
    BY <1>1, <1>7 DEF OrchInv
  <2>2. calls'[c] = n /\ \A d \in Turns \ {c} : calls'[d] = calls[d]
    BY <1>1, <1>4
  <2>3. \A r \in Sessions : /\ Orchestrator!Deleting(r)' => Orchestrator!Deleting(r)
                            /\ r # s => (Orchestrator!Deleting(r)' <=> Orchestrator!Deleting(r))
                            /\ Orchestrator!Creating(r)' <=> Orchestrator!Creating(r)
    BY <1>1, <1>4, <2>2 DEF Orchestrator!Deleting, Orchestrator!Creating, Orchestrator!Busy
  <2>4. Orchestrator!Deleting(s) /\ ~Orchestrator!Creating(s)
    BY <1>1, <2>1 DEF Orchestrator!Deleting, Orchestrator!Busy, Calm, Apart
  <2>5. s \in registry' => Orchestrator!Deleting(s)'
    BY <1>4, <2>2 DEF Orchestrator!Deleting, Orchestrator!Busy
  <2>6. Apart'
    BY <2>1, <2>3 DEF Calm, Apart
  <2>7. Served'
    BY <1>1, <1>3, <1>4, <2>1, <2>3, <2>5 DEF Calm, Served
  <2>8. \A d \in Turns : calls[d].pc = "upload" => calls[d].session \in Sessions \ {s}
    BY <2>4 DEF OrchInv, CallsShaped, Shaped, Orchestrator!Creating, Orchestrator!Busy
  <2>9. Built'
    BY <1>1, <1>3, <1>4, <2>1, <2>2, <2>8 DEF Calm, Built
  <2> QED
    BY <2>6, <2>7, <2>9 DEF Calm
<1> QED
  BY <1>5, <1>6, <1>7 DEF OrchInv

\* The sandbox goes: destroyed, suspended while nothing is registered, or written off.
LEMMA OrchLoses ==
    ASSUME OrchInv,
           \/ Orchestrator!SuspendIdle \/ Orchestrator!HealthFails
           \/ \E c \in Turns : Orchestrator!Destroyed(c)
    PROVE  OrchInv'
<1>1. CASE Orchestrator!SuspendIdle
  <2>1. /\ \A c \in Turns : calls[c].pc \in {"idle", "events"}
        /\ tracked = {} /\ cached' = 0 /\ tracked' = {} /\ box' = Orchestrator!Empty
        /\ UNCHANGED <<registry, calls, states, faults, disturbed>>
    BY <1>1 DEF Orchestrator!SuspendIdle, Orchestrator!NoSandbox, Orchestrator!Works
  <2>2. Orchestrator!TypeOK' /\ CallsShaped'
    BY <2>1, HostAssumption
       DEF OrchInv, Orchestrator!TypeOK, CallsShaped, Shaped, Orchestrator!Empty
  <2>3. ASSUME ~disturbed'
        PROVE  Calm'
    <3>1. Served
      BY <2>1, <2>3 DEF OrchInv, Calm
    <3>2. \A s \in Sessions : ~Orchestrator!Deleting(s)
      BY <2>1 DEF Orchestrator!Deleting, Orchestrator!Busy
    <3>3. registry = {}
      BY <2>1, <3>1, <3>2 DEF OrchInv, Orchestrator!TypeOK, Served
    <3>4. \A s \in Sessions : ~Orchestrator!Creating(s)'
      BY <2>1 DEF Orchestrator!Creating, Orchestrator!Busy
    <3> QED
      BY <2>1, <3>3, <3>4 DEF Calm, Served, Built, Apart
  <2> QED
    BY <2>2, <2>3 DEF OrchInv
<1>2. CASE Orchestrator!HealthFails
  BY <1>2, HostAssumption
     DEF OrchInv, Orchestrator!TypeOK, CallsShaped, Shaped, Orchestrator!HealthFails,
         Orchestrator!NoSandbox, Orchestrator!Strikes
<1>3. ASSUME NEW c \in Turns, Orchestrator!Destroyed(c)
      PROVE  OrchInv'
  <2>1. /\ disturbed /\ disturbed' /\ UNCHANGED <<registry, states, faults, disturbed>>
        /\ calls' = [calls EXCEPT ![c] = Orchestrator!Idle]
        /\ cached' = 0 /\ tracked' = {} /\ box' = Orchestrator!Empty
    BY <1>3 DEF OrchInv, CallsShaped, Orchestrator!Destroyed, Orchestrator!NoSandbox,
                Orchestrator!Works, Orchestrator!Finish, Orchestrator!At
  <2>2. CallsShaped' /\ calls' \in [Turns -> Call]
    BY <2>1, IdleCall, OneMoves DEF OrchInv
  <2> QED
    BY <2>1, <2>2, HostAssumption DEF OrchInv, Orchestrator!TypeOK, Call, Orchestrator!Empty
<1> QED
  BY <1>1, <1>2, <1>3

LEMMA OrchStep == OrchInv /\ [Orchestrator!Next]_orchVars => OrchInv'
<1> SUFFICES ASSUME OrchInv, [Orchestrator!Next]_orchVars
             PROVE  OrchInv'
  OBVIOUS
<1>1. ASSUME NEW c \in Turns, Orchestrator!Step(c)
      PROVE  OrchInv'
  BY <1>1, MessagingStep, OrchEnsure, OrchPosts, OrchRegister, OrchDeletes, OrchLoses
     DEF Orchestrator!Step, Messaging
<1>2. ASSUME NEW c \in Turns,
             \/ Orchestrator!FileOp(c) \/ Orchestrator!DestroyUserSandbox(c)
             \/ \E s \in Sessions : Orchestrator!Begin(c, s) \/ Orchestrator!DeleteSession(c, s)
      PROVE  OrchInv'
  BY <1>2, OrchStarts
<1>3. CASE Orchestrator!SuspendIdle \/ Orchestrator!HealthFails
  BY <1>3, OrchLoses
<1>4. CASE UNCHANGED orchVars
  BY <1>4 DEF orchVars, OrchInv, Orchestrator!TypeOK, CallsShaped, Calm, Served, Built, Apart,
              Orchestrator!Creating, Orchestrator!Deleting, Orchestrator!Busy
<1> QED
  BY <1>1, <1>2, <1>3, <1>4 DEF Orchestrator!Next

LEMMA OrchInvariant == HostSpec => []OrchInv
<1>1. HostInit => OrchInv
  BY OrchInit DEF HostInit
<1>2. OrchInv /\ [HostNext]_hostVars => OrchInv'
  BY OrchStep DEF HostNext, hostVars, orchVars
<1> QED
  BY <1>1, <1>2, PTL DEF HostSpec

\* A registered session that only messages work on has its sandbox, which hosts it and
\* counts it as active (session-manager.ts:253-262), unless a probe failed, the sandbox
\* was destroyed or a deletion crossed a creation.
THEOREM ServedCorrect == HostSpec => []RegisteredServed
<1>1. ASSUME OrchInv, ~disturbed, NEW s \in registry,
             \A c \in Turns : calls[c].session # s \/ calls[c].op = "send"
      PROVE  cached # 0 /\ s \in tracked /\ box[s] > 0
  <2>1. ~Orchestrator!Deleting(s)
    BY <1>1 DEF OrchInv, CallsShaped, Shaped, Orchestrator!Deleting, Orchestrator!Busy
  <2> QED
    BY <1>1, <2>1 DEF OrchInv, Calm, Served
<1>2. OrchInv => RegisteredServed
  BY <1>1 DEF RegisteredServed, Orchestrator!RegisteredServed
<1> QED
  BY <1>2, OrchInvariant, PTL

\* After an event of the turn reached the caller its prompt is not sent again
\* (session-manager.ts:388).
THEOREM NoReplayCorrect == HostSpec => NoReplayAfterEvents
<1> DEFINE NotAgain == \A c \in Turns : calls[c].seen => calls'[c].ran <= calls[c].ran
<1>1. ASSUME OrchInv, [HostNext]_hostVars
      PROVE  [NotAgain]_(Orchestrator!vars)
  <2>1. /\ calls \in [Turns -> Call]
        /\ \A c \in Turns : 0 <= calls[c].ran /\ calls[c].ran <= calls[c].ran
    BY <1>1 DEF OrchInv, Orchestrator!TypeOK, Call
  <2>2. \A c \in Turns : calls[c].seen => calls[c].pc \in {"events", "touchAgain"}
    BY <1>1 DEF OrchInv, CallsShaped, Shaped
  <2>3. ASSUME NEW c \in Turns, NEW k, calls' = [calls EXCEPT ![c] = k],
               calls[c].seen => k.ran <= calls[c].ran
        PROVE  NotAgain
    BY <2>1, <2>3
  <2>4. ASSUME NEW c \in Turns, NEW op, NEW s, NEW pc, Orchestrator!Start(c, op, s, pc)
        PROVE  NotAgain
    BY <2>2, <2>3, <2>4 DEF Orchestrator!Start, Orchestrator!At
  <2>5. ASSUME NEW c \in Turns, NEW pc, Orchestrator!Goto(c, pc)
        PROVE  NotAgain
    <3>1. calls' = [calls EXCEPT ![c] = Moved(calls[c], pc, calls[c].ran, calls[c].seen)]
      BY <2>1, <2>5, GotoMoves DEF Orchestrator!Goto
    <3>2. Moved(calls[c], pc, calls[c].ran, calls[c].seen).ran = calls[c].ran
      BY <2>1 DEF Moved, Call
    <3> QED
      BY <2>1, <2>3, <3>1, <3>2
  <2>6. ASSUME NEW c \in Turns, Orchestrator!Finish(c)
        PROVE  NotAgain
    BY <2>1, <2>3, <2>6 DEF Orchestrator!Finish, Orchestrator!Idle
  <2>7. ASSUME NEW c \in Turns, calls[c].pc \in {"ensure", "stream", "retry"},
               \A d \in Turns \ {c} : calls'[d] = calls[d]
        PROVE  NotAgain
    BY <2>1, <2>2, <2>7
  <2>8. CASE UNCHANGED calls
    BY <2>1, <2>8
  <2>9. ASSUME NEW c \in Turns, Orchestrator!Step(c)
        PROVE  NotAgain
    <3>1. CASE Orchestrator!Ensure(c) \/ Orchestrator!Stream(c) \/ Orchestrator!FetchFails(c)
      <4>1. /\ calls[c].pc \in {"ensure", "stream", "retry"}
            /\ \A d \in Turns \ {c} : calls'[d] = calls[d]
        BY <2>1, <3>1
           DEF Orchestrator!Ensure, Orchestrator!Stream, Orchestrator!FetchFails,
               Orchestrator!At, Orchestrator!Goto, Orchestrator!Finish
      <4> QED
        BY <2>7, <4>1
    <3>2. CASE \E pc : Orchestrator!Goto(c, pc)
      BY <2>5, <3>2
    <3>3. CASE Orchestrator!Finish(c)
      BY <2>6, <3>3
    <3> HIDE DEF NotAgain
    <3> QED
      BY <2>9, <3>1, <3>2, <3>3
         DEF Orchestrator!Step, Orchestrator!Post, Orchestrator!CreateThrows,
             Orchestrator!Register, Orchestrator!Registered, Orchestrator!Touch,
             Orchestrator!Refresh, Orchestrator!EventsEnd, Orchestrator!Abort,
             Orchestrator!TouchAgain, Orchestrator!TouchFails, Orchestrator!Download, Orchestrator!Remove,
             Orchestrator!Unregister, Orchestrator!Destroyed
  <2>10. [Orchestrator!Next]_orchVars
    BY <1>1 DEF HostNext, hostVars, orchVars
  <2> HIDE DEF NotAgain
  <2> QED
    BY <2>4, <2>8, <2>9, <2>10
       DEF Orchestrator!Next, Orchestrator!FileOp, Orchestrator!DestroyUserSandbox,
           Orchestrator!Begin, Orchestrator!DeleteSession, Orchestrator!SuspendIdle,
           Orchestrator!HealthFails, orchVars
<1> QED
  BY <1>1, OrchInvariant, PTL DEF HostSpec, NoReplayAfterEvents, Orchestrator!NoReplayAfterEvents

-----------------------------------------------------------------------------
\* Every variable of the five programs keeps to its type, whatever the bounds.
THEOREM HostTypeCorrect == HostSpec => []HostTypeOK
<1>1. AgentInv /\ TaskInv /\ HarnessInv /\ MemoryInv /\ OrchInv => HostTypeOK
  BY DEF AgentInv, TaskInv, HarnessInv, HarnessTypeOK, MemoryInv, OrchInv, HostTypeOK
<1> QED
  BY <1>1, AgentInvariant, TaskInvariant, HarnessInvariant, MemoryInvariant, OrchInvariant, PTL
=============================================================================
