----------------------------- MODULE UserFiles -----------------------------
(***************************************************************************)
(* The Files page of the dashboard (apps/web) over the user-files          *)
(* directory of the user's sandbox, which is the only place the files are. *)
(* The page shows one directory out of a cache of React Query, sends its   *)
(* uploads, folders, renames and deletions without waiting for each other, *)
(* and has a listing fetched anew when one of them succeeds.  Directories  *)
(* are the root <<>> and the folders <<name>> in it.  The tree of the side *)
(* bar is one more query, refreshed like the others, and left out.         *)
(***************************************************************************)
EXTENDS Naturals, Sequences, SequencesExt, FiniteSets

CONSTANTS
    Names,    \* of files and folders in the root
    Inner,    \* of files in a folder
    MaxJobs,  \* bound: mutations ever sent
    MaxOdd,   \* bound: failures, changes by the agent, losses of the sandbox,
              \* refetches on focus, listings dropped from the cache
    None

Root    == <<>>
Folders == {<<n>> : n \in Names}
Directories == Folders \cup {Root}
Paths   == Folders \cup {<<n, m>> : n \in Names, m \in Inner}
Ops     == {"upload", "folder", "rename", "delete"}

VARIABLES
    files, folders,  \* what exists under USER_FILES_DIR
    currentPath,     \* the directory shown
    lists,           \* [Directories -> the listing in the query cache, or None]
    fetches,         \* [Directories -> its fetch: "idle", "sent", or "read" with what it got]
    jobs,            \* mutations the sandbox has yet to serve (equal ones are one)
    done,            \* how many it has served and the page does not know of
    sent,            \* mutations sent so far
    odd,             \* events counted by MaxOdd
    astray           \* history: directories whose listing nobody promises to be right

server    == <<files, folders>>
cacheVars == <<lists, fetches>>
jobVars   == <<jobs, done, sent>>
fileVars  == <<server, cacheVars, currentPath, jobVars, odd, astray>>

Listing == [files : SUBSET Paths, folders : SUBSET Folders]
Idle    == [at |-> "idle", got |-> None]
Sent    == [at |-> "sent", got |-> None]
Job     == [op : Ops, path : Paths, to : Paths \cup {None}]

TypeOK ==
    /\ files \subseteq Paths /\ folders \subseteq Folders /\ files \cap folders = {}
    /\ \A p \in files : Len(p) = 2 => Front(p) \in folders
    /\ currentPath \in Directories
    /\ \A d \in Directories :
           /\ lists[d] \in Listing \cup {None}
           /\ fetches[d].at = "read" => fetches[d].got \in Listing
    /\ jobs \subseteq Job /\ sent \in 0 .. MaxJobs /\ done \in 0 .. sent
    /\ odd \in 0 .. MaxOdd /\ astray \subseteq Directories

Exists(p) == p \in files \cup folders

\* GET /user-files/list; a directory that is not there is empty.
List(d) == [files   |-> {p \in files : Front(p) = d},
            folders |-> {p \in folders : Front(p) = d}]

Odd == odd < MaxOdd /\ odd' = odd + 1

Init ==
    /\ files = {} /\ folders \in SUBSET Folders
    /\ currentPath = Root
    /\ lists = [d \in Directories |-> None]
    /\ fetches = [d \in Directories |-> IF d = Root THEN Sent ELSE Idle]
    /\ jobs = {} /\ done = 0 /\ sent = 0 /\ odd = 0 /\ astray = {}

-----------------------------------------------------------------------------
(* The query cache *)

\* A mounted query is fetched, unless a fetch of it is still in flight.
Mounted(d) == [fetches EXCEPT ![d] = IF @.at = "idle" THEN Sent ELSE @]

\* invalidateQueries of files-list: the fetch of the directory shown is started
\* again, except a first one; fetches of the others go on.
Invalidated ==
    [fetches EXCEPT ![currentPath] = IF lists[currentPath] # None THEN Sent
                                     ELSE IF @.at = "idle" THEN Sent ELSE @]

Navigate(d) ==
    /\ d # currentPath
    /\ d = Root \/ (lists[Root] # None /\ d \in lists[Root].folders)
    /\ currentPath' = d /\ fetches' = Mounted(d)
    /\ UNCHANGED <<server, lists, jobVars, odd, astray>>

\* The window gets the focus.
Focus ==
    /\ fetches[currentPath].at = "idle"
    /\ fetches' = Mounted(currentPath) /\ Odd
    /\ UNCHANGED <<server, lists, currentPath, jobVars, astray>>

FetchRead(d) ==
    /\ fetches[d].at = "sent"
    /\ fetches' = [fetches EXCEPT ![d] = [at |-> "read", got |-> List(d)]]
    /\ astray' = astray \ {d}
    /\ UNCHANGED <<server, lists, currentPath, jobVars, odd>>

FetchDone(d) ==
    /\ fetches[d].at = "read"
    /\ lists' = [lists EXCEPT ![d] = fetches[d].got]
    /\ fetches' = [fetches EXCEPT ![d] = Idle]
    /\ UNCHANGED <<server, currentPath, jobVars, odd, astray>>

\* The retries of a query are used up: what was shown stays.
FetchFails(d) ==
    /\ fetches[d].at # "idle" /\ Odd
    /\ fetches' = [fetches EXCEPT ![d] = Idle]
    /\ astray' = astray \cup {d}
    /\ UNCHANGED <<server, lists, currentPath, jobVars>>

\* The cached listing of a directory left long ago is dropped.
Forget(d) ==
    /\ d # currentPath /\ lists[d] # None /\ fetches[d].at = "idle"
    /\ lists' = [lists EXCEPT ![d] = None] /\ Odd
    /\ UNCHANGED <<server, fetches, currentPath, jobVars, astray>>

-----------------------------------------------------------------------------
(* The page *)

Mutate(op, p, q) ==
    /\ sent < MaxJobs /\ sent' = sent + 1
    /\ jobs' = jobs \cup {[op |-> op, path |-> p, to |-> q]}
    /\ UNCHANGED <<server, cacheVars, currentPath, done, odd, astray>>

\* handleUpload: the button waits for the upload before, a drop does not.
HandleUpload(n) ==
    /\ Append(currentPath, n) \in Paths
    /\ Mutate("upload", Append(currentPath, n), None)

HandleCreateFolder(n) == currentPath = Root /\ Mutate("folder", <<n>>, None)

\* The dialog was opened for an entry of some listing of the directory shown; its
\* confirmation waits for nothing (Enter), and it may be closed with Escape and
\* opened for another entry while the mutation is in flight.
HandleRename(n, m) ==
    /\ n # m /\ {Append(currentPath, n), Append(currentPath, m)} \subseteq Paths
    /\ Mutate("rename", Append(currentPath, n), Append(currentPath, m))

HandleDelete(n) ==
    /\ Append(currentPath, n) \in Paths
    /\ Mutate("delete", Append(currentPath, n), None)

-----------------------------------------------------------------------------
(* The routes of the sandbox server *)

Under(p) == {q \in files : q = p \/ Front(q) = p}

\* mkdir -p, then the file, unless a folder has its name; a file has the
\* directory's name: 500.
Uploaded(p) ==
    /\ Front(p) \notin files
    /\ folders' = folders \cup ({Front(p)} \ {Root})
    /\ files' = IF p \in folders THEN files ELSE files \cup {p}

\* 409 if the path exists.
FolderMade(p) ==
    /\ ~Exists(p) /\ folders' = folders \cup {p} /\ UNCHANGED files

\* 404 and 409.
Renamed(p, q) ==
    LET moved(r) == IF r = p THEN q ELSE <<q[1], r[2]>>
    IN  /\ Exists(p) /\ ~Exists(q)
        /\ files' = (files \ Under(p)) \cup {moved(r) : r \in Under(p)}
        /\ folders' = IF p \in folders THEN (folders \ {p}) \cup {q} ELSE folders

\* deleteUserFile of the client takes 404 for success.
Deleted(p) == files' = files \ Under(p) /\ folders' = folders \ {p}

Effect(j) == \/ j.op = "upload" /\ Uploaded(j.path)
             \/ j.op = "folder" /\ FolderMade(j.path)
             \/ j.op = "rename" /\ Renamed(j.path, j.to)
             \/ j.op = "delete" /\ Deleted(j.path)

Refused(j) == \/ j.op = "upload" /\ Front(j.path) \in files
              \/ j.op = "folder" /\ Exists(j.path)
              \/ j.op = "rename" /\ (~Exists(j.path) \/ Exists(j.to))

JobRuns(j) ==
    /\ Effect(j)
    /\ jobs' = jobs \ {j} /\ done' = done + 1
    /\ UNCHANGED <<cacheVars, currentPath, sent, odd, astray>>

\* onError only shows a toast.
JobFails(j) ==
    /\ jobs' = jobs \ {j}
    /\ IF Refused(j) THEN UNCHANGED odd ELSE Odd
    /\ UNCHANGED <<server, cacheVars, currentPath, done, sent, astray>>

\* A proxy or a time-out between the page and the sandbox turns a success into
\* an error.
JobLost ==
    /\ done > 0 /\ done' = done - 1 /\ Odd
    /\ astray' = Directories
    /\ UNCHANGED <<server, cacheVars, currentPath, jobs, sent>>

\* Mutant: the hook invalidates nothing.
JobSucceedsSilently ==
    /\ done > 0 /\ done' = done - 1
    /\ astray' = astray \cup {d \in Directories : fetches[d].at = "read"}
    /\ UNCHANGED <<server, cacheVars, currentPath, jobs, sent, odd>>

\* onSuccess.  A fetch that was answered earlier and is not started again brings
\* an older listing.
JobSucceeds ==
    /\ done > 0 /\ done' = done - 1
    /\ fetches' = Invalidated
    /\ astray' = astray \cup {d \in Directories : fetches[d].at = "read" /\ fetches'[d] = fetches[d]}
    /\ UNCHANGED <<server, lists, currentPath, jobs, sent, odd>>

-----------------------------------------------------------------------------

\* An artifact copied to a folder (ai-generated), or a file of the agent's tools.
AgentWrites(p) ==
    /\ Odd /\ ~Exists(p) /\ Uploaded(p)
    /\ astray' = Directories
    /\ UNCHANGED <<cacheVars, currentPath, jobVars>>

\* The sandbox is suspended or lost, and the next request gets a new one.
SandboxLost ==
    /\ Odd /\ files' = {} /\ folders' = {}
    /\ astray' = Directories
    /\ UNCHANGED <<cacheVars, currentPath, jobVars>>

Next ==
    \/ \E d \in Directories : Navigate(d) \/ FetchRead(d) \/ FetchDone(d) \/ FetchFails(d) \/ Forget(d)
    \/ \E n \in Names : HandleCreateFolder(n)
    \/ \E n \in Names \cup Inner : HandleUpload(n) \/ HandleDelete(n)
    \/ \E n, m \in Names \cup Inner : HandleRename(n, m)
    \/ Focus
    \/ \E j \in jobs : JobRuns(j) \/ JobFails(j)
    \/ JobLost \/ JobSucceeds
    \/ \E p \in Paths \ Folders : AgentWrites(p)
    \/ SandboxLost

Spec == Init /\ [][Next]_fileVars

-----------------------------------------------------------------------------
(* Properties *)

\* Once every mutation is answered and nothing is being fetched, the page shows
\* the directory as the sandbox has it, whatever order uploads, folders, renames,
\* deletions and navigation came and were answered in.  Excepted are directories
\* changed by others, whose fetch or whose mutation's answer failed, and those
\* whose fetch, first or left behind by navigation, read the directory before a
\* mutation and delivered after its success.
ListShown ==
    jobs = {} /\ done = 0 /\ fetches[currentPath].at = "idle" /\ currentPath \notin astray
        => lists[currentPath] = List(currentPath)

=============================================================================
