--------------------------- MODULE KnowledgeBase ---------------------------
(***************************************************************************)
(* The knowledge base: markdown files edited in the dashboard, kept in a   *)
(* local directory by apps/web's routes, and mirrored into the user's      *)
(* sandbox by fire-and-forget requests to the gateway.  The editor saves   *)
(* through one debounced call; nothing orders two saves or two syncs.  The *)
(* sandbox is created (with an upload of the directory), suspended, and    *)
(* read back by "Sync from Agent".                                         *)
(***************************************************************************)
EXTENDS Naturals, FiniteSets, Bags

CONSTANTS
    Dirs,      \* folders
    Names,     \* file names
    MaxEdits,  \* bound: contents ever given to a file
    MaxWire,   \* bound: syncs in flight
    MaxRare,   \* bound: requests and uploads that fail, deletions by the agent, pulls,
               \* suspensions
    None

Files    == Dirs \X Names
Contents == 0 .. MaxEdits
Save     == [file: Files, content: Contents]

ASSUME KnowledgeBaseAssumption ==
    /\ MaxEdits \in Nat \ {0} /\ MaxWire \in Nat /\ MaxRare \in Nat
    /\ None \notin Save

VARIABLES
    local,    \* [Files -> content under KNOWLEDGE_BASE_PATH], Absent if none
    folders,  \* directories there
    sandbox,  \* [Files -> content under the sandbox's KB_DIR]
    phase,    \* the user's sandbox: "off", "starting" (uploaded, not cached), "ready"
    wire,     \* bag of syncs on their way to the sandbox
    pull,     \* [Files -> content] a running pull has received, or None
    cache,    \* contentCache: [Files -> content in the editor]
    pending,  \* the save debouncedSave holds, or None
    puts,     \* saves on their way to the PUT handler
    edits,    \* contents used so far
    rare,     \* events counted by MaxRare so far
    behind,   \* history: files whose copy in the sandbox nobody promises
    unsaved   \* history: files whose last edit nobody promises to save

disk    == <<local, folders>>
remote  == <<sandbox, phase>>
editor  == <<cache, pending, puts, unsaved>>
bounds  == <<edits, rare>>
kbVars  == <<disk, remote, wire, pull, editor, bounds, behind>>

Absent   == 0
Sync     == [files: SUBSET Files, content: Contents]

TypeOK ==
    /\ local \in [Files -> Contents] /\ sandbox \in [Files -> Contents]
    /\ cache \in [Files -> Contents]
    /\ folders \subseteq Dirs
    /\ phase \in {"off", "starting", "ready"}
    /\ BagToSet(wire) \subseteq Sync
    /\ pull = None \/ pull \in [Files -> Contents]
    /\ pending \in Save \cup {None} /\ puts \subseteq Save
    /\ edits \in Contents /\ rare \in 0 .. MaxRare
    /\ behind \subseteq Files /\ unsaved \subseteq Files
    /\ \A f \in Files : local[f] # Absent => f[1] \in folders

Init ==
    /\ local \in [Files -> {Absent, 1}]
    /\ folders = {f[1] : f \in {g \in Files : local[g] # Absent}}
    /\ sandbox = [f \in Files |-> Absent] /\ phase = "off"
    /\ wire = EmptyBag /\ pull = None
    /\ cache = [f \in Files |-> Absent] /\ pending = None /\ puts = {}
    /\ edits = 1 /\ rare = 0
    /\ behind = {} /\ unsaved = {}

-----------------------------------------------------------------------------

Under(d)    == {f \in Files : f[1] = d}
Exists(f)   == local[f] # Absent
InFlight(f) == \E m \in BagToSet(wire) : f \in m.files

\* A save of f is held back by the debouncer or on its way.
Saving(f) == \/ pending # None /\ pending.file = f
             \/ \E p \in puts : p.file = f

Write(f, v)   == [files |-> {f}, content |-> v]
Delete(files) == [files |-> files, content |-> Absent]
Apply(m, dir) == [f \in Files |-> IF f \in m.files THEN m.content ELSE dir[f]]

\* syncToGateway, called for every message of a handler: the requests are not
\* awaited.  One alone in flight for a file brings its copy up to date, two
\* may overtake each other.
Send(msgs) ==
    LET touched == UNION {m.files : m \in msgs}
        crossed == {f \in touched : InFlight(f)}
    IN  /\ BagCardinality(wire) + Cardinality(msgs) <= MaxWire
        /\ wire' = wire (+) SetToBag(msgs)
        /\ behind' = (behind \ touched) \cup crossed

\* A content no file has had, which tells edits apart.
NewContent == edits < MaxEdits /\ edits' = edits + 1 /\ UNCHANGED rare
Rare       == rare < MaxRare /\ rare' = rare + 1 /\ UNCHANGED edits

-----------------------------------------------------------------------------
(* The editor *)

\* handleContentChange: the debouncer forgets the save it held, also that of
\* another file.
Type(f) ==
    /\ Exists(f) /\ NewContent
    /\ cache' = [cache EXCEPT ![f] = edits']
    /\ pending' = [file |-> f, content |-> edits']
    /\ unsaved' = IF pending = None \/ pending.file = f THEN unsaved
                                                        ELSE unsaved \cup {pending.file}
    /\ UNCHANGED <<disk, remote, wire, pull, puts, behind>>

\* debouncedSave fires: a PUT that overtakes or is overtaken by the previous
\* one of the file decides by its arrival which of the two remains.
SaveFires ==
    /\ pending # None
    /\ puts' = puts \cup {pending} /\ pending' = None
    /\ unsaved' = IF \/ \E p \in puts : p.file = pending.file
                     \/ pending.content # cache[pending.file]
                  THEN unsaved \cup {pending.file} ELSE unsaved \ {pending.file}
    /\ UNCHANGED <<disk, remote, wire, pull, cache, behind, bounds>>

\* PUT: the file is written whether it still exists or not.
PutFile(p) ==
    /\ p \in puts /\ puts' = puts \ {p}
    /\ local' = [local EXCEPT ![p.file] = p.content]
    /\ folders' = folders \cup {p.file[1]}
    /\ Send({Write(p.file, p.content)})
    /\ UNCHANGED <<remote, pull, cache, pending, unsaved, bounds>>

\* The mutation fails: nobody retries it.
PutFails(p) ==
    /\ p \in puts /\ puts' = puts \ {p} /\ Rare
    /\ unsaved' = unsaved \cup {p.file}
    /\ UNCHANGED <<disk, remote, wire, pull, cache, pending, behind>>

\* Mutant: a created file is not entered into contentCache.
CreateFileUncached(f) ==
    /\ ~Exists(f) /\ NewContent
    /\ local' = [local EXCEPT ![f] = edits']
    /\ folders' = folders \cup {f[1]}
    /\ Send({Write(f, edits')})
    /\ UNCHANGED <<remote, pull, editor>>

\* handleCreateFile and POST; 409 if the file exists.
CreateFile(f) ==
    /\ ~Exists(f) /\ NewContent
    /\ local' = [local EXCEPT ![f] = edits']
    /\ folders' = folders \cup {f[1]}
    /\ Send({Write(f, edits')})
    /\ cache' = [cache EXCEPT ![f] = edits']
    /\ unsaved' = IF Saving(f) THEN unsaved \cup {f} ELSE unsaved \ {f}
    /\ UNCHANGED <<remote, pull, pending, puts>>

CreateFolder(d) ==
    /\ d \notin folders /\ folders' = folders \cup {d}
    /\ UNCHANGED <<local, remote, wire, pull, editor, behind, bounds>>

\* DELETE of a file; the editor keeps its text in contentCache.
DeleteFile(f) ==
    /\ Exists(f)
    /\ local' = [local EXCEPT ![f] = Absent]
    /\ Send({Delete({f})})
    /\ UNCHANGED <<folders, remote, pull, editor, bounds>>

DeleteFolder(d) ==
    /\ d \in folders /\ folders' = folders \ {d}
    /\ local' = Apply(Delete(Under(d)), local)
    /\ Send({Delete(Under(d))})
    /\ UNCHANGED <<remote, pull, editor, bounds>>

\* renameKeysInRecord on contentCache: where both names have an entry (the one
\* of a file deleted earlier) the one entered last remains.  A save of the old
\* name that is still to come is not renamed.
Relabel(to) ==
    LET old == DOMAIN to
        new == {to[f] : f \in old}
        from(g) == CHOOSE f \in old : to[f] = g
        clash == {g \in new : Absent \notin {cache[g], cache[from(g)]}}
    IN  \E stale \in SUBSET clash :
          /\ cache' = [g \in Files |->
                 IF g \in new THEN IF g \in stale \/ cache[from(g)] = Absent
                                   THEN cache[g] ELSE cache[from(g)]
                 ELSE IF g \in old THEN Absent ELSE cache[g]]
          /\ unsaved' = (unsaved \ (old \cup new)) \cup
                 {g \in new : \/ from(g) \in unsaved \/ Saving(from(g)) \/ Saving(g)
                              \/ cache'[g] # cache[from(g)]}
          /\ UNCHANGED <<pending, puts>>

\* handleRenameFile, handleMoveFile and PATCH for a file: 404 and 409.
RenameFile(f, g) ==
    /\ Exists(f) /\ ~Exists(g)
    /\ local' = [local EXCEPT ![f] = Absent, ![g] = local[f]]
    /\ folders' = folders \cup {g[1]}
    /\ Send({Delete({f}), Write(g, local[f])})
    /\ Relabel([h \in {f} |-> g])
    /\ UNCHANGED <<remote, pull, bounds>>

\* Mutant: a renamed folder's files are written under their new names only.
RenameFolderUndeleted(d, e) ==
    LET moved == [f \in Under(d) |-> <<e, f[2]>>]
    IN  /\ d \in folders /\ e \notin folders
        /\ local' = [f \in Files |-> IF f[1] = d THEN Absent
                                     ELSE IF f[1] = e THEN local[<<d, f[2]>>] ELSE local[f]]
        /\ folders' = (folders \ {d}) \cup {e}
        /\ Send({Write(moved[f], local[f]) : f \in {g \in Under(d) : Exists(g)}})
        /\ Relabel(moved)
        /\ UNCHANGED <<remote, pull, bounds>>

\* The same for a folder: one delete, and a write of each file found under its
\* new name.
RenameFolder(d, e) ==
    LET moved == [f \in Under(d) |-> <<e, f[2]>>]
        found == {f \in Under(d) : Exists(f)}
    IN  /\ d \in folders /\ e \notin folders
        /\ local' = [f \in Files |-> IF f[1] = d THEN Absent
                                     ELSE IF f[1] = e THEN local[<<d, f[2]>>] ELSE local[f]]
        /\ folders' = (folders \ {d}) \cup {e}
        /\ Send({Delete(Under(d))} \cup {Write(moved[f], local[f]) : f \in found})
        /\ Relabel(moved)
        /\ UNCHANGED <<remote, pull, bounds>>

-----------------------------------------------------------------------------
(* Gateway, orchestrator and sandbox *)

\* ensureSandbox, for a write or for a session: the directory is uploaded, or
\* not (a failure is not fatal).  What is in flight arrives after the upload.
StartSandbox(uploaded) ==
    /\ phase = "off" /\ phase' = "starting"
    /\ IF uploaded THEN UNCHANGED bounds ELSE Rare
    /\ sandbox' = [f \in Files |-> IF uploaded THEN local[f] ELSE Absent]
    /\ behind' = IF uploaded THEN {f \in behind : InFlight(f)}
                 ELSE {f \in Files : Exists(f) \/ (f \in behind /\ InFlight(f))}
    /\ UNCHANGED <<disk, wire, pull, editor>>

SandboxReady ==
    /\ phase = "starting" /\ phase' = "ready"
    /\ UNCHANGED <<disk, sandbox, wire, pull, editor, behind, bounds>>

SuspendSandbox ==
    /\ phase = "ready" /\ phase' = "off"
    /\ sandbox' = [f \in Files |-> Absent]
    /\ Rare /\ UNCHANGED <<disk, wire, pull, editor, behind>>

Taken(m) == BagIn(m, wire) /\ wire' = wire (-) SetToBag({m})

\* pushKBFile waits for the sandbox, deleteKBFile does not start one.
DeliverSync(m) ==
    /\ phase = "ready" /\ Taken(m)
    /\ sandbox' = Apply(m, sandbox)
    /\ UNCHANGED <<disk, phase, pull, editor, behind, bounds>>

\* deleteKBFile without a cached sandbox does nothing: one that is starting
\* may have received the file.
DropDelete(m) ==
    /\ phase # "ready" /\ m.content = Absent /\ Taken(m)
    /\ behind' = IF phase = "off" THEN behind ELSE behind \cup m.files
    /\ UNCHANGED <<disk, remote, pull, editor, bounds>>

\* A request fails on its way or is answered by an error, which is not read.
SyncFails(m) ==
    /\ Taken(m) /\ Rare
    /\ behind' = behind \cup m.files
    /\ UNCHANGED <<disk, remote, pull, editor>>

\* The agent's own tools.
AgentChanges(f) ==
    /\ phase = "ready"
    /\ \/ NewContent /\ sandbox' = [sandbox EXCEPT ![f] = edits']
       \/ sandbox[f] # Absent /\ Rare /\ sandbox' = [sandbox EXCEPT ![f] = Absent]
    /\ behind' = behind \cup {f}
    /\ UNCHANGED <<disk, phase, wire, pull, editor>>

\* "Sync from Agent": pullKB, then the handler writes what it received.
PullRead ==
    /\ pull = None /\ phase = "ready" /\ pull' = sandbox /\ Rare
    /\ UNCHANGED <<disk, remote, wire, editor, behind>>

PullWrite ==
    LET got     == {f \in Files : pull[f] # Absent}
        changed == {f \in got : pull[f] # local[f]}
    IN  /\ pull # None /\ pull' = None
        /\ local' = [f \in Files |-> IF f \in got THEN pull[f] ELSE local[f]]
        /\ folders' = folders \cup {f[1] : f \in got}
        /\ unsaved' = unsaved \cup changed
        /\ behind' = (behind \ got) \cup {f \in got : sandbox[f] # pull[f] \/ InFlight(f)}
        /\ UNCHANGED <<remote, wire, cache, pending, puts, bounds>>

-----------------------------------------------------------------------------

Next ==
    \/ \E f \in Files : Type(f) \/ CreateFile(f) \/ DeleteFile(f) \/ AgentChanges(f)
    \/ \E f, g \in Files : RenameFile(f, g)
    \/ \E d \in Dirs : CreateFolder(d) \/ DeleteFolder(d)
    \/ \E d, e \in Dirs : RenameFolder(d, e)
    \/ SaveFires \/ \E p \in puts : PutFile(p) \/ PutFails(p)
    \/ \E uploaded \in BOOLEAN : StartSandbox(uploaded)
    \/ SandboxReady \/ SuspendSandbox
    \/ \E m \in BagToSet(wire) : DeliverSync(m) \/ DropDelete(m) \/ SyncFails(m)
    \/ PullRead \/ PullWrite

Spec == Init /\ [][Next]_kbVars

-----------------------------------------------------------------------------
(* Properties *)

\* A running sandbox holds the file of the dashboard, byte for byte or not at
\* all, as soon as nothing about it is in flight, whatever creations, renames,
\* moves, deletions of folders, saves and restarts of the sandbox led there.
\* Excepted are the files on which something happened that the code does not
\* answer for: two syncs crossed, a sync or the upload failed, a deletion met
\* a sandbox that was starting, the agent wrote, a pull met a newer change.
Mirror ==
    phase = "ready" => \A f \in Files \ behind : InFlight(f) \/ sandbox[f] = local[f]

\* What the editor shows of an existing file is what the directory holds, once
\* no save of the file is to come.  Excepted are the files whose save was
\* forgotten for that of another file, crossed another one or failed, that
\* were created, renamed or moved while a save was to come, and the ones a pull
\* has changed under the editor.
EditKept ==
    \A f \in Files \ unsaved :
        Exists(f) /\ cache[f] # Absent /\ ~Saving(f) => cache[f] = local[f]

=============================================================================
