----------------------- MODULE SandboxClientsProofs -----------------------
(***************************************************************************)
(* Theorems about the knowledge base and the Files page, each as a         *)
(* property of ClientSpec, where one behaviour is of one of the two and    *)
(* the other stands still.                                                 *)
(***************************************************************************)
EXTENDS MCSandboxClients, TLAPS

-----------------------------------------------------------------------------
(* KnowledgeBase: what is on its way to the sandbox *)

\* The messages about f under way.
About(f) == {m \in BagToSet(wire) : f \in m.files}

\* A file that is not behind has at most one message under way, in one copy, with its
\* present content; while there is none, a sandbox that is uploaded has that content.
InStep(f) ==
    /\ \A m \in About(f) : /\ wire[m] = 1
                           /\ m.content = local[f]
                           /\ \A n \in About(f) : m = n
    /\ phase # "off" => InFlight(f) \/ sandbox[f] = local[f]

\* The editor's text of f, if any, is what every save under way carries and, without one,
\* what is on the disk; while the debouncer holds a save of f, it decides.
Kept(f) ==
    cache[f] # Absent /\ (pending = None \/ pending.file # f) =>
        /\ \A p \in puts : p.file = f => p.content = cache[f]
        /\ Exists(f) /\ ~Saving(f) => cache[f] = local[f]

BaseInv ==
    /\ TypeOK
    /\ IsABag(wire)
    /\ \A f \in Files \ behind : InStep(f)
    /\ \A f \in Files \ unsaved : Kept(f)

-----------------------------------------------------------------------------
(* Bags: one message of each kind is added, one copy is removed *)

LEMMA Added ==
    ASSUME NEW B, IsABag(B), NEW S, NEW C, C = B (+) SetToBag(S)
    PROVE  /\ IsABag(C) /\ DOMAIN C = DOMAIN B \cup S
           /\ \A m \in DOMAIN B \ S : C[m] = B[m]
           /\ \A m \in S \ DOMAIN B : C[m] = 1
<1>1. \A m \in DOMAIN B : B[m] \in Nat /\ B[m] > 0
  BY DEF IsABag
<1>2. C = [e \in DOMAIN B \cup S |-> (IF e \in DOMAIN B THEN B[e] ELSE 0)
                                      + (IF e \in S THEN 1 ELSE 0)]
  BY DEF SetToBag, (+)
<1>3. \A e \in DOMAIN C : C[e] \in {n \in Nat : n > 0}
  BY <1>1, <1>2
<1>4. C \in [DOMAIN C -> {n \in Nat : n > 0}]
  BY <1>2, <1>3
<1> QED
  BY <1>1, <1>2, <1>4 DEF IsABag

LEMMA Removed ==
    ASSUME NEW B, IsABag(B), NEW m \in DOMAIN B, NEW C, C = B (-) SetToBag({m})
    PROVE  /\ IsABag(C) /\ DOMAIN C \subseteq DOMAIN B
           /\ \A n \in DOMAIN B \ {m} : n \in DOMAIN C /\ C[n] = B[n]
           /\ B[m] = 1 => m \notin DOMAIN C
<1> DEFINE D == [e \in DOMAIN B |-> IF e \in {m} THEN B[e] - 1 ELSE B[e]]
<1>1. \A e \in DOMAIN B : B[e] \in Nat /\ B[e] > 0
  BY DEF IsABag
<1>2. C = [e \in {d \in DOMAIN D : D[d] > 0} |-> D[e]]
  BY DEF SetToBag, (-)
<1>3. \A e \in DOMAIN B : D[e] \in Nat /\ (e # m => D[e] = B[e]) /\ D[m] = B[m] - 1
  BY <1>1
<1> HIDE DEF D
<1>4. DOMAIN D = DOMAIN B
  BY DEF D
<1>5. \A e \in DOMAIN C : C[e] \in {n \in Nat : n > 0}
  BY <1>2, <1>3, <1>4
<1>6. C \in [DOMAIN C -> {n \in Nat : n > 0}]
  BY <1>2, <1>5
<1>7. \A n \in DOMAIN B \ {m} : n \in DOMAIN C /\ C[n] = B[n]
  BY <1>1, <1>2, <1>3, <1>4
<1>8. B[m] = 1 => m \notin DOMAIN C
  BY <1>2, <1>3, <1>4
<1> QED
  BY <1>2, <1>4, <1>6, <1>7, <1>8 DEF IsABag

-----------------------------------------------------------------------------
(* KnowledgeBase: messages sent and messages taken *)

Disjoint(msgs) == \A m, n \in msgs : m.files \cap n.files # {} => m = n

\* Messages that say what the disk holds from now on, each about other files, leave every
\* file in step or behind.
LEMMA SendKeeps ==
    ASSUME BaseInv, NEW msgs \in SUBSET Sync, Send(msgs), Disjoint(msgs),
           UNCHANGED <<sandbox, phase>>,
           \A m \in msgs : \A f \in m.files : local'[f] = m.content,
           \A f \in Files \ UNION {m.files : m \in msgs} : local'[f] = local[f]
    PROVE  /\ IsABag(wire)' /\ (BagToSet(wire) \subseteq Sync)' /\ behind' \subseteq Files
           /\ (\A f \in Files \ behind : InStep(f))'
<1> DEFINE touched == UNION {m.files : m \in msgs}
<1>1. /\ wire' = wire (+) SetToBag(msgs)
      /\ behind' = (behind \ touched) \cup {f \in touched : InFlight(f)}
  BY DEF Send
<1>2. /\ IsABag(wire') /\ DOMAIN wire' = DOMAIN wire \cup msgs
      /\ \A m \in DOMAIN wire \ msgs : wire'[m] = wire[m]
      /\ \A m \in msgs \ DOMAIN wire : wire'[m] = 1
  <2>1. PICK B : B = wire
    OBVIOUS
  <2>2. PICK C : C = wire'
    OBVIOUS
  <2>3. IsABag(B) /\ C = B (+) SetToBag(msgs)
    BY <1>1, <2>1, <2>2 DEF BaseInv
  <2> QED
    BY <2>1, <2>2, <2>3, Added
<1>3. \A m \in msgs : m.files \subseteq Files
  BY DEF Sync
<1>4. ASSUME NEW f \in Files \ behind' PROVE InStep(f)'
  <2>1. CASE f \in touched
    <3>1. \A m \in DOMAIN wire : f \notin m.files
      BY <1>1, <2>1, <1>4 DEF InFlight, BagToSet
    <3>2. PICK m \in msgs : f \in m.files
      BY <2>1
    <3>3. \A n \in DOMAIN wire' : f \in n.files => n = m
      BY <1>2, <3>1, <3>2 DEF Disjoint
    <3>4. wire'[m] = 1 /\ m \in DOMAIN wire'
      BY <1>2, <3>1, <3>2
    <3> QED
      BY <3>2, <3>3, <3>4 DEF InStep, About, InFlight, BagToSet
  <2>2. CASE f \notin touched
    <3>1. InStep(f) /\ local'[f] = local[f]
      BY <1>1, <1>4, <2>2 DEF BaseInv
    <3>2. \A n \in msgs : f \notin n.files
      BY <2>2
    <3>3. /\ \A n \in DOMAIN wire : f \in n.files => wire'[n] = wire[n]
          /\ \A n : n \in DOMAIN wire' /\ f \in n.files <=> n \in DOMAIN wire /\ f \in n.files
      BY <1>2, <3>2
    <3> QED
      BY <3>1, <3>3 DEF InStep, About, InFlight, BagToSet
  <2> QED
    BY <2>1, <2>2
<1> QED
  BY <1>1, <1>2, <1>3, <1>4 DEF BaseInv, TypeOK, BagToSet

\* A message that leaves the wire leaves in step the files it is not about, and brings
\* those it is about in step if the sandbox applies it or there is none.
LEMMA TakeKeeps ==
    ASSUME BaseInv, NEW m, Taken(m), UNCHANGED <<local, phase>>, behind \subseteq behind',
           behind' \subseteq Files,
           \A f \in m.files \ behind' : phase # "off" => sandbox'[f] = m.content,
           \A f \in Files \ m.files : sandbox'[f] = sandbox[f]
    PROVE  /\ IsABag(wire)' /\ (BagToSet(wire) \subseteq Sync)'
           /\ (\A f \in Files \ behind : InStep(f))'
<1>1. m \in DOMAIN wire /\ wire' = wire (-) SetToBag({m})
  BY DEF Taken, BagIn, BagToSet
<1>2. /\ IsABag(wire') /\ DOMAIN wire' \subseteq DOMAIN wire
      /\ \A n \in DOMAIN wire \ {m} : n \in DOMAIN wire' /\ wire'[n] = wire[n]
      /\ wire[m] = 1 => m \notin DOMAIN wire'
  <2>1. PICK B : B = wire
    OBVIOUS
  <2>2. PICK C : C = wire'
    OBVIOUS
  <2>3. IsABag(B) /\ m \in DOMAIN B /\ C = B (-) SetToBag({m})
    BY <1>1, <2>1, <2>2 DEF BaseInv
  <2> QED
    BY <2>1, <2>2, <2>3, Removed
<1>3. ASSUME NEW f \in Files \ behind' PROVE InStep(f)'
  <2>1. InStep(f)
    BY <1>3 DEF BaseInv
  <2>2. CASE f \in m.files
    <3>1. /\ wire[m] = 1 /\ m.content = local[f]
          /\ \A n \in DOMAIN wire : f \in n.files => n = m
      BY <1>1, <2>1, <2>2 DEF InStep, About, BagToSet
    <3>2. \A n \in DOMAIN wire' : f \notin n.files
      BY <1>2, <3>1
    <3> QED
      BY <1>3, <2>2, <3>1, <3>2 DEF InStep, About, BagToSet
  <2>3. CASE f \notin m.files
    BY <1>2, <2>1, <2>3 DEF InStep, About, InFlight, BagToSet
  <2> QED
    BY <2>2, <2>3
<1> QED
  BY <1>2, <1>3 DEF BaseInv, TypeOK, BagToSet

-----------------------------------------------------------------------------
(* KnowledgeBase: names that change under the editor *)

LEMMA RelabelKeeps ==
    ASSUME BaseInv, NEW old \in SUBSET Files, NEW to \in [old -> Files], Relabel(to),
           \A f, g \in old : to[f] = to[g] => f = g,
           \A f \in old : local'[to[f]] = local[f],
           \A f \in Files \ (old \cup {to[g] : g \in old}) : local'[f] = local[f]
    PROVE  /\ cache' \in [Files -> Contents] /\ unsaved' \subseteq Files
           /\ UNCHANGED <<pending, puts>>
           /\ (\A f \in Files \ unsaved : Kept(f))'
<1> DEFINE new     == {to[f] : f \in DOMAIN to}
           from(g) == CHOOSE f \in DOMAIN to : to[f] = g
           clash   == {g \in new : Absent \notin {cache[g], cache[from(g)]}}
<1>0. DOMAIN to = old /\ new = {to[f] : f \in old}
  OBVIOUS
<1>1. \A f \in old : from(to[f]) = f
  BY <1>0
<1>2. PICK stale \in SUBSET clash :
         /\ cache' = [g \in Files |->
                IF g \in new THEN IF g \in stale \/ cache[from(g)] = Absent
                                  THEN cache[g] ELSE cache[from(g)]
                ELSE IF g \in DOMAIN to THEN Absent ELSE cache[g]]
         /\ unsaved' = (unsaved \ (DOMAIN to \cup new)) \cup
                {g \in new : \/ from(g) \in unsaved \/ Saving(from(g)) \/ Saving(g)
                             \/ cache'[g] # cache[from(g)]}
         /\ UNCHANGED <<pending, puts>>
  BY DEF Relabel
<1> HIDE DEF from, new
<1>3. \A g \in new : from(g) \in old /\ to[from(g)] = g
  BY <1>0, <1>1
<1>4. new \subseteq Files
  BY <1>0
<1>5. cache \in [Files -> Contents] /\ unsaved \subseteq Files /\ Absent \in Contents
  BY KnowledgeBaseAssumption DEF BaseInv, TypeOK, Absent, Contents
<1>6. cache' \in [Files -> Contents]
  BY <1>0, <1>2, <1>3, <1>5
<1>7. ASSUME NEW f \in Files \ unsaved' PROVE Kept(f)'
  <2>1. CASE f \in new
    <3>1. PICK g : g = from(f)
      OBVIOUS
    <3>2. g \in Files \ unsaved /\ ~Saving(g) /\ ~Saving(f) /\ cache'[f] = cache[g]
      BY <1>2, <1>3, <1>7, <2>1, <3>1
    <3>3. local'[f] = local[g]
      BY <1>3, <2>1, <3>1
    <3>4. Kept(g)
      BY <3>2 DEF BaseInv
    <3> QED
      BY <1>2, <3>2, <3>3, <3>4 DEF Kept, Saving, Exists
  <2>2. CASE f \in old \ new
    BY <1>0, <1>2, <2>2 DEF Kept
  <2>3. CASE f \notin old \cup new
    <3>1. f \notin unsaved /\ cache'[f] = cache[f] /\ local'[f] = local[f]
      BY <1>0, <1>2, <1>7, <2>3
    <3>2. Kept(f)
      BY <3>1, <1>7 DEF BaseInv
    <3> QED
      BY <1>2, <3>1, <3>2 DEF Kept, Saving, Exists
  <2> QED
    BY <2>1, <2>2, <2>3
<1> QED
  BY <1>0, <1>2, <1>3, <1>4, <1>5, <1>6, <1>7

-----------------------------------------------------------------------------
(* KnowledgeBase: the steps *)

LEMMA BaseInit == Init => BaseInv
<1> SUFFICES ASSUME Init PROVE BaseInv
  OBVIOUS
<1>1. wire = [e \in {} |-> 1]
  BY DEF Init, EmptyBag, SetToBag
<1>2. DOMAIN wire = {} /\ IsABag(wire)
  BY <1>1 DEF IsABag
<1>3. TypeOK
  <2>1. {0, 1} \subseteq Contents
    BY KnowledgeBaseAssumption DEF Contents
  <2>2. \A f \in Files : f[1] \in Dirs
    BY DEF Files
  <2>3. rare \in 0 .. MaxRare
    BY KnowledgeBaseAssumption DEF Init
  <2> QED
    BY <1>2, <2>1, <2>2, <2>3 DEF Init, TypeOK, BagToSet, Absent
<1>4. \A f \in Files : InStep(f) /\ Kept(f)
  BY <1>2 DEF Init, InStep, About, Kept, BagToSet
<1> QED
  BY <1>2, <1>3, <1>4 DEF BaseInv

\* A step that leaves disk, sandbox and wire alone leaves every file in step; one that leaves
\* disk and editor alone leaves every text kept.
LEMMA InStepStays ==
    ASSUME BaseInv, UNCHANGED <<local, sandbox, phase, wire>>, behind \subseteq behind'
    PROVE  IsABag(wire)' /\ (BagToSet(wire) \subseteq Sync)' /\ (\A f \in Files \ behind : InStep(f))'
BY DEF BaseInv, TypeOK, InStep, About, InFlight, BagToSet

LEMMA KeptStays ==
    ASSUME BaseInv, UNCHANGED <<local, editor>>
    PROVE  (\A f \in Files \ unsaved : Kept(f))'
BY DEF BaseInv, editor, Kept, Saving, Exists

\* Everything of TypeOK but the wire and the history.
LEMMA BoundsStay ==
    ASSUME TypeOK, Rare \/ NewContent \/ UNCHANGED bounds
    PROVE  edits' \in Contents /\ rare' \in 0 .. MaxRare
BY KnowledgeBaseAssumption DEF TypeOK, Rare, NewContent, bounds, Contents

LEMMA TypeStep ==
    ASSUME BaseInv, NEW f \in Files, Type(f)
    PROVE  BaseInv'
<1>1. edits' \in Contents /\ rare' \in 0 .. MaxRare
  BY BoundsStay DEF BaseInv, Type
<1>2. [file |-> f, content |-> edits'] \in Save
  BY <1>1 DEF Save
<1>3. pending' # None /\ pending'.file = f
  BY <1>2, KnowledgeBaseAssumption DEF Type
<1>4. IsABag(wire)' /\ (BagToSet(wire) \subseteq Sync)' /\ (\A g \in Files \ behind : InStep(g))'
  BY InStepStays DEF Type, disk, remote
<1>5. TypeOK'
  BY <1>1, <1>2, <1>4 DEF BaseInv, TypeOK, Type, disk, remote, Save
<1>6. ASSUME NEW g \in Files \ unsaved' PROVE Kept(g)'
  <2>1. CASE g = f
    BY <1>3, <2>1 DEF Kept
  <2>2. CASE g # f
    <3>1. g \notin unsaved /\ (pending = None \/ pending.file # g)
      BY <1>6, <2>2 DEF Type
    <3>2. Kept(g) /\ cache'[g] = cache[g] /\ local' = local /\ puts' = puts
      BY <3>1, <2>2 DEF BaseInv, TypeOK, Type, disk
    <3> QED
      BY <3>1, <3>2 DEF Kept, Saving, Exists
  <2> QED
    BY <2>1, <2>2
<1> QED
  BY <1>4, <1>5, <1>6 DEF BaseInv

LEMMA SaveFiresStep == BaseInv /\ SaveFires => BaseInv'
<1> SUFFICES ASSUME BaseInv, SaveFires PROVE BaseInv'
  OBVIOUS
<1>1. edits' \in Contents /\ rare' \in 0 .. MaxRare
  BY BoundsStay DEF BaseInv, SaveFires
<1>2. pending \in Save /\ pending.file \in Files
  BY DEF SaveFires, BaseInv, TypeOK, Save
<1>3. IsABag(wire)' /\ (BagToSet(wire) \subseteq Sync)' /\ (\A g \in Files \ behind : InStep(g))'
  BY InStepStays DEF SaveFires, disk, remote
<1>4. TypeOK'
  BY <1>1, <1>2, <1>3 DEF BaseInv, TypeOK, SaveFires, disk, remote
<1>5. ASSUME NEW g \in Files \ unsaved' PROVE Kept(g)'
  <2>1. CASE g = pending.file
    <3>1. (\A p \in puts : p.file # g) /\ pending.content = cache[g]
      BY <1>5, <2>1 DEF SaveFires
    <3>2. puts' = puts \cup {pending} /\ pending' = None /\ cache' = cache
      BY DEF SaveFires
    <3>3. Saving(g)'
      BY <2>1, <3>2 DEF Saving
    <3> QED
      BY <2>1, <3>1, <3>2, <3>3 DEF Kept
  <2>2. CASE g # pending.file
    <3>1. Kept(g)
      BY <1>5, <2>2 DEF SaveFires, BaseInv
    <3>2. /\ local' = local /\ cache' = cache /\ pending' = None
          /\ \A p : p.file = g => (p \in puts' <=> p \in puts)
      BY <2>2 DEF SaveFires, disk
    <3> QED
      BY <2>2, <3>1, <3>2 DEF Kept, Saving, Exists
  <2> QED
    BY <2>1, <2>2
<1> QED
  BY <1>3, <1>4, <1>5 DEF BaseInv

LEMMA PutFileStep ==
    ASSUME BaseInv, NEW p \in puts, PutFile(p)
    PROVE  BaseInv'
<1>1. edits' \in Contents /\ rare' \in 0 .. MaxRare
  BY BoundsStay DEF BaseInv, PutFile
<1>2. p \in Save /\ p.file \in Files /\ p.content \in Contents /\ p.file[1] \in Dirs
  BY DEF BaseInv, TypeOK, Save, Files
<1>3. local' = [local EXCEPT ![p.file] = p.content] /\ local \in [Files -> Contents]
  BY DEF PutFile, BaseInv, TypeOK
<1>4. /\ IsABag(wire)' /\ (BagToSet(wire) \subseteq Sync)' /\ behind' \subseteq Files
      /\ (\A f \in Files \ behind : InStep(f))'
  <2>1. PICK msgs : msgs = {Write(p.file, p.content)}
    OBVIOUS
  <2>2. msgs \in SUBSET Sync /\ Disjoint(msgs)
    BY <1>2, <2>1 DEF Write, Sync, Disjoint
  <2>3. \A m \in msgs : \A f \in m.files : local'[f] = m.content
    BY <1>2, <1>3, <2>1 DEF Write
  <2>4. \A f \in Files \ UNION {m.files : m \in msgs} : local'[f] = local[f]
    BY <1>3, <2>1 DEF Write
  <2>5. Send(msgs) /\ UNCHANGED <<sandbox, phase>>
    BY <2>1 DEF PutFile, remote
  <2> QED
    BY <2>2, <2>3, <2>4, <2>5, SendKeeps
<1>5. TypeOK'
  BY <1>1, <1>2, <1>3, <1>4 DEF BaseInv, TypeOK, PutFile, remote
<1>6. ASSUME NEW g \in Files \ unsaved' PROVE Kept(g)'
  <2>1. Kept(g) /\ UNCHANGED <<cache, pending>>
    BY <1>6 DEF BaseInv, PutFile
  <2>2. puts' = puts \ {p}
    BY DEF PutFile
  <2>3. CASE g = p.file
    <3>1. local'[g] = p.content
      BY <1>2, <1>3, <2>3
    <3> QED
      BY <2>1, <2>2, <2>3, <3>1 DEF Kept
  <2>4. CASE g # p.file
    <3>1. local'[g] = local[g] /\ \A q : q.file = g => (q \in puts' <=> q \in puts)
      BY <1>3, <2>2, <2>4
    <3> QED
      BY <2>1, <2>4, <3>1 DEF Kept, Saving, Exists
  <2> QED
    BY <2>3, <2>4
<1> QED
  BY <1>4, <1>5, <1>6 DEF BaseInv

LEMMA PutFailsStep ==
    ASSUME BaseInv, NEW p \in puts, PutFails(p)
    PROVE  BaseInv'
<1>1. edits' \in Contents /\ rare' \in 0 .. MaxRare
  BY BoundsStay DEF BaseInv, PutFails
<1>2. p.file \in Files
  BY DEF BaseInv, TypeOK, Save
<1>3. IsABag(wire)' /\ (BagToSet(wire) \subseteq Sync)' /\ (\A g \in Files \ behind : InStep(g))'
  BY InStepStays DEF PutFails, disk, remote
<1>4. TypeOK'
  BY <1>1, <1>2, <1>3 DEF BaseInv, TypeOK, PutFails, disk, remote
<1>5. ASSUME NEW g \in Files \ unsaved' PROVE Kept(g)'
  <2>1. g # p.file /\ Kept(g)
    BY <1>5 DEF PutFails, BaseInv
  <2>2. UNCHANGED <<local, cache, pending>> /\ \A q : q.file = g => (q \in puts' <=> q \in puts)
    BY <2>1 DEF PutFails, disk
  <2> QED
    BY <2>1, <2>2 DEF Kept, Saving, Exists
<1> QED
  BY <1>3, <1>4, <1>5 DEF BaseInv

LEMMA CreateFileStep ==
    ASSUME BaseInv, NEW f \in Files, CreateFile(f)
    PROVE  BaseInv'
<1>1. edits' \in Contents /\ rare' \in 0 .. MaxRare
  BY BoundsStay DEF BaseInv, CreateFile
<1>2. /\ local' = [local EXCEPT ![f] = edits'] /\ local \in [Files -> Contents]
      /\ cache' = [cache EXCEPT ![f] = edits'] /\ cache \in [Files -> Contents]
      /\ f[1] \in Dirs
  BY DEF CreateFile, BaseInv, TypeOK, Files
<1>3. PICK v : v = edits'
  OBVIOUS
<1>4. /\ IsABag(wire)' /\ (BagToSet(wire) \subseteq Sync)' /\ behind' \subseteq Files
      /\ (\A g \in Files \ behind : InStep(g))'
  <2>1. PICK msgs : msgs = {Write(f, v)}
    OBVIOUS
  <2>2. msgs \in SUBSET Sync /\ Disjoint(msgs)
    BY <1>1, <1>3, <2>1 DEF Write, Sync, Disjoint
  <2>3. \A m \in msgs : \A g \in m.files : local'[g] = m.content
    BY <1>2, <1>3, <2>1 DEF Write
  <2>4. \A g \in Files \ UNION {m.files : m \in msgs} : local'[g] = local[g]
    BY <1>2, <2>1 DEF Write
  <2>5. Send(msgs) /\ UNCHANGED <<sandbox, phase>>
    BY <1>3, <2>1 DEF CreateFile, remote
  <2> QED
    BY <2>2, <2>3, <2>4, <2>5, SendKeeps
<1>5. TypeOK'
  BY <1>1, <1>2, <1>4 DEF BaseInv, TypeOK, CreateFile, remote
<1>6. ASSUME NEW g \in Files \ unsaved' PROVE Kept(g)'
  <2>1. CASE g = f
    <3>1. ~Saving(f) /\ UNCHANGED <<pending, puts>>
      BY <1>6, <2>1 DEF CreateFile
    <3> QED
      BY <1>2, <2>1, <3>1 DEF Kept, Saving
  <2>2. CASE g # f
    <3>1. g \notin unsaved /\ local'[g] = local[g] /\ cache'[g] = cache[g] /\ UNCHANGED <<pending, puts>>
      BY <1>2, <1>6, <2>2 DEF CreateFile
    <3>2. Kept(g)
      BY <3>1, <1>6 DEF BaseInv
    <3> QED
      BY <3>1, <3>2 DEF Kept, Saving, Exists
  <2> QED
    BY <2>1, <2>2
<1> QED
  BY <1>4, <1>5, <1>6 DEF BaseInv

LEMMA CreateFolderStep ==
    ASSUME BaseInv, NEW d \in Dirs, CreateFolder(d)
    PROVE  BaseInv'
<1>1. IsABag(wire)' /\ (BagToSet(wire) \subseteq Sync)' /\ (\A g \in Files \ behind : InStep(g))'
  BY InStepStays DEF CreateFolder, remote
<1>2. (\A f \in Files \ unsaved : Kept(f))'
  BY KeptStays DEF CreateFolder
<1>3. TypeOK'
  BY <1>1 DEF BaseInv, TypeOK, CreateFolder, remote, editor, bounds
<1> QED
  BY <1>1, <1>2, <1>3 DEF BaseInv

\* A file that disappears under the editor has nothing to be kept as.
LEMMA KeptShrinks ==
    ASSUME BaseInv, UNCHANGED editor, \A f \in Files : local'[f] \in {Absent, local[f]}
    PROVE  (\A f \in Files \ unsaved : Kept(f))'
<1> SUFFICES ASSUME NEW f \in Files \ unsaved PROVE Kept(f)'
  BY DEF editor
<1>1. Kept(f) /\ UNCHANGED <<cache, pending, puts>>
  BY DEF BaseInv, editor
<1> QED
  BY <1>1 DEF Kept, Saving, Exists

LEMMA DeleteFileStep ==
    ASSUME BaseInv, NEW f \in Files, DeleteFile(f)
    PROVE  BaseInv'
<1>1. /\ local' = [local EXCEPT ![f] = Absent] /\ local \in [Files -> Contents]
      /\ Absent \in Contents
  BY KnowledgeBaseAssumption DEF DeleteFile, BaseInv, TypeOK, Absent, Contents
<1>2. /\ IsABag(wire)' /\ (BagToSet(wire) \subseteq Sync)' /\ behind' \subseteq Files
      /\ (\A g \in Files \ behind : InStep(g))'
  <2>1. PICK msgs : msgs = {Delete({f})}
    OBVIOUS
  <2>2. msgs \in SUBSET Sync /\ Disjoint(msgs)
    BY <1>1, <2>1 DEF Delete, Sync, Disjoint
  <2>3. \A m \in msgs : \A g \in m.files : local'[g] = m.content
    BY <1>1, <2>1 DEF Delete
  <2>4. \A g \in Files \ UNION {m.files : m \in msgs} : local'[g] = local[g]
    BY <1>1, <2>1 DEF Delete
  <2>5. Send(msgs) /\ UNCHANGED <<sandbox, phase>>
    BY <2>1 DEF DeleteFile, remote
  <2> QED
    BY <2>2, <2>3, <2>4, <2>5, SendKeeps
<1>3. TypeOK'
  BY <1>1, <1>2 DEF BaseInv, TypeOK, DeleteFile, remote, editor, bounds
<1>4. (\A g \in Files \ unsaved : Kept(g))'
  <2>1. \A g \in Files : local'[g] \in {Absent, local[g]}
    BY <1>1
  <2> QED
    BY <2>1, KeptShrinks DEF DeleteFile
<1> QED
  BY <1>2, <1>3, <1>4 DEF BaseInv

LEMMA DeleteFolderStep ==
    ASSUME BaseInv, NEW d \in Dirs, DeleteFolder(d)
    PROVE  BaseInv'
<1>1. /\ \A g \in Files : local'[g] = IF g \in Under(d) THEN Absent ELSE local[g]
      /\ local' \in [Files -> Contents] /\ Absent \in Contents /\ Under(d) \subseteq Files
  BY KnowledgeBaseAssumption
     DEF DeleteFolder, Apply, Delete, BaseInv, TypeOK, Absent, Contents, Under
<1>2. /\ IsABag(wire)' /\ (BagToSet(wire) \subseteq Sync)' /\ behind' \subseteq Files
      /\ (\A g \in Files \ behind : InStep(g))'
  <2>1. PICK msgs : msgs = {Delete(Under(d))}
    OBVIOUS
  <2>2. msgs \in SUBSET Sync /\ Disjoint(msgs)
    BY <1>1, <2>1 DEF Delete, Sync, Disjoint
  <2>3. \A m \in msgs : \A g \in m.files : local'[g] = m.content
    BY <1>1, <2>1 DEF Delete
  <2>4. \A g \in Files \ UNION {m.files : m \in msgs} : local'[g] = local[g]
    BY <1>1, <2>1 DEF Delete
  <2>5. Send(msgs) /\ UNCHANGED <<sandbox, phase>>
    BY <2>1 DEF DeleteFolder, remote
  <2> QED
    BY <2>2, <2>3, <2>4, <2>5, SendKeeps
<1>3. TypeOK'
  <2>1. \A f \in Files : local'[f] # Absent => f[1] \in folders'
    BY <1>1 DEF DeleteFolder, Under, BaseInv, TypeOK
  <2> QED
    BY <1>1, <1>2, <2>1 DEF BaseInv, TypeOK, DeleteFolder, remote, editor, bounds
<1>4. (\A g \in Files \ unsaved : Kept(g))'
  <2>1. \A g \in Files : local'[g] \in {Absent, local[g]}
    BY <1>1
  <2> QED
    BY <2>1, KeptShrinks DEF DeleteFolder
<1> QED
  BY <1>2, <1>3, <1>4 DEF BaseInv

LEMMA RenameFileStep ==
    ASSUME BaseInv, NEW f \in Files, NEW g \in Files, RenameFile(f, g)
    PROVE  BaseInv'
<1>1. /\ f # g /\ local \in [Files -> Contents] /\ local[f] # Absent
      /\ local' = [local EXCEPT ![f] = Absent, ![g] = local[f]]
      /\ Absent \in Contents /\ g[1] \in Dirs
  BY KnowledgeBaseAssumption DEF RenameFile, Exists, BaseInv, TypeOK, Absent, Contents, Files
<1>2. /\ IsABag(wire)' /\ (BagToSet(wire) \subseteq Sync)' /\ behind' \subseteq Files
      /\ (\A h \in Files \ behind : InStep(h))'
  <2>0. PICK v : v = local[f]
    OBVIOUS
  <2>1. PICK msgs : msgs = {Delete({f}), Write(g, v)}
    OBVIOUS
  <2>2. msgs \in SUBSET Sync /\ Disjoint(msgs)
    BY <1>1, <2>0, <2>1 DEF Delete, Write, Sync, Disjoint
  <2>3. \A m \in msgs : \A h \in m.files : local'[h] = m.content
    BY <1>1, <2>0, <2>1 DEF Delete, Write
  <2>4. \A h \in Files \ UNION {m.files : m \in msgs} : local'[h] = local[h]
    BY <1>1, <2>1 DEF Delete, Write
  <2>5. Send(msgs) /\ UNCHANGED <<sandbox, phase>>
    BY <2>0, <2>1 DEF RenameFile, remote
  <2> QED
    BY <2>2, <2>3, <2>4, <2>5, SendKeeps
<1>3. /\ cache' \in [Files -> Contents] /\ unsaved' \subseteq Files
      /\ UNCHANGED <<pending, puts>>
      /\ (\A h \in Files \ unsaved : Kept(h))'
  <2>1. PICK old, to : old = {f} /\ to = [h \in {f} |-> g]
    OBVIOUS
  <2>2. /\ old \in SUBSET Files /\ to \in [old -> Files] /\ Relabel(to)
        /\ to[f] = g /\ {to[h] : h \in old} = {g}
        /\ \A h, k \in old : to[h] = to[k] => h = k
    BY <2>1 DEF RenameFile
  <2>3. /\ \A h \in old : local'[to[h]] = local[h]
        /\ \A h \in Files \ (old \cup {to[k] : k \in old}) : local'[h] = local[h]
    BY <1>1, <2>1, <2>2
  <2> QED
    BY <2>2, <2>3, RelabelKeeps
<1>4. TypeOK'
  <2>1. \A h \in Files : local'[h] # Absent => h[1] \in folders'
    BY <1>1 DEF RenameFile, BaseInv, TypeOK
  <2>2. local' \in [Files -> Contents]
    BY <1>1
  <2> QED
    BY <1>1, <1>2, <1>3, <2>1, <2>2 DEF BaseInv, TypeOK, RenameFile, remote, bounds
<1> QED
  BY <1>2, <1>3, <1>4 DEF BaseInv

\* A folder keeps the names of its files: those under d and those under e go in pairs, and
\* nothing is under e while there is no such folder.
LEMMA RenameFolderStep ==
    ASSUME BaseInv, NEW d \in Dirs, NEW e \in Dirs, RenameFolder(d, e)
    PROVE  BaseInv'
<1> DEFINE moved(f) == <<e, f[2]>>
<1>1. d # e /\ local \in [Files -> Contents] /\ Absent \in Contents
  BY KnowledgeBaseAssumption DEF RenameFolder, BaseInv, TypeOK, Absent, Contents
<1>2. /\ local' \in [Files -> Contents]
      /\ \A f \in Under(d) : f \in Files /\ moved(f) \in Under(e) /\ f = <<d, f[2]>>
      /\ \A f \in Under(e) : f \in Files /\ <<d, f[2]>> \in Under(d) /\ moved(<<d, f[2]>>) = f
  BY <1>1 DEF RenameFolder, Under, Files
<1>3. /\ \A f \in Under(d) : local'[f] = Absent /\ local'[moved(f)] = local[f]
      /\ \A f \in Files \ (Under(d) \cup Under(e)) : local'[f] = local[f]
  BY <1>1, <1>2 DEF RenameFolder, Under
<1>4. \A f \in Under(e) : local[f] = Absent
  BY DEF RenameFolder, BaseInv, TypeOK, Under
<1>5. /\ IsABag(wire)' /\ (BagToSet(wire) \subseteq Sync)' /\ behind' \subseteq Files
      /\ (\A f \in Files \ behind : InStep(f))'
  <2>1. PICK to : to = [f \in Under(d) |-> <<e, f[2]>>]
    OBVIOUS
  <2>2. PICK writes : writes = {Write(to[f], local[f]) : f \in {g \in Under(d) : Exists(g)}}
    OBVIOUS
  <2>0. PICK del : del = Delete(Under(d)) /\ del.files = Under(d) /\ del.content = Absent
    <3>1. PICK u : u = Under(d)
      OBVIOUS
    <3>2. Delete(u).files = u /\ Delete(u).content = Absent
      BY DEF Delete
    <3> QED
      BY <3>1, <3>2
  <2>3. PICK msgs : msgs = {del} \cup writes
    OBVIOUS
  <2>4. \A m \in writes : \E f \in Under(d) : /\ m.files = {moved(f)} /\ m.content = local[f]
                                              /\ m = Write(moved(f), local[f])
    BY <2>1, <2>2 DEF Write
  <2>5. msgs \in SUBSET Sync
    <3>1. del \in Sync
      BY <1>1, <1>2, <2>0 DEF Delete, Sync
    <3>2. \A m \in writes : m \in Sync
      <4> SUFFICES ASSUME NEW m \in writes PROVE m \in Sync
        OBVIOUS
      <4>1. PICK f \in Under(d) : m = Write(moved(f), local[f])
        BY <2>4
      <4>2. moved(f) \in Files /\ local[f] \in Contents
        BY <1>1, <1>2
      <4> QED
        BY <4>1, <4>2 DEF Write, Sync
    <3> QED
      BY <2>3, <3>1, <3>2
  <2>6. Disjoint(msgs)
    <3>0. \A f \in Under(d) : moved(f) \notin Under(d)
      BY <1>1 DEF Under
    <3>1. \A m \in writes : m.files \cap Under(d) = {}
      BY <2>4, <3>0
    <3>2. \A m, n \in writes : m.files \cap n.files # {} => m = n
      <4> SUFFICES ASSUME NEW m \in writes, NEW n \in writes, m.files \cap n.files # {} PROVE m = n
        OBVIOUS
      <4>1. PICK f \in Under(d) : m.files = {moved(f)} /\ m = Write(moved(f), local[f])
        BY <2>4
      <4>2. PICK g \in Under(d) : n.files = {moved(g)} /\ n = Write(moved(g), local[g])
        BY <2>4
      <4>3. f = g
        BY <1>2, <4>1, <4>2
      <4> QED
        BY <4>1, <4>2, <4>3
    <3> QED
      BY <2>0, <2>3, <3>1, <3>2 DEF Disjoint
  <2>7. \A m \in msgs : \A f \in m.files : local'[f] = m.content
    <3> SUFFICES ASSUME NEW m \in msgs, NEW f \in m.files PROVE local'[f] = m.content
      OBVIOUS
    <3>1. CASE m = del
      BY <1>3, <2>0, <3>1
    <3>2. CASE m \in writes
      <4>1. PICK g \in Under(d) : m.files = {moved(g)} /\ m.content = local[g]
        BY <2>4, <3>2
      <4> QED
        BY <1>3, <4>1
    <3> QED
      BY <2>3, <3>1, <3>2
  <2>8. \A f \in Files \ UNION {m.files : m \in msgs} : local'[f] = local[f]
    <3> SUFFICES ASSUME NEW f \in Files, \A m \in msgs : f \notin m.files PROVE local'[f] = local[f]
      OBVIOUS
    <3>1. f \notin Under(d)
      BY <2>0, <2>3
    <3>2. CASE f \in Under(e)
      <4>1. PICK g \in Under(d) : moved(g) = f
        BY <1>2, <3>2
      <4>2. ~Exists(g)
        <5>1. SUFFICES ASSUME Exists(g) PROVE FALSE
          OBVIOUS
        <5>2. Write(to[g], local[g]) \in msgs
          BY <2>2, <2>3, <5>1
        <5> QED
          BY <2>1, <4>1, <5>2 DEF Write
      <4> QED
        BY <1>3, <1>4, <3>2, <4>1, <4>2 DEF Exists
    <3> QED
      BY <1>3, <3>1, <3>2
  <2>9. Send(msgs) /\ UNCHANGED <<sandbox, phase>>
    BY <2>0, <2>1, <2>2, <2>3 DEF RenameFolder, remote
  <2> QED
    BY <2>5, <2>6, <2>7, <2>8, <2>9, SendKeeps
<1>6. /\ cache' \in [Files -> Contents] /\ unsaved' \subseteq Files
      /\ UNCHANGED <<pending, puts>>
      /\ (\A f \in Files \ unsaved : Kept(f))'
  <2>1. PICK old, to : old = Under(d) /\ to = [f \in Under(d) |-> <<e, f[2]>>]
    OBVIOUS
  <2>2. \A f \in old : to[f] = moved(f)
    BY <2>1
  <2>3. /\ old \in SUBSET Files /\ to \in [old -> Files] /\ Relabel(to)
        /\ \A f, g \in old : to[f] = to[g] => f = g
    BY <1>2, <2>1 DEF RenameFolder, Under
  <2>4. \A f \in Under(e) : f \in {to[g] : g \in old}
    BY <1>2, <2>1, <2>2
  <2>5. /\ \A f \in old : local'[to[f]] = local[f]
        /\ \A f \in Files \ (old \cup {to[g] : g \in old}) : local'[f] = local[f]
    BY <1>3, <2>1, <2>2, <2>4
  <2> QED
    BY <2>3, <2>5, RelabelKeeps
<1>7. TypeOK'
  <2>1. \A f \in Files : local'[f] # Absent => f[1] \in folders'
    BY <1>1, <1>3 DEF RenameFolder, BaseInv, TypeOK, Under
  <2> QED
    BY <1>2, <1>5, <1>6, <2>1 DEF BaseInv, TypeOK, RenameFolder, remote, bounds
<1> QED
  BY <1>5, <1>6, <1>7 DEF BaseInv

\* What neither disk nor editor see: TypeOK asks for the sandbox and the history.
LEMMA RemoteType ==
    ASSUME BaseInv, UNCHANGED <<disk, editor>>, Rare \/ NewContent \/ UNCHANGED bounds,
           sandbox' \in [Files -> Contents], phase' \in {"off", "starting", "ready"},
           (BagToSet(wire) \subseteq Sync)', pull' = None \/ pull' \in [Files -> Contents],
           behind' \subseteq Files
    PROVE  TypeOK' /\ (\A f \in Files \ unsaved : Kept(f))'
<1>1. edits' \in Contents /\ rare' \in 0 .. MaxRare
  BY BoundsStay DEF BaseInv
<1>2. (\A f \in Files \ unsaved : Kept(f))'
  BY KeptStays DEF disk
<1> QED
  BY <1>1, <1>2 DEF BaseInv, TypeOK, disk, editor

LEMMA StartSandboxStep ==
    ASSUME BaseInv, NEW uploaded \in BOOLEAN, StartSandbox(uploaded)
    PROVE  BaseInv'
<1>1. /\ sandbox' = [f \in Files |-> IF uploaded THEN local[f] ELSE Absent]
      /\ phase = "off" /\ phase' = "starting" /\ UNCHANGED <<local, wire>>
  BY DEF StartSandbox, disk
<1>2. sandbox' \in [Files -> Contents] /\ behind' \subseteq Files
  BY <1>1, KnowledgeBaseAssumption DEF BaseInv, TypeOK, Contents, Absent, StartSandbox
<1>3. IsABag(wire)' /\ (BagToSet(wire) \subseteq Sync)'
  BY <1>1 DEF BaseInv, TypeOK, BagToSet
<1>4. TypeOK' /\ (\A f \in Files \ unsaved : Kept(f))'
  BY <1>1, <1>2, <1>3, RemoteType DEF StartSandbox, BaseInv, TypeOK
<1>5. ASSUME NEW f \in Files \ behind' PROVE InStep(f)'
  <2>1. InFlight(f) => f \notin behind
    BY <1>5 DEF StartSandbox
  <2>2. sandbox'[f] = local[f]
    BY <1>1, <1>5 DEF StartSandbox, Exists
  <2>3. InFlight(f) => InStep(f)
    BY <2>1, <1>5 DEF BaseInv
  <2> QED
    BY <1>1, <2>2, <2>3 DEF InStep, About, InFlight, BagToSet
<1> QED
  BY <1>3, <1>4, <1>5 DEF BaseInv

LEMMA SandboxReadyStep == BaseInv /\ SandboxReady => BaseInv'
<1> SUFFICES ASSUME BaseInv, SandboxReady PROVE BaseInv'
  OBVIOUS
<1>1. UNCHANGED <<local, sandbox, wire, behind>> /\ phase = "starting" /\ phase' = "ready"
  BY DEF SandboxReady, disk
<1>2. IsABag(wire)' /\ (BagToSet(wire) \subseteq Sync)' /\ (\A f \in Files \ behind : InStep(f))'
  BY <1>1 DEF BaseInv, TypeOK, InStep, About, InFlight, BagToSet
<1>3. TypeOK' /\ (\A f \in Files \ unsaved : Kept(f))'
  BY <1>1, <1>2, RemoteType DEF SandboxReady, BaseInv, TypeOK
<1> QED
  BY <1>2, <1>3 DEF BaseInv

LEMMA SuspendSandboxStep == BaseInv /\ SuspendSandbox => BaseInv'
<1> SUFFICES ASSUME BaseInv, SuspendSandbox PROVE BaseInv'
  OBVIOUS
<1>1. UNCHANGED <<local, wire, behind>> /\ phase' = "off" /\ sandbox' = [f \in Files |-> Absent]
  BY DEF SuspendSandbox, disk
<1>2. IsABag(wire)' /\ (BagToSet(wire) \subseteq Sync)' /\ (\A f \in Files \ behind : InStep(f))'
  BY <1>1 DEF BaseInv, TypeOK, InStep, About, InFlight, BagToSet
<1>3. sandbox' \in [Files -> Contents]
  BY <1>1, KnowledgeBaseAssumption DEF Absent, Contents
<1>4. TypeOK' /\ (\A f \in Files \ unsaved : Kept(f))'
  BY <1>1, <1>2, <1>3, RemoteType DEF SuspendSandbox, BaseInv, TypeOK
<1> QED
  BY <1>2, <1>4 DEF BaseInv

\* A message that leaves the wire, however it ends.
LEMMA TakeStep ==
    ASSUME BaseInv, NEW m \in BagToSet(wire), DeliverSync(m) \/ DropDelete(m) \/ SyncFails(m)
    PROVE  BaseInv'
<1>1. m \in Sync /\ m.files \subseteq Files /\ m.content \in Contents
  BY DEF BaseInv, TypeOK, Sync
<1>2. CASE DeliverSync(m)
  <2>1. /\ \A f \in m.files : sandbox'[f] = m.content
        /\ \A f \in Files \ m.files : sandbox'[f] = sandbox[f]
        /\ sandbox' \in [Files -> Contents]
    BY <1>1, <1>2 DEF DeliverSync, Apply, BaseInv, TypeOK
  <2>2. Taken(m) /\ UNCHANGED <<local, phase, behind>> /\ behind \subseteq Files
    BY <1>2 DEF DeliverSync, disk, BaseInv, TypeOK
  <2>3. /\ IsABag(wire)' /\ (BagToSet(wire) \subseteq Sync)'
        /\ (\A f \in Files \ behind : InStep(f))'
    BY <2>1, <2>2, TakeKeeps
  <2>4. TypeOK' /\ (\A f \in Files \ unsaved : Kept(f))'
    BY <1>2, <2>1, <2>2, <2>3, RemoteType DEF DeliverSync, BaseInv, TypeOK
  <2> QED
    BY <2>3, <2>4 DEF BaseInv
<1>3. CASE DropDelete(m) \/ SyncFails(m)
  <2>1. /\ Taken(m) /\ UNCHANGED <<local, phase, sandbox>>
        /\ (behind' = behind /\ phase = "off") \/ behind' = behind \cup m.files
    BY <1>3 DEF DropDelete, SyncFails, disk, remote
  <2>2. /\ behind \subseteq behind' /\ behind' \subseteq Files
        /\ \A f \in m.files \ behind' : phase # "off" => sandbox'[f] = m.content
        /\ \A f \in Files \ m.files : sandbox'[f] = sandbox[f]
    BY <1>1, <2>1 DEF BaseInv, TypeOK
  <2>3. /\ IsABag(wire)' /\ (BagToSet(wire) \subseteq Sync)'
        /\ (\A f \in Files \ behind : InStep(f))'
    BY <2>1, <2>2, TakeKeeps
  <2>4. TypeOK' /\ (\A f \in Files \ unsaved : Kept(f))'
    BY <1>3, <2>1, <2>2, <2>3, RemoteType DEF DropDelete, SyncFails, BaseInv, TypeOK
  <2> QED
    BY <2>3, <2>4 DEF BaseInv
<1> QED
  BY <1>2, <1>3

LEMMA AgentChangesStep ==
    ASSUME BaseInv, NEW f \in Files, AgentChanges(f)
    PROVE  BaseInv'
<1>1. /\ UNCHANGED <<local, phase, wire>> /\ behind' = behind \cup {f}
      /\ NewContent \/ Rare
      /\ sandbox' = [sandbox EXCEPT ![f] = edits'] \/ sandbox' = [sandbox EXCEPT ![f] = Absent]
  BY DEF AgentChanges, disk
<1>2. edits' \in Contents /\ Absent \in Contents
  BY <1>1, BoundsStay, KnowledgeBaseAssumption DEF BaseInv, Contents, Absent
<1>3. sandbox' \in [Files -> Contents] /\ \A g \in Files \ {f} : sandbox'[g] = sandbox[g]
  BY <1>1, <1>2 DEF BaseInv, TypeOK
<1>4. IsABag(wire)' /\ (BagToSet(wire) \subseteq Sync)' /\ (\A g \in Files \ behind : InStep(g))'
  BY <1>1, <1>3 DEF BaseInv, TypeOK, InStep, About, InFlight, BagToSet
<1>5. TypeOK' /\ (\A g \in Files \ unsaved : Kept(g))'
  BY <1>1, <1>3, <1>4, RemoteType DEF AgentChanges, BaseInv, TypeOK
<1> QED
  BY <1>4, <1>5 DEF BaseInv

LEMMA PullReadStep == BaseInv /\ PullRead => BaseInv'
<1> SUFFICES ASSUME BaseInv, PullRead PROVE BaseInv'
  OBVIOUS
<1>1. IsABag(wire)' /\ (BagToSet(wire) \subseteq Sync)' /\ (\A f \in Files \ behind : InStep(f))'
  BY InStepStays DEF PullRead, disk, remote
<1>2. TypeOK' /\ (\A f \in Files \ unsaved : Kept(f))'
  BY <1>1, RemoteType DEF PullRead, remote, BaseInv, TypeOK
<1> QED
  BY <1>1, <1>2 DEF BaseInv

LEMMA PullWriteStep == BaseInv /\ PullWrite => BaseInv'
<1> SUFFICES ASSUME BaseInv, PullWrite PROVE BaseInv'
  OBVIOUS
<1> DEFINE got == {f \in Files : pull[f] # Absent}
<1>1. pull \in [Files -> Contents] /\ pull' = None
  BY DEF PullWrite, BaseInv, TypeOK
<1>2. /\ local' = [f \in Files |-> IF f \in got THEN pull[f] ELSE local[f]]
      /\ folders' = folders \cup {f[1] : f \in got}
      /\ unsaved' = unsaved \cup {f \in got : pull[f] # local[f]}
      /\ behind' = (behind \ got) \cup {f \in got : sandbox[f] # pull[f] \/ InFlight(f)}
      /\ UNCHANGED <<sandbox, phase, wire, cache, pending, puts, edits, rare>>
  BY DEF PullWrite, remote, bounds
<1>3. \A f \in Files : f[1] \in Dirs
  BY DEF Files
<1>4. IsABag(wire)' /\ (BagToSet(wire) \subseteq Sync)'
  BY <1>2 DEF BaseInv, TypeOK, BagToSet
<1>5. TypeOK'
  <2>1. local' \in [Files -> Contents]
    BY <1>1, <1>2 DEF BaseInv, TypeOK
  <2>2. \A f \in Files : local'[f] # Absent => f[1] \in folders'
    BY <1>2 DEF BaseInv, TypeOK
  <2>3. folders' \subseteq Dirs
    BY <1>2, <1>3 DEF BaseInv, TypeOK
  <2> QED
    BY <1>1, <1>2, <1>4, <2>1, <2>2, <2>3 DEF BaseInv, TypeOK
<1>6. ASSUME NEW f \in Files \ behind' PROVE InStep(f)'
  <2>1. CASE f \in got
    <3>1. sandbox[f] = pull[f] /\ ~InFlight(f) /\ local'[f] = pull[f]
      BY <1>2, <1>6, <2>1
    <3> QED
      BY <1>2, <3>1 DEF InStep, About, InFlight, BagToSet
  <2>2. CASE f \notin got
    <3>1. InStep(f) /\ local'[f] = local[f]
      BY <1>2, <1>6, <2>2 DEF BaseInv
    <3> QED
      BY <1>2, <3>1 DEF InStep, About, InFlight, BagToSet
  <2> QED
    BY <2>1, <2>2
<1>7. ASSUME NEW f \in Files \ unsaved' PROVE Kept(f)'
  <2>1. Kept(f) /\ local'[f] = local[f]
    BY <1>2, <1>7 DEF BaseInv
  <2> QED
    BY <1>2, <2>1 DEF Kept, Saving, Exists
<1> QED
  BY <1>4, <1>5, <1>6, <1>7 DEF BaseInv

LEMMA BaseStep == BaseInv /\ [Next]_kbVars => BaseInv'
<1> SUFFICES ASSUME BaseInv, [Next]_kbVars PROVE BaseInv'
  OBVIOUS
<1>1. CASE UNCHANGED kbVars
  <2>1. IsABag(wire)' /\ (BagToSet(wire) \subseteq Sync)' /\ (\A f \in Files \ behind : InStep(f))'
    BY <1>1, InStepStays DEF kbVars, disk, remote
  <2>2. TypeOK' /\ (\A f \in Files \ unsaved : Kept(f))'
    BY <1>1, <2>1, RemoteType DEF kbVars, remote, BaseInv, TypeOK
  <2> QED
    BY <2>1, <2>2 DEF BaseInv
<1>2. ASSUME NEW f \in Files, Type(f) \/ CreateFile(f) \/ DeleteFile(f) \/ AgentChanges(f)
      PROVE  BaseInv'
  BY <1>2, TypeStep, CreateFileStep, DeleteFileStep, AgentChangesStep
<1>3. ASSUME NEW f \in Files, NEW g \in Files, RenameFile(f, g) PROVE BaseInv'
  BY <1>3, RenameFileStep
<1>4. ASSUME NEW d \in Dirs, CreateFolder(d) \/ DeleteFolder(d) PROVE BaseInv'
  BY <1>4, CreateFolderStep, DeleteFolderStep
<1>5. ASSUME NEW d \in Dirs, NEW e \in Dirs, RenameFolder(d, e) PROVE BaseInv'
  BY <1>5, RenameFolderStep
<1>6. ASSUME NEW p \in puts, PutFile(p) \/ PutFails(p) PROVE BaseInv'
  BY <1>6, PutFileStep, PutFailsStep
<1>7. ASSUME NEW uploaded \in BOOLEAN, StartSandbox(uploaded) PROVE BaseInv'
  BY <1>7, StartSandboxStep
<1>8. ASSUME NEW m \in BagToSet(wire), DeliverSync(m) \/ DropDelete(m) \/ SyncFails(m)
      PROVE  BaseInv'
  BY <1>8, TakeStep
<1>9. CASE SaveFires \/ SandboxReady \/ SuspendSandbox \/ PullRead \/ PullWrite
  BY <1>9, SaveFiresStep, SandboxReadyStep, SuspendSandboxStep, PullReadStep, PullWriteStep
<1> QED
  BY <1>1, <1>2, <1>3, <1>4, <1>5, <1>6, <1>7, <1>8, <1>9 DEF Next

\* In either behaviour the knowledge base starts and goes on like its own specification.
LEMMA BaseAlways == ClientSpec => []BaseInv
<1>1. ClientInit => BaseInv
  BY BaseInit DEF ClientInit
<1>2. BaseInv /\ [ClientNext]_clientVars => BaseInv'
  BY BaseStep DEF ClientNext, clientVars
<1> QED
  BY <1>1, <1>2, PTL DEF ClientSpec

\* A running sandbox holds the dashboard's version of every file about which nothing is under
\* way, unless something crossed, failed or changed it, for any folders and names and any
\* number of contents and of unordered syncs (syncToGateway, lib/knowledge-base.ts:27).
THEOREM MirrorCorrect == ClientSpec => []Mirror
<1>1. BaseInv => Mirror
  BY DEF BaseInv, InStep, Mirror
<1> QED
  BY <1>1, BaseAlways, PTL

\* What the editor shows of an existing file whose saves have arrived is what the directory
\* holds, unless a save of it was dropped or crossed (debouncedSave,
\* knowledge-base/index.tsx:76-93).
THEOREM EditKeptCorrect == ClientSpec => []EditKept
<1>1. BaseInv => EditKept
  BY DEF BaseInv, Kept, EditKept, Saving
<1> QED
  BY <1>1, BaseAlways, PTL

-----------------------------------------------------------------------------
(* UserFiles: what a listing still lacks *)

\* Without a mutation that the page has yet to hear of, what a fetch has read and what the
\* page shows is the directory as it is.
PageInv ==
    /\ done \in Nat /\ currentPath \in Page!Directories
    /\ DOMAIN lists = Page!Directories /\ DOMAIN fetches = Page!Directories
    /\ done = 0 => \A d \in Page!Directories \ astray :
           /\ fetches[d].at = "read" => fetches[d].got = Page!List(d)
           /\ d = currentPath /\ fetches[d].at = "idle" => lists[d] = Page!List(d)

LEMMA PageInit == Page!Init => PageInv
BY DEF Page!Init, PageInv, Page!Directories, Page!Sent, Page!Idle

\* A mutation that the sandbox serves is one the page has yet to hear of.
LEMMA ServedStep ==
    ASSUME PageInv, done' = done + 1, UNCHANGED <<currentPath, lists, fetches>>
    PROVE  PageInv'
BY DEF PageInv

\* Changes nobody told the page of leave every directory astray.
LEMMA AstrayStep ==
    ASSUME PageInv, astray' = Page!Directories, done' \in Nat,
           UNCHANGED <<currentPath, lists, fetches>>
    PROVE  PageInv'
BY DEF PageInv

\* A step that leaves the sandbox's files alone, and brings the listings of the directories
\* it touches up to date, starts their fetch, or gives them up.
LEMMA ListingStep ==
    ASSUME PageInv, UNCHANGED <<userFiles, userFolders, done>>,
           currentPath' \in Page!Directories,
           DOMAIN lists' = DOMAIN lists, DOMAIN fetches' = DOMAIN fetches,
           \A d \in Page!Directories \ astray' :
               /\ fetches'[d].at = "read" => \/ fetches'[d].got = Page!List(d)
                                             \/ d \notin astray /\ fetches'[d] = fetches[d]
               /\ d = currentPath' /\ fetches'[d].at = "idle" =>
                    \/ /\ d \notin astray /\ fetches[d].at = "read"
                       /\ lists'[d] = fetches[d].got
                    \/ /\ d \notin astray /\ d = currentPath
                       /\ fetches'[d] = fetches[d] /\ lists'[d] = lists[d]
    PROVE  PageInv'
<1> USE DEF PageInv
<1>1. \A d \in Page!Directories : Page!List(d)' = Page!List(d)
  BY DEF Page!List
<1>2. ASSUME done = 0, NEW d \in Page!Directories \ astray'
      PROVE  /\ fetches'[d].at = "read" => fetches'[d].got = Page!List(d)
             /\ d = currentPath' /\ fetches'[d].at = "idle" => lists'[d] = Page!List(d)
  BY <1>2
<1> QED
  BY <1>1, <1>2

LEMMA PageStep == PageInv /\ [Page!Next]_pageVars => PageInv'
<1> SUFFICES ASSUME PageInv, [Page!Next]_pageVars PROVE PageInv'
  OBVIOUS
<1> DEFINE D == Page!Directories
<1> USE DEF Page!server, Page!cacheVars, Page!jobVars
<1>0. DOMAIN lists = D /\ DOMAIN fetches = D /\ currentPath \in D /\ done \in Nat
  BY DEF PageInv
<1>1. CASE UNCHANGED pageVars
  BY <1>1, ListingStep, <1>0 DEF pageVars
<1>2. ASSUME NEW d \in D, Page!Navigate(d) PROVE PageInv'
  <2>1. /\ \A e \in D \ {d} : fetches'[e] = fetches[e]
        /\ fetches'[d] = IF fetches[d].at = "idle" THEN Page!Sent ELSE fetches[d]
        /\ DOMAIN fetches' = D /\ currentPath' = d
    BY <1>0, <1>2 DEF Page!Navigate, Page!Mounted
  <2> QED
    BY <1>0, <1>2, <2>1, ListingStep DEF Page!Navigate, Page!Sent
<1>3. CASE Page!Focus
  <2>1. /\ \A e \in D \ {currentPath} : fetches'[e] = fetches[e]
        /\ fetches'[currentPath] = Page!Sent
        /\ DOMAIN fetches' = D
    BY <1>0, <1>3 DEF Page!Focus, Page!Mounted
  <2> QED
    BY <1>0, <1>3, <2>1, ListingStep DEF Page!Focus, Page!Sent
<1>4. ASSUME NEW d \in D, Page!FetchRead(d) PROVE PageInv'
  <2>1. /\ \A e \in D \ {d} : fetches'[e] = fetches[e]
        /\ fetches'[d].at = "read" /\ fetches'[d].got = Page!List(d)
        /\ DOMAIN fetches' = D
    BY <1>0, <1>4 DEF Page!FetchRead
  <2> QED
    BY <1>0, <1>4, <2>1, ListingStep DEF Page!FetchRead
<1>5. ASSUME NEW d \in D, Page!FetchDone(d) PROVE PageInv'
  <2>1. /\ \A e \in D \ {d} : fetches'[e] = fetches[e] /\ lists'[e] = lists[e]
        /\ fetches'[d].at = "idle" /\ lists'[d] = fetches[d].got
        /\ DOMAIN fetches' = D /\ DOMAIN lists' = D
    BY <1>0, <1>5 DEF Page!FetchDone, Page!Idle
  <2> QED
    BY <1>0, <1>5, <2>1, ListingStep DEF Page!FetchDone
<1>6. ASSUME NEW d \in D, Page!FetchFails(d) PROVE PageInv'
  <2>1. /\ \A e \in D \ {d} : fetches'[e] = fetches[e]
        /\ DOMAIN fetches' = D /\ astray' = astray \cup {d}
    BY <1>0, <1>6 DEF Page!FetchFails
  <2> QED
    BY <1>0, <1>6, <2>1, ListingStep DEF Page!FetchFails
<1>7. ASSUME NEW d \in D, Page!Forget(d) PROVE PageInv'
  <2>1. /\ \A e \in D \ {d} : lists'[e] = lists[e]
        /\ DOMAIN lists' = D /\ d # currentPath
    BY <1>0, <1>7 DEF Page!Forget
  <2> QED
    BY <1>0, <1>7, <2>1, ListingStep DEF Page!Forget
<1>8. ASSUME NEW op, NEW p, NEW q, Page!Mutate(op, p, q) PROVE PageInv'
  BY <1>0, <1>8, ListingStep DEF Page!Mutate
<1>9. ASSUME NEW j, Page!JobRuns(j) PROVE PageInv'
  BY <1>9, ServedStep DEF Page!JobRuns
<1>10. ASSUME NEW j, Page!JobFails(j) PROVE PageInv'
  BY <1>0, <1>10, ListingStep DEF Page!JobFails
<1>11. CASE Page!JobLost
  <2>1. done' \in Nat
    BY <1>0, <1>11 DEF Page!JobLost
  <2> QED
    BY <1>11, <2>1, AstrayStep DEF Page!JobLost
<1>12. CASE Page!JobSucceeds
  <2>1. /\ \A e \in D \ {currentPath} : fetches'[e] = fetches[e]
        /\ fetches'[currentPath] = Page!Sent \/ (/\ fetches'[currentPath] = fetches[currentPath]
                                                /\ fetches[currentPath].at # "idle")
        /\ DOMAIN fetches' = D
    BY <1>0, <1>12 DEF Page!JobSucceeds, Page!Invalidated
  <2>2. /\ done' \in Nat /\ UNCHANGED <<lists, currentPath>>
        /\ \A d \in D : fetches[d].at = "read" /\ fetches'[d] = fetches[d] => d \in astray'
    BY <1>0, <1>12 DEF Page!JobSucceeds
  <2>3. Page!Sent.at = "sent"
    BY DEF Page!Sent
  <2>4. \A d \in D \ astray' : fetches'[d].at # "read"
    BY <2>1, <2>2, <2>3
  <2>5. fetches'[currentPath].at # "idle"
    BY <2>1, <2>3
  <2> QED
    BY <1>0, <2>1, <2>2, <2>4, <2>5 DEF PageInv
<1>13. ASSUME NEW p, Page!AgentWrites(p) PROVE PageInv'
  BY <1>0, <1>13, AstrayStep DEF Page!AgentWrites
<1>14. CASE Page!SandboxLost
  BY <1>0, <1>14, AstrayStep DEF Page!SandboxLost
<1> QED
  BY <1>1, <1>2, <1>3, <1>4, <1>5, <1>6, <1>7, <1>8, <1>9, <1>10, <1>11, <1>12, <1>13, <1>14
     DEF Page!Next, Page!HandleUpload, Page!HandleCreateFolder, Page!HandleRename,
         Page!HandleDelete

\* Once its mutations are answered and its fetches done, the page shows the directory as
\* the sandbox has it, for any names and any number of mutations in any order (the hooks
\* invalidate on success, use-files.ts:31-86).
THEOREM ListShownCorrect == ClientSpec => []ListShown
<1>1. ClientInit => PageInv
  BY PageInit DEF ClientInit
<1>2. PageInv /\ [ClientNext]_clientVars => PageInv'
  <2> SUFFICES ASSUME PageInv, [ClientNext]_clientVars PROVE PageInv'
    OBVIOUS
  <2>1. CASE UNCHANGED pageVars
    BY <2>1, PageStep
  <2>2. CASE Page!Next
    BY <2>2, PageStep
  <2> QED
    BY <2>1, <2>2 DEF ClientNext, clientVars
<1>3. PageInv => ListShown
  BY DEF PageInv, ListShown, Page!ListShown
<1> QED
  BY <1>1, <1>2, <1>3, PTL DEF ClientSpec

=============================================================================
