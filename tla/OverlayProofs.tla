---------------------------- MODULE OverlayProofs ----------------------------
(***************************************************************************)
(* Theorems about Overlay, for any number of calls, crashes and failing    *)
(* writes: a change that was answered is on disk unless the disk failed,   *)
(* the store implements the document that DurableDocument promises, and    *)
(* the list of workspaces and the notes about sessions stay well formed.   *)
(***************************************************************************)
EXTENDS Overlay, SequenceTheorems, TLAPS

\* Who holds the lock alone decides how far memory and disk may be apart.
PersistInv ==
    /\ DOMAIN pc = Calls
    /\ up \in BOOLEAN /\ unsaved \in BOOLEAN
    /\ \A c, d \in Calls : {pc[c], pc[d]} \subseteq Holders => c = d
    /\ \A c \in Calls : pc[c] \in Holders => up
    /\ \A c \in Calls : pc[c] = "renaming" => temp = Whole(mem)
    /\ AnsweredIsSaved

\* Every step of a call that neither holds the lock nor takes it, and every
\* step of the world, leaves the document and its files alone.
Aside ==
    /\ UNCHANGED <<mem, disk, temp, up, unsaved>>
    /\ \/ UNCHANGED pc
       \/ \E c \in Calls, label \in {"making", "entering", "done"} :
            pc[c] \notin Holders /\ pc' = [pc EXCEPT ![c] = label]

LEMMA AsideStep == ASSUME PersistInv, Aside  PROVE PersistInv'
<1> USE DEF PersistInv, AnsweredIsSaved, Free, Holders, Loaded, Whole
<1>1. CASE UNCHANGED pc
  BY <1>1 DEF Aside
<1>2. ASSUME NEW c \in Calls, NEW label \in {"making", "entering", "done"},
             pc[c] \notin Holders, pc' = [pc EXCEPT ![c] = label]
      PROVE  PersistInv'
  <2>1. DOMAIN pc' = Calls /\ \A d \in Calls : pc'[d] \in Holders <=> pc[d] \in Holders
    BY <1>2
  <2>2. \A d \in Calls : pc'[d] = "renaming" <=> pc[d] = "renaming"
    BY <1>2
  <2>3. QED
    BY <2>1, <2>2 DEF Aside
<1>3. QED
  BY <1>1, <1>2 DEF Aside

\* Update takes the lock: nobody else is in.
LEMMA UpdateStep ==
    ASSUME PersistInv, NEW c \in Calls, NEW doc, Update(c, doc)
    PROVE  PersistInv'
<1>1. \A d \in Calls : pc[d] \notin Holders
  BY DEF Update, Free
<1>2. DOMAIN pc' = Calls /\ \A d \in Calls : pc'[d] \in Holders <=> d = c
  BY <1>1 DEF Update, PersistInv, Holders
<1>3. pc'[c] = "writing" /\ \A d \in Calls : pc'[d] # "renaming"
  BY <1>1 DEF Update, PersistInv, Holders
<1>4. up /\ up' = up /\ unsaved' = unsaved
  BY DEF Update, Free
<1>5. ~Free'
  BY <1>2 DEF Free
<1>6. QED
  BY <1>2, <1>3, <1>4, <1>5 DEF PersistInv, AnsweredIsSaved, Holders

LEMMA PersistStep ==
    ASSUME PersistInv, NEW c \in Calls, Persist(c)
    PROVE  PersistInv'
<1> USE DEF PersistInv, Holders
<1>1. CASE PersistWrites(c)
  <2>1. DOMAIN pc' = Calls /\ \A d \in Calls : pc'[d] \in Holders <=> d = c
    BY <1>1 DEF PersistWrites
  <2>2. ~Free'
    BY <2>1 DEF Free
  <2>3. QED
    BY <1>1, <2>1, <2>2 DEF PersistWrites, AnsweredIsSaved
<1>2. CASE PersistRenames(c)
  <2>1. DOMAIN pc' = Calls /\ \A d \in Calls : pc'[d] \notin Holders
    BY <1>2 DEF PersistRenames, Answer
  <2>2. Loaded(disk') = mem'
    BY <1>2 DEF PersistRenames, Loaded, Whole
  <2>3. QED
    BY <1>2, <2>1, <2>2 DEF PersistRenames, AnsweredIsSaved
<1>3. CASE PersistFails(c)
  <2>1. DOMAIN pc' = Calls /\ \A d \in Calls : pc'[d] \notin Holders
    BY <1>3 DEF PersistFails, Answer
  <2>2. QED
    BY <1>3, <2>1 DEF PersistFails, AnsweredIsSaved
<1>4. QED
  BY <1>1, <1>2, <1>3 DEF Persist

LEMMA ProcessStep ==
    ASSUME PersistInv, Crash \/ Open \/ Damage
    PROVE  PersistInv'
<1> USE DEF PersistInv, AnsweredIsSaved, Free, Holders
<1>1. CASE Crash
  <2>1. DOMAIN pc' = Calls /\ \A d \in Calls : pc'[d] \notin Holders
    BY <1>1 DEF Crash
  <2>2. QED
    BY <1>1, <2>1 DEF Crash
<1>2. CASE Open
  <2>1. CASE OpenReads
    <3>1. Loaded(disk') = Loaded(disk)
      BY <2>1 DEF OpenReads, Loaded, Broken, Missing
    <3>2. QED
      BY <1>2, <2>1, <3>1 DEF Open, OpenReads
  <2>2. CASE OpenBlind
    BY <1>2, <2>2 DEF Open, OpenBlind
  <2>3. QED
    BY <1>2, <2>1, <2>2 DEF Open
<1>3. CASE Damage
  BY <1>3 DEF Damage, process
<1>4. QED
  BY <1>1, <1>2, <1>3

\* What a call does, sorted by what it does to the store.
LEMMA StepsOfCalls ==
    ASSUME PersistInv, Next
    PROVE  \/ Aside
           \/ \E c \in Calls : \E doc : Update(c, doc)
           \/ \E c \in Calls : Persist(c)
           \/ Crash \/ Open \/ Damage
<1> USE DEF Calls
<1>1. ASSUME NEW c \in Creates, CreateChecks(c) \/ CreateEnters(c)
      PROVE  Aside \/ \E doc : Update(c, doc)
  <2>1. CASE CreateChecks(c)
    BY <1>1, <2>1 DEF CreateChecks, Aside, files, Holders
  <2>2. CASE CreateEnters(c)
    BY <1>1, <2>2 DEF CreateEnters, Aside, files, Free, Answer
  <2>3. QED
    BY <1>1, <2>1, <2>2
<1>2. ASSUME NEW c \in Projects, ProjectChecks(c) \/ ProjectMakes(c) \/ ProjectEnters(c)
      PROVE  Aside \/ \E doc : Update(c, doc)
  <2>1. CASE ProjectChecks(c)
    BY <1>2, <2>1 DEF ProjectChecks, Aside, files, Holders
  <2>2. CASE ProjectMakes(c)
    BY <1>2, <2>2 DEF ProjectMakes, Aside, files, Holders
  <2>3. CASE ProjectEnters(c)
    BY <2>3 DEF ProjectEnters
  <2>4. QED
    BY <1>2, <2>1, <2>2, <2>3
<1>3. ASSUME NEW c \in Notes, NoteAsks(c) \/ SessionRename(c) \/ SessionArchive(c)
      PROVE  Aside \/ \E doc : Update(c, doc)
  <2>1. CASE NoteAsks(c)
    BY <1>3, <2>1 DEF NoteAsks, Aside, files, Holders
  <2>2. CASE SessionRename(c) \/ SessionArchive(c)
    BY <2>2, Zenon DEF SessionRename, SessionArchive
  <2>3. QED
    BY <1>3, <2>1, <2>2
<1>4. ASSUME NEW c \in Edits,
             WorkspacesUpdate(c) \/ WorkspacesRemove(c) \/ PrefsSet(c)
      PROVE  \E doc : Update(c, doc)
  BY <1>4, Zenon DEF WorkspacesUpdate, WorkspacesRemove, PrefsSet
<1>7. ASSUME NEW c \in Edits, NEW id, NEW anchor, WorkspacesReorder(c, id, anchor)
      PROVE  \E doc : Update(c, doc)
  BY <1>7, Zenon DEF WorkspacesReorder
<1>5. CASE World
  BY <1>5 DEF World, RemoveDirectory, CreateSession, DeleteSession, process, Aside
<1>6. QED
  BY <1>1, <1>2, <1>3, <1>4, <1>5, <1>7, Zenon DEF Next

LEMMA PersistInvariant == Spec => []PersistInv
<1>1. Init => PersistInv
  <2>1. Init => Loaded(disk) = mem
    BY DEF Init, Loaded, Missing
  <2>2. Init => DOMAIN pc = Calls /\ \A c \in Calls : pc[c] = "idle"
    BY DEF Init
  <2>3. QED
    BY <2>1, <2>2 DEF Init, PersistInv, AnsweredIsSaved, Holders
<1>2. PersistInv /\ [Next]_vars => PersistInv'
  <2>1. ASSUME PersistInv, UNCHANGED vars  PROVE PersistInv'
    BY <2>1, AsideStep DEF vars, Aside
  <2>2. QED
    BY <2>1, StepsOfCalls, AsideStep, UpdateStep, PersistStep, ProcessStep, Zenon
<1>3. QED
  BY <1>1, <1>2, PTL DEF Spec

\* An answered change is on disk with all that the process serves, unless its
\* last write failed or it began blank over a file it could not read.
THEOREM AnsweredChangesAreSaved == Spec => []AnsweredIsSaved
<1>1. PersistInv => AnsweredIsSaved
  BY DEF PersistInv
<1>2. QED
  BY <1>1, PersistInvariant, PTL

\* The store implements the document: it is replaced as a whole by what was
\* served, by nobody but the process, and a restart serves what was last saved,
\* or begins blank where the read failed and leaves the file as it is.
THEOREM StoreKeepsTheDocument == Spec => KeepsTheDocument
<1> DEFINE mapped == <<up, mem, Loaded(disk)>>
<1>1. Init => Document!DocumentInit
  BY DEF Init, Document!DocumentInit, Loaded, Missing
<1>2. ASSUME PersistInv, [Next]_vars
      PROVE  [Document!DocumentNext]_mapped
  <2> USE DEF Document!DocumentNext
  <2>1. CASE UNCHANGED vars
    BY <2>1 DEF vars, Loaded
  <2>2. CASE Aside
    BY <2>2 DEF Aside, Loaded
  <2>3. ASSUME NEW c \in Calls, NEW doc, Update(c, doc)
        PROVE  Document!DocumentNext
    BY <2>3 DEF Update, Free, files, Document!Change
  <2>4. ASSUME NEW c \in Calls, Persist(c)
        PROVE  [Document!DocumentNext]_mapped
    <3>1. CASE PersistWrites(c) \/ PersistFails(c)
      BY <3>1 DEF PersistWrites, PersistFails, Loaded
    <3>2. CASE PersistRenames(c)
      <4>1. Loaded(disk') = mem /\ mem' = mem /\ up /\ up' = up
        BY <1>2, <2>4, <3>2 DEF PersistRenames, PersistInv, Loaded, Whole, Holders
      <4>2. QED
        BY <4>1 DEF Document!Save, Loaded
    <3>3. QED
      BY <2>4, <3>1, <3>2 DEF Persist
  <2>5. CASE Crash
    BY <2>5 DEF Crash, Document!Stop
  <2>6. CASE Open
    <3>1. CASE OpenReads
      <4>1. Loaded(disk') = Loaded(disk)
        BY <3>1 DEF OpenReads, Loaded, Broken, Missing
      <4>2. QED
        BY <2>6, <3>1, <4>1 DEF Open, OpenReads, Document!Restart
    <3>2. CASE OpenBlind
      BY <2>6, <3>2 DEF Open, OpenBlind, Document!RestartBlind
    <3>3. QED
      BY <2>6, <3>1, <3>2 DEF Open
  <2>7. CASE Damage
    <3>1. Loaded(disk') = Fresh
      BY <2>7 DEF Damage, Loaded, Broken
    <3>2. QED
      BY <2>7, <3>1 DEF Damage, process, Document!Lose
  <2>8. QED
    BY <1>2, <2>1, <2>2, <2>3, <2>4, <2>5, <2>6, <2>7, StepsOfCalls, Zenon
<1>3. QED
  BY <1>1, <1>2, PersistInvariant, PTL DEF Spec, KeepsTheDocument, Document!DocumentSpec

-----------------------------------------------------------------------------
(* Lists with one place taken out or put in *)

LEMMA TakenOut ==
    ASSUME NEW S, NEW q \in Seq(S), NEW k \in DOMAIN q
    PROVE  /\ RemoveAt(q, k) \in Seq(S)
           /\ Len(RemoveAt(q, k)) = Len(q) - 1
           /\ \A i \in 1 .. Len(q) - 1 :
                RemoveAt(q, k)[i] = IF i < k THEN q[i] ELSE q[i + 1]
<1> DEFINE a == SubSeq(q, 1, k - 1)
           b == SubSeq(q, k + 1, Len(q))
           r == RemoveAt(q, k)
<1>1. Len(q) \in Nat /\ k \in 1 .. Len(q)
  OBVIOUS
<1>2. a \in Seq(S) /\ Len(a) = k - 1 /\ \A i \in 1 .. k - 1 : a[i] = q[i]
  BY <1>1
<1>3. b \in Seq(S) /\ Len(b) = Len(q) - k /\ \A i \in 1 .. Len(q) - k : b[i] = q[k + i]
  BY <1>1
<1>4. r = a \o b
  BY DEF RemoveAt
<1> HIDE DEF a, b, r
<1>5. /\ r \in Seq(S)
      /\ Len(r) = Len(a) + Len(b)
      /\ \A i \in 1 .. Len(a) + Len(b) :
            r[i] = IF i <= Len(a) THEN a[i] ELSE b[i - Len(a)]
  BY <1>2, <1>3, <1>4, ConcatProperties
<1>6. ASSUME NEW i \in 1 .. Len(q) - 1
      PROVE  r[i] = IF i < k THEN q[i] ELSE q[i + 1]
  <2>1. i \in 1 .. Len(a) + Len(b)
    BY <1>1, <1>2, <1>3
  <2>2. CASE i < k
    BY <1>1, <1>2, <1>5, <2>1, <2>2
  <2>3. CASE i >= k
    <3>1. i - (k - 1) \in 1 .. Len(q) - k /\ k + (i - (k - 1)) = i + 1
      BY <1>1, <2>3
    <3>2. b[i - (k - 1)] = q[i + 1]
      BY <1>3, <3>1
    <3>3. r[i] = b[i - Len(a)]
      <4>1. ~(i <= Len(a))
        BY <1>1, <1>2, <2>3
      <4>2. QED
        BY <1>5, <2>1, <4>1
    <3>4. ~(i < k)
      BY <1>1, <2>3
    <3>5. QED
      BY <1>2, <3>2, <3>3, <3>4
  <2>4. QED
    BY <1>1, <1>6, <2>2, <2>3
<1>7. Len(r) = Len(q) - 1
  BY <1>1, <1>2, <1>3, <1>5
<1>8. QED
  BY <1>5, <1>6, <1>7 DEF r

\* The sequence r is q with e put in at the place k.
IsWith(r, S, q, k, e) ==
    /\ r \in Seq(S) /\ Len(r) = Len(q) + 1
    /\ \A i \in 1 .. Len(q) + 1 :
            r[i] = IF i < k THEN q[i] ELSE IF i = k THEN e ELSE q[i - 1]

\* That is what InsertAt makes, over the same set S.
LEMMA PutIn ==
    ASSUME NEW S, NEW q \in Seq(S), NEW k \in 1 .. Len(q) + 1, NEW e \in S
    PROVE  IsWith(InsertAt(q, k, e), S, q, k, e)
<1> DEFINE a == SubSeq(q, 1, k - 1)
           b == SubSeq(q, k, Len(q))
           m == a \o <<e>>
           r == InsertAt(q, k, e)
<1>1. Len(q) \in Nat /\ k \in Nat /\ 1 <= k /\ k <= Len(q) + 1
  OBVIOUS
<1>2. a \in Seq(S) /\ Len(a) = k - 1 /\ \A i \in 1 .. k - 1 : a[i] = q[i]
  BY <1>1
<1>3. b \in Seq(S) /\ Len(b) = Len(q) - k + 1
      /\ \A i \in 1 .. Len(q) - k + 1 : b[i] = q[k + i - 1]
  BY <1>1
<1>4. r = m \o b
  BY DEF InsertAt
<1>5. <<e>> \in Seq(S) /\ Len(<<e>>) = 1 /\ <<e>>[1] = e
  OBVIOUS
<1> HIDE DEF a, b, r
<1>6. m \in Seq(S) /\ Len(m) = k
      /\ \A i \in 1 .. k : m[i] = IF i < k THEN q[i] ELSE e
  <2>1. /\ m \in Seq(S) /\ Len(m) = Len(a) + 1
        /\ \A i \in 1 .. Len(a) + 1 :
              m[i] = IF i <= Len(a) THEN a[i] ELSE <<e>>[i - Len(a)]
    BY <1>2, <1>5, ConcatProperties
  <2> HIDE DEF m
  <2>2. Len(m) = k
    BY <1>1, <1>2, <2>1
  <2>3. ASSUME NEW i \in 1 .. k  PROVE m[i] = IF i < k THEN q[i] ELSE e
    <3>1. m[i] = IF i <= k - 1 THEN a[i] ELSE <<e>>[i - (k - 1)]
      BY <1>1, <1>2, <2>1
    <3>2. CASE i < k
      BY <1>1, <1>2, <3>1, <3>2
    <3>3. CASE i = k
      BY <1>1, <1>5, <3>1, <3>3
    <3>4. QED
      BY <3>2, <3>3
  <2>4. QED
    BY <2>1, <2>2, <2>3
<1> HIDE DEF m
<1>7. /\ r \in Seq(S)
      /\ Len(r) = Len(m) + Len(b)
      /\ \A i \in 1 .. Len(m) + Len(b) :
            r[i] = IF i <= Len(m) THEN m[i] ELSE b[i - Len(m)]
  BY <1>3, <1>4, <1>6, ConcatProperties
<1>8. ASSUME NEW i \in 1 .. Len(q) + 1
      PROVE  r[i] = IF i < k THEN q[i] ELSE IF i = k THEN e ELSE q[i - 1]
  <2>1. i \in 1 .. Len(m) + Len(b)
    BY <1>1, <1>3, <1>6
  <2>2. CASE i <= k
    BY <1>1, <1>6, <1>7, <2>1, <2>2
  <2>3. CASE i > k
    <3>1. i - k \in 1 .. Len(q) - k + 1 /\ k + (i - k) - 1 = i - 1
      BY <1>1, <2>3
    <3>2. b[i - k] = q[i - 1]
      BY <1>3, <3>1
    <3>3. QED
      BY <1>1, <1>6, <1>7, <2>1, <2>3, <3>2
  <2>4. QED
    BY <1>1, <1>8, <2>2, <2>3
<1>9. Len(r) = Len(q) + 1
  BY <1>1, <1>3, <1>6, <1>7
<1>10. QED
  BY <1>7, <1>8, <1>9 DEF r, IsWith

\* What was put in can be taken out again.
LEMMA PutInTakenOut ==
    ASSUME NEW S, NEW q \in Seq(S), NEW k \in 1 .. Len(q) + 1, NEW e \in S
    PROVE  RemoveAt(InsertAt(q, k, e), k) = q
<1> DEFINE p == InsertAt(q, k, e)
           r == RemoveAt(p, k)
<1>1. Len(q) \in Nat /\ k \in Nat /\ 1 <= k
  OBVIOUS
<1>2. /\ p \in Seq(S)
      /\ Len(p) = Len(q) + 1
      /\ \A i \in 1 .. Len(q) + 1 :
            p[i] = IF i < k THEN q[i]
                   ELSE IF i = k THEN e ELSE q[i - 1]
  <2> HIDE DEF p
  <2>1. p = InsertAt(q, k, e)
    BY DEF p
  <2>2. IsWith(p, S, q, k, e)
    BY <2>1, PutIn
  <2>3. QED
    BY <2>2 DEF IsWith
<1> HIDE DEF p
<1>3. k \in DOMAIN p
  BY <1>1, <1>2
<1>4. /\ r \in Seq(S) /\ Len(r) = Len(p) - 1
      /\ \A i \in 1 .. Len(p) - 1 : r[i] = IF i < k THEN p[i] ELSE p[i + 1]
  BY <1>2, <1>3, TakenOut
<1> HIDE DEF r
<1>5. ASSUME NEW i \in 1 .. Len(q)  PROVE r[i] = q[i]
  <2>1. r[i] = IF i < k THEN p[i] ELSE p[i + 1]
    BY <1>1, <1>2, <1>4
  <2>2. i \in 1 .. Len(q) + 1 /\ i + 1 \in 1 .. Len(q) + 1 /\ i + 1 - 1 = i
    BY <1>1
  <2>3. QED
    BY <1>1, <1>2, <2>1, <2>2
<1>6. Len(r) = Len(q)
  BY <1>1, <1>2, <1>4
<1>7. r = q
  BY <1>4, <1>5, <1>6, SeqEqual
<1>8. QED
  BY <1>7 DEF r, p

-----------------------------------------------------------------------------
(* What the calls make of the list *)

\* Of two workspaces no two have one id, and where two have one path a project
\* made one of them.
Sound(ws) ==
    \A i, j \in DOMAIN ws : i # j =>
        /\ ws[i].id # ws[j].id
        /\ ws[i].path = ws[j].path => {ws[i].id, ws[j].id} \cap Projects # {}

Named(ws) == {ws[i].id : i \in DOMAIN ws}

\* A list each place of which shows the id and path of a place of its own in a
\* sound list is sound.
LEMMA DrawnIsSound ==
    ASSUME NEW old, NEW new, Sound(old),
           NEW f \in [DOMAIN new -> DOMAIN old],
           \A i, j \in DOMAIN new : f[i] = f[j] => i = j,
           \A i \in DOMAIN new : new[i].id = old[f[i]].id /\ new[i].path = old[f[i]].path
    PROVE  Sound(new) /\ Named(new) \subseteq Named(old)
<1>1. Sound(new)
  BY DEF Sound
<1>2. Named(new) \subseteq Named(old)
  BY DEF Named
<1>3. QED
  BY <1>1, <1>2

LEMMA PositionIsThere ==
    ASSUME NEW ws, NEW id \in Named(ws)
    PROVE  Position(ws, id) \in DOMAIN ws /\ ws[Position(ws, id)].id = id
<1>1. \E i \in DOMAIN ws : ws[i].id = id
  BY DEF Named
<1>2. QED
  BY <1>1 DEF Position

LEMMA RelabelledFacts ==
    ASSUME NEW doc, IsDocument(doc), Sound(doc.workspaces), NEW id, NEW label \in Labels
    PROVE  /\ IsDocument(Relabelled(doc, id, label))
           /\ Sound(Relabelled(doc, id, label).workspaces)
           /\ Named(Relabelled(doc, id, label).workspaces) \subseteq Named(doc.workspaces)
           /\ Relabelled(doc, id, label).rows = doc.rows
<1> DEFINE old == doc.workspaces
           new == [i \in DOMAIN old |-> IF old[i].id = id
                                        THEN [old[i] EXCEPT !.label = label] ELSE old[i]]
           made == Relabelled(doc, id, label)
<1>1. old \in Seq(Workspaces) /\ DOMAIN old = 1 .. Len(old) /\ Len(old) \in Nat
  BY DEF IsDocument
<1>2. \A i \in DOMAIN old : /\ old[i] \in Workspaces /\ new[i] \in Workspaces
                             /\ new[i].id = old[i].id /\ new[i].path = old[i].path
  <2> TAKE i \in DOMAIN old
  <2>1. old[i] \in [id : MadeIds, path : Paths \cup {NoPath}, label : Labels]
    <3> HIDE DEF old, new
    <3>1. old[i] \in Workspaces
      BY <1>1
    <3>2. QED
      BY <3>1 DEF Workspaces
  <2>2. CASE old[i].id = id
    <3>1. new[i] = [old[i] EXCEPT !.label = label]
      BY <2>2
    <3>2. QED
      BY <2>1, <3>1 DEF Workspaces
  <2>3. CASE old[i].id # id
    BY <2>1, <2>3 DEF Workspaces
  <2>4. QED
    BY <2>2, <2>3
<1>3. new \in Seq(Workspaces)
  <2>1. new \in [1 .. Len(old) -> Workspaces]
    BY <1>1, <1>2
  <2>2. QED
    BY <1>1, <2>1
<1>4. /\ made.workspaces = new /\ made.rows = doc.rows /\ made.pref = doc.pref
      /\ DOMAIN made = DOMAIN doc
  <2>1. made = [doc EXCEPT !.workspaces = new]
    BY DEF Relabelled
  <2> HIDE DEF made, new
  <2>2. QED
    BY <2>1 DEF IsDocument
<1>5. Sound(new) /\ Named(new) \subseteq Named(old)
  <2>1. DOMAIN new = DOMAIN old
    OBVIOUS
  <2> HIDE DEF new
  <2>2. Sound(new)
    BY <1>2, <2>1 DEF Sound
  <2>3. QED
    BY <1>2, <2>1, <2>2 DEF Named
<1> HIDE DEF made, new, old
<1>6. IsDocument(made)
  BY <1>3, <1>4 DEF IsDocument
<1>7. /\ IsDocument(made) /\ Sound(made.workspaces)
      /\ Named(made.workspaces) \subseteq Named(old) /\ made.rows = doc.rows
  BY <1>4, <1>5, <1>6
<1>8. QED
  BY <1>7 DEF made, old

LEMMA WithoutFacts ==
    ASSUME NEW doc, IsDocument(doc), Sound(doc.workspaces), NEW id
    PROVE  /\ IsDocument(Without(doc, id))
           /\ Sound(Without(doc, id).workspaces)
           /\ Named(Without(doc, id).workspaces) = Named(doc.workspaces) \ {id}
           /\ Without(doc, id).rows = doc.rows
           /\ \A i \in DOMAIN Without(doc, id).workspaces :
                \E j \in DOMAIN doc.workspaces :
                    /\ Without(doc, id).workspaces[i] = doc.workspaces[j]
                    /\ doc.workspaces[j].id # id
<1> DEFINE old == doc.workspaces
           k == Position(old, id)
           new == RemoveAt(old, k)
           rest == Without(doc, id)
<1>1. Ids(doc) = Named(old)
  BY DEF Ids, Named
<1>2. CASE id \notin Named(old)
  <2>1. rest = doc
    BY <1>1, <1>2 DEF Without
  <2>2. \A j \in DOMAIN old : old[j].id # id
    BY <1>2 DEF Named
  <2>3. QED
    BY <1>2, <2>1, <2>2
<1>3. CASE id \in Named(old)
  <2>1. old \in Seq(Workspaces) /\ DOMAIN old = 1 .. Len(old) /\ Len(old) \in Nat
    BY DEF IsDocument
  <2>2. k \in DOMAIN old /\ old[k].id = id
    BY <1>3, PositionIsThere
  <2>3. /\ rest.workspaces = new /\ rest.rows = doc.rows /\ rest.pref = doc.pref
        /\ DOMAIN rest = DOMAIN doc
    BY <1>1, <1>3 DEF Without, IsDocument
  <2> HIDE DEF rest, k
  <2>4. /\ new \in Seq(Workspaces) /\ Len(new) = Len(old) - 1
        /\ \A i \in 1 .. Len(old) - 1 : new[i] = IF i < k THEN old[i] ELSE old[i + 1]
    BY <2>1, <2>2, TakenOut
  <2> HIDE DEF new, old
  <2> DEFINE f == [i \in 1 .. Len(old) - 1 |-> IF i < k THEN i ELSE i + 1]
  <2>5. DOMAIN new = 1 .. Len(old) - 1
    BY <2>1, <2>4
  <2>6. f \in [DOMAIN new -> DOMAIN old] /\ \A i \in DOMAIN new : f[i] # k
    BY <2>1, <2>2, <2>5
  <2>7. \A i, j \in DOMAIN new : f[i] = f[j] => i = j
    BY <2>1, <2>2, <2>5
  <2>8. \A i \in DOMAIN new : new[i] = old[f[i]]
    BY <2>4, <2>5
  <2> HIDE DEF f
  <2>9. Sound(new) /\ Named(new) \subseteq Named(old)
    BY <2>6, <2>7, <2>8, DrawnIsSound DEF old
  <2>10. \A i \in DOMAIN new : new[i].id # id
    BY <2>2, <2>6, <2>8 DEF Sound, old
  <2>13. ASSUME NEW j \in DOMAIN old, j # k  PROVE \E i \in DOMAIN new : f[i] = j
    <3>1. CASE j < k
      BY <2>1, <2>2, <2>5, <2>13, <3>1 DEF f
    <3>2. CASE j > k
      <4>1. j - 1 \in DOMAIN new /\ f[j - 1] = j
        BY <2>1, <2>2, <2>5, <2>13, <3>2 DEF f
      <4>2. QED
        BY <4>1
    <3>3. QED
      BY <2>1, <2>2, <2>13, <3>1, <3>2
  <2>14. Named(new) = Named(old) \ {id}
    BY <2>2, <2>8, <2>9, <2>10, <2>13 DEF Named
  <2>11. IsDocument(rest)
    BY <2>3, <2>4 DEF IsDocument
  <2>12. QED
    BY <2>3, <2>6, <2>8, <2>9, <2>10, <2>11, <2>14 DEF rest, old
<1>4. QED
  BY <1>2, <1>3

\* What a new entry has to be to keep a list sound.
Apart(e, ws) ==
    \A i \in DOMAIN ws :
        /\ ws[i].id # e.id
        /\ ws[i].path = e.path => {ws[i].id, e.id} \cap Projects # {}

LEMMA PutInIsSound ==
    ASSUME NEW ws \in Seq(Workspaces), Sound(ws), NEW e \in Workspaces, Apart(e, ws),
           NEW k \in 1 .. Len(ws) + 1, NEW new \in Seq(Workspaces),
           Len(new) = Len(ws) + 1,
           \A i \in 1 .. Len(ws) + 1 :
                new[i] = IF i < k THEN ws[i] ELSE IF i = k THEN e ELSE ws[i - 1]
    PROVE  Sound(new) /\ Named(new) \subseteq Named(ws) \cup {e.id}
<1> DEFINE g == [i \in 1 .. Len(ws) + 1 |-> IF i < k THEN i ELSE i - 1]
<1>1. DOMAIN ws = 1 .. Len(ws) /\ DOMAIN new = 1 .. Len(ws) + 1 /\ Len(ws) \in Nat
  OBVIOUS
<1>2. \A i \in DOMAIN new : i # k => g[i] \in DOMAIN ws /\ new[i] = ws[g[i]]
  BY <1>1
<1>3. \A i, j \in DOMAIN new : i # k /\ j # k /\ g[i] = g[j] => i = j
  BY <1>1
<1>4. new[k] = e /\ k \in DOMAIN new
  BY <1>1
<1> HIDE DEF g
<1>5. Sound(new)
  <2> SUFFICES ASSUME NEW i \in DOMAIN new, NEW j \in DOMAIN new, i # j
               PROVE  /\ new[i].id # new[j].id
                      /\ new[i].path = new[j].path =>
                            {new[i].id, new[j].id} \cap Projects # {}
    BY DEF Sound
  <2>1. CASE i = k
    BY <1>2, <1>4, <2>1 DEF Apart
  <2>2. CASE j = k
    BY <1>2, <1>4, <2>2 DEF Apart
  <2>3. CASE i # k /\ j # k
    <3>1. /\ g[i] \in DOMAIN ws /\ new[i] = ws[g[i]]
          /\ g[j] \in DOMAIN ws /\ new[j] = ws[g[j]]
          /\ g[i] # g[j]
      BY <1>2, <1>3, <2>3
    <3>2. QED
      BY <3>1 DEF Sound
  <2>4. QED
    BY <2>1, <2>2, <2>3
<1>6. Named(new) \subseteq Named(ws) \cup {e.id}
  BY <1>2, <1>4 DEF Named
<1>7. QED
  BY <1>5, <1>6

LEMMA WithWorkspaceFacts ==
    ASSUME NEW doc, IsDocument(doc), Sound(doc.workspaces),
           NEW id \in MadeIds, NEW path \in Paths \cup {NoPath}, NEW label \in Labels,
           Apart([id |-> id, path |-> path, label |-> label], doc.workspaces),
           NEW made, made = WithWorkspace(doc, id, path, label)
    PROVE  /\ IsDocument(made) /\ Sound(made.workspaces) /\ made.rows = doc.rows
           /\ Named(made.workspaces) \subseteq Named(doc.workspaces) \cup {id}
<1> DEFINE old == doc.workspaces
           e == [id |-> id, path |-> path, label |-> label]
           new == Append(old, e)
<1>1. old \in Seq(Workspaces) /\ DOMAIN old = 1 .. Len(old) /\ Len(old) \in Nat
  BY DEF IsDocument
<1>2. e \in Workspaces /\ e.id = id /\ e.path = path
  BY DEF Workspaces
<1>3. Apart(e, old)
  OBVIOUS
<1>4. made = [doc EXCEPT !.workspaces = new]
  BY DEF WithWorkspace
<1> HIDE DEF e
<1>5. /\ new \in Seq(Workspaces) /\ Len(new) = Len(old) + 1
      /\ \A i \in 1 .. Len(old) + 1 : new[i] = IF i < Len(old) + 1 THEN old[i] ELSE e
  BY <1>1, <1>2
<1> HIDE DEF new, old
<1>6. Sound(new) /\ Named(new) \subseteq Named(old) \cup {e.id}
  <2> DEFINE k == Len(old) + 1
  <2>1. k \in 1 .. Len(old) + 1
    BY <1>1
  <2>2. \A i \in 1 .. Len(old) + 1 :
            new[i] = IF i < k THEN old[i] ELSE IF i = k THEN e ELSE old[i - 1]
    BY <1>1, <1>5
  <2>3. Sound(old)
    BY DEF old
  <2> HIDE DEF k
  <2>4. QED
    BY <1>1, <1>2, <1>3, <1>5, <2>1, <2>2, <2>3, PutInIsSound
<1>7. made.workspaces = new /\ made.rows = doc.rows /\ made.pref = doc.pref
      /\ DOMAIN made = DOMAIN doc
  BY <1>4 DEF IsDocument
<1>8. IsDocument(made)
  BY <1>5, <1>7 DEF IsDocument
<1>9. QED
  BY <1>2, <1>6, <1>7, <1>8 DEF old

LEMMA ReorderedFacts ==
    ASSUME NEW doc, IsDocument(doc), Sound(doc.workspaces),
           NEW id \in Named(doc.workspaces), NEW anchor
    PROVE  /\ IsDocument(Reordered(doc, id, anchor))
           /\ Sound(Reordered(doc, id, anchor).workspaces)
           /\ Named(Reordered(doc, id, anchor).workspaces) \subseteq Named(doc.workspaces)
           /\ Reordered(doc, id, anchor).rows = doc.rows
<1> DEFINE old == doc.workspaces
           moved == old[Position(old, id)]
           rest == Without(doc, id)
           at == IF anchor \in Ids(rest) THEN Position(rest.workspaces, anchor)
                 ELSE Len(rest.workspaces) + 1
           new == InsertAt(rest.workspaces, at, moved)
           made == Reordered(doc, id, anchor)
<1>1. old \in Seq(Workspaces) /\ Position(old, id) \in DOMAIN old /\ moved.id = id
  BY PositionIsThere DEF IsDocument
<1>2. moved \in Workspaces
  BY <1>1
<1>3. made = [rest EXCEPT !.workspaces = new]
  BY DEF Reordered
<1> HIDE DEF made
<1>4. /\ IsDocument(rest) /\ Sound(rest.workspaces) /\ rest.rows = doc.rows
      /\ Named(rest.workspaces) \subseteq Named(old)
      /\ \A i \in DOMAIN rest.workspaces :
            \E j \in DOMAIN old : rest.workspaces[i] = old[j] /\ old[j].id # id
  BY WithoutFacts
<1> HIDE DEF rest
<1>5. rest.workspaces \in Seq(Workspaces)
  BY <1>4 DEF IsDocument
<1>6. Apart(moved, rest.workspaces)
  <2> SUFFICES ASSUME NEW i \in DOMAIN rest.workspaces
               PROVE  /\ rest.workspaces[i].id # moved.id
                      /\ rest.workspaces[i].path = moved.path =>
                            {rest.workspaces[i].id, moved.id} \cap Projects # {}
    BY DEF Apart
  <2>1. PICK j \in DOMAIN old : rest.workspaces[i] = old[j] /\ old[j].id # id
    BY <1>4
  <2>2. j # Position(old, id)
    BY <1>1, <2>1
  <2>3. QED
    BY <1>1, <2>1, <2>2 DEF Sound
<1>7. at \in 1 .. Len(rest.workspaces) + 1
  <2>1. Ids(rest) = Named(rest.workspaces)
    BY DEF Ids, Named
  <2>2. QED
    BY <1>5, <2>1, PositionIsThere
<1> HIDE DEF at, moved
<1>8. /\ new \in Seq(Workspaces) /\ Len(new) = Len(rest.workspaces) + 1
      /\ \A i \in 1 .. Len(rest.workspaces) + 1 :
            new[i] = IF i < at THEN rest.workspaces[i]
                     ELSE IF i = at THEN moved ELSE rest.workspaces[i - 1]
  <2> DEFINE ws == rest.workspaces
  <2> HIDE DEF ws, new
  <2>1. new = InsertAt(ws, at, moved)
    BY DEF new, ws
  <2>2. ws \in Seq(Workspaces) /\ at \in 1 .. Len(ws) + 1
    BY <1>5, <1>7 DEF ws
  <2>3. /\ new \in Seq(Workspaces) /\ Len(new) = Len(ws) + 1
        /\ \A i \in 1 .. Len(ws) + 1 :
              new[i] = IF i < at THEN ws[i] ELSE IF i = at THEN moved ELSE ws[i - 1]
    <3>1. IsWith(new, Workspaces, ws, at, moved)
      BY <1>2, <2>1, <2>2, PutIn
    <3>2. QED
      BY <3>1 DEF IsWith
  <2>4. QED
    BY <2>3 DEF ws
<1> HIDE DEF new
<1>9. Sound(new) /\ Named(new) \subseteq Named(rest.workspaces) \cup {moved.id}
  BY <1>2, <1>4, <1>5, <1>6, <1>7, <1>8, PutInIsSound
<1>10. /\ made.workspaces = new /\ made.rows = rest.rows /\ made.pref = rest.pref
       /\ DOMAIN made = DOMAIN rest
  BY <1>3, <1>4 DEF IsDocument
<1>11. IsDocument(made)
  BY <1>4, <1>8, <1>10 DEF IsDocument
<1>12. moved.id \in Named(old)
  BY <1>1 DEF moved, Named
<1>13. QED
  BY <1>4, <1>9, <1>10, <1>11, <1>12 DEF made

-----------------------------------------------------------------------------
(* Notes stay well formed, in memory and on disk *)

\* The calls that may have left their workspace somewhere.
Entered == {c \in Calls : pc[c] \in Holders \cup {"done"}}

Formed(doc) ==
    /\ IsDocument(doc)
    /\ Sound(doc.workspaces)
    /\ Named(doc.workspaces) \subseteq Entered
    /\ DOMAIN doc.rows \subseteq known

\* What a call has learnt before it takes the lock.
Asked ==
    \A c \in Calls : pc[c] \in {"making", "entering"} =>
        \/ c \in Creates /\ arg[c] \in Paths \cup {NoPath}
        \/ c \in Projects /\ arg[c] \in Paths
        \/ c \in Notes /\ arg[c] \in known

\* A document is sound wherever it is kept, since any may be served after a
\* restart; its workspaces were made by calls that are past their lock.
NotesInv ==
    /\ TypeOK
    /\ Formed(mem) /\ Formed(disk.doc) /\ Formed(temp.doc)
    /\ Asked

\* A step that forgets no call and no session.
LEMMA FormedStays ==
    ASSUME NEW doc, Formed(doc), Entered \subseteq Entered', known \subseteq known'
    PROVE  /\ IsDocument(doc) /\ Sound(doc.workspaces)
           /\ Named(doc.workspaces) \subseteq Entered'
           /\ DOMAIN doc.rows \subseteq known'
BY DEF Formed

LEMMA FreshIsFormed ==
    /\ IsDocument(Fresh) /\ Sound(Fresh.workspaces)
    /\ Named(Fresh.workspaces) = {} /\ DOMAIN Fresh.rows = {}
<1>1. /\ Fresh.workspaces = <<>> /\ Fresh.rows = <<>> /\ Fresh.pref = None
      /\ DOMAIN Fresh = {"workspaces", "rows", "pref"}
  BY DEF Fresh
<1>2. DOMAIN <<>> = {} /\ <<>> \in Seq(Workspaces)
  OBVIOUS
<1>3. QED
  BY <1>1, <1>2 DEF IsDocument, Sound, Named

\* A call goes on towards its lock, or is answered without it.
LEMMA CallMovesKeeps ==
    ASSUME NotesInv, NEW c \in Calls, NEW label \in {"making", "entering", "done"},
           NEW v \in Paths \cup Sessions \cup {NoPath, None},
           pc[c] \in {"idle", "making", "entering"},
           pc' = [pc EXCEPT ![c] = label], arg' = [arg EXCEPT ![c] = v],
           label # "done" =>
                \/ c \in Creates /\ v \in Paths \cup {NoPath}
                \/ c \in Projects /\ v \in Paths
                \/ c \in Notes /\ v \in known,
           UNCHANGED <<mem, disk, temp, up, unsaved, backup, alive, known>>,
           dirs' \subseteq Paths
    PROVE  NotesInv'
<1>1. pc \in [Calls -> {"idle", "making", "entering", "done"} \cup Holders]
      /\ arg \in [Calls -> Paths \cup Sessions \cup {NoPath, None}]
  BY DEF NotesInv, TypeOK
<1>2. Entered \subseteq Entered'
  BY <1>1 DEF Entered, Holders
<1>3. Formed(mem)' /\ Formed(disk.doc)' /\ Formed(temp.doc)'
  BY <1>2, FormedStays DEF NotesInv, Formed, IsDocument
<1>4. Asked'
  BY <1>1 DEF NotesInv, Asked
<1>5. TypeOK'
  <2>1. pc' \in [Calls -> {"idle", "making", "entering", "done"} \cup Holders]
        /\ arg' \in [Calls -> Paths \cup Sessions \cup {NoPath, None}]
    BY <1>1
  <2>2. QED
    BY <2>1 DEF NotesInv, TypeOK, IsDocument
<1>6. QED
  BY <1>3, <1>4, <1>5 DEF NotesInv

LEMMA UpdateKeeps ==
    ASSUME NotesInv, NEW c \in Calls, NEW doc, Update(c, doc),
           IsDocument(doc), Sound(doc.workspaces),
           Named(doc.workspaces) \subseteq Entered \cup {c},
           DOMAIN doc.rows \subseteq known
    PROVE  NotesInv'
<1>1. pc \in [Calls -> {"idle", "making", "entering", "done"} \cup Holders]
  BY DEF NotesInv, TypeOK
<1>2. /\ mem' = doc /\ pc' = [pc EXCEPT ![c] = "writing"]
      /\ UNCHANGED <<disk, temp, backup, up, unsaved, arg, dirs, alive, known>>
  BY DEF Update, files, world
<1>3. Entered \cup {c} \subseteq Entered'
  BY <1>1, <1>2 DEF Entered, Holders
<1>4. Formed(mem)' /\ Formed(disk.doc)' /\ Formed(temp.doc)'
  <2>1. Formed(mem)'
    BY <1>2, <1>3 DEF Formed, IsDocument
  <2>2. Formed(disk.doc)' /\ Formed(temp.doc)'
    BY <1>2, <1>3, FormedStays DEF NotesInv, Formed, IsDocument
  <2>3. QED
    BY <2>1, <2>2
<1>5. Asked'
  BY <1>1, <1>2 DEF NotesInv, Asked
<1>6. TypeOK'
  <2>1. pc' \in [Calls -> {"idle", "making", "entering", "done"} \cup Holders]
    BY <1>1, <1>2 DEF Holders
  <2>2. IsDocument(mem)'
    BY <1>2 DEF IsDocument
  <2>3. QED
    BY <1>2, <2>1, <2>2 DEF NotesInv, TypeOK, IsDocument
<1>7. QED
  BY <1>4, <1>5, <1>6 DEF NotesInv

\* Files come to hold what memory or another file held, or nothing.
LEMMA FilesMoveKeeps ==
    ASSUME NotesInv, Entered \subseteq Entered',
           mem' \in {mem, disk.doc, Fresh},
           disk' \in {disk, temp, Missing, Broken},
           temp' \in {temp, Whole(mem), Missing, Broken},
           pc' \in [Calls -> {"idle", "making", "entering", "done"} \cup Holders],
           \A c \in Calls : pc'[c] \in {"making", "entering"} => pc[c] = pc'[c],
           {up', unsaved', backup'} \subseteq BOOLEAN,
           UNCHANGED <<arg, dirs, alive, known>>
    PROVE  NotesInv'
<1>1. Formed(mem) /\ Formed(disk.doc) /\ Formed(temp.doc) /\ Formed(Fresh)
  BY FreshIsFormed DEF NotesInv, Formed
<1>2. Formed(mem)' /\ Formed(disk.doc)' /\ Formed(temp.doc)'
  <2>1. mem' \in {mem, disk.doc, Fresh} /\ disk'.doc \in {disk.doc, temp.doc, Fresh}
        /\ temp'.doc \in {temp.doc, mem, Fresh}
    BY DEF Missing, Broken, Whole
  <2>2. ASSUME NEW doc, Formed(doc)
        PROVE  /\ IsDocument(doc) /\ Sound(doc.workspaces)
               /\ Named(doc.workspaces) \subseteq Entered'
               /\ DOMAIN doc.rows \subseteq known'
    BY <2>2, FormedStays
  <2>3. QED
    BY <1>1, <2>1, <2>2 DEF Formed
<1>3. Asked'
  BY DEF NotesInv, Asked
<1>4. TypeOK'
  <2>1. disk'.form \in {"missing", "broken", "whole"} /\ temp'.form \in {"missing", "broken", "whole"}
    BY DEF NotesInv, TypeOK, Missing, Broken, Whole
  <2>2. IsDocument(mem)' /\ IsDocument(disk.doc)' /\ IsDocument(temp.doc)'
    BY <1>2 DEF Formed
  <2>3. arg' \in [Calls -> Paths \cup Sessions \cup {NoPath, None}]
        /\ dirs' \subseteq Paths /\ alive' \subseteq known' /\ known' \subseteq Sessions
    BY DEF NotesInv, TypeOK
  <2>4. QED
    BY <2>1, <2>2, <2>3 DEF TypeOK
<1>5. QED
  BY <1>2, <1>3, <1>4 DEF NotesInv

LEMMA PersistKeeps ==
    ASSUME NotesInv, NEW c \in Calls, Persist(c)
    PROVE  NotesInv'
<1>1. pc \in [Calls -> {"idle", "making", "entering", "done"} \cup Holders]
      /\ {up, unsaved, backup} \subseteq BOOLEAN
  BY DEF NotesInv, TypeOK
<1>2. /\ \E label \in {"renaming", "done"} : pc' = [pc EXCEPT ![c] = label]
      /\ pc[c] \in Holders
      /\ mem' = mem /\ disk' \in {disk, temp}
      /\ temp' \in {temp, Whole(mem), Missing, Broken}
      /\ {up', unsaved', backup'} \subseteq BOOLEAN
      /\ UNCHANGED <<arg, dirs, alive, known>>
  BY <1>1 DEF Persist, PersistWrites, PersistRenames, PersistFails, Answer, Holders, world
<1>3. /\ pc' \in [Calls -> {"idle", "making", "entering", "done"} \cup Holders]
      /\ \A d \in Calls : pc'[d] \in {"making", "entering"} => pc[d] = pc'[d]
      /\ Entered \subseteq Entered'
  BY <1>1, <1>2 DEF Entered, Holders
<1>4. QED
  BY <1>2, <1>3, FilesMoveKeeps

LEMMA ProcessKeeps ==
    ASSUME NotesInv, Crash \/ Open \/ Damage
    PROVE  NotesInv'
<1>1. pc \in [Calls -> {"idle", "making", "entering", "done"} \cup Holders]
      /\ {up, unsaved, backup} \subseteq BOOLEAN
  BY DEF NotesInv, TypeOK
<1>2. CASE Crash
  <2>1. /\ pc' \in [Calls -> {"idle", "making", "entering", "done"} \cup Holders]
        /\ \A d \in Calls : pc'[d] \in {"making", "entering"} => pc[d] = pc'[d]
        /\ Entered \subseteq Entered'
    BY <1>1, <1>2 DEF Crash, Entered, Holders
  <2>2. QED
    BY <1>1, <1>2, <2>1, FilesMoveKeeps DEF Crash, world
<1>3. CASE Open \/ Damage
  <2>1. UNCHANGED pc /\ Entered' = Entered
    BY <1>3 DEF Open, Damage, Entered
  <2>2. mem' \in {mem, disk.doc, Fresh} /\ disk' \in {disk, Missing, Broken}
        /\ temp' = temp /\ {up', unsaved', backup'} \subseteq BOOLEAN
        /\ UNCHANGED <<arg, dirs, alive, known>>
    BY <1>1, <1>3 DEF Open, OpenReads, OpenBlind, Damage, Loaded, process, world
  <2>3. QED
    BY <1>1, <2>1, <2>2, FilesMoveKeeps
<1>4. QED
  BY <1>2, <1>3

LEMMA WorldKeeps ==
    ASSUME NotesInv, World
    PROVE  NotesInv'
<1>1. /\ UNCHANGED <<mem, disk, temp, up, unsaved, backup, pc, arg>>
      /\ dirs' \subseteq dirs /\ known \subseteq known'
      /\ alive' \subseteq known' /\ known' \subseteq Sessions
  BY DEF NotesInv, TypeOK, World, RemoveDirectory, CreateSession, DeleteSession, process
<1>2. Entered' = Entered
  BY <1>1 DEF Entered
<1>3. Formed(mem)' /\ Formed(disk.doc)' /\ Formed(temp.doc)'
  BY <1>1, <1>2, FormedStays DEF NotesInv, Formed, IsDocument
<1>4. Asked'
  BY <1>1 DEF NotesInv, Asked
<1>5. TypeOK'
  BY <1>1 DEF NotesInv, TypeOK, IsDocument
<1>6. QED
  BY <1>3, <1>4, <1>5 DEF NotesInv

\* A workspace enters the list under the lock.
LEMMA EntersKeeps ==
    ASSUME NotesInv, NEW c \in MadeIds, NEW path \in Paths \cup {NoPath},
           NEW label \in Labels, pc[c] = "entering",
           c \in Projects \/ WorkspaceFor(mem, path) = {},
           Update(c, WithWorkspace(mem, c, path, label))
    PROVE  NotesInv'
<1> DEFINE doc == WithWorkspace(mem, c, path, label)
<1>1. c \notin Named(mem.workspaces)
  BY DEF NotesInv, Formed, Entered, Holders
<1>2. Apart([id |-> c, path |-> path, label |-> label], mem.workspaces)
  BY <1>1 DEF Apart, Named, WorkspaceFor, ToSet
<1> HIDE DEF doc
<1>3. /\ IsDocument(doc) /\ Sound(doc.workspaces) /\ doc.rows = mem.rows
      /\ Named(doc.workspaces) \subseteq Named(mem.workspaces) \cup {c}
  <2>1. doc = WithWorkspace(mem, c, path, label)
    BY DEF doc
  <2>2. QED
    BY <1>2, <2>1, WithWorkspaceFacts DEF NotesInv, Formed
<1>4. Update(c, doc) /\ c \in Calls
  BY DEF doc, MadeIds, Calls
<1>5. QED
  BY <1>3, <1>4, UpdateKeeps DEF NotesInv, Formed

LEMMA CreateKeeps ==
    ASSUME NotesInv, NEW c \in Creates, CreateChecks(c) \/ CreateEnters(c)
    PROVE  NotesInv'
<1>1. c \in Calls /\ c \in MadeIds
  BY DEF Calls, MadeIds
<1>2. CASE CreateChecks(c)
  <2>1. PICK v \in dirs \cup {NoPath} : arg' = [arg EXCEPT ![c] = v]
    BY <1>2 DEF CreateChecks
  <2>2. v \in Paths \cup {NoPath} /\ v \in Paths \cup Sessions \cup {NoPath, None}
    BY DEF NotesInv, TypeOK
  <2>3. QED
    BY <1>1, <1>2, <2>1, <2>2, CallMovesKeeps
       DEF CreateChecks, files, world, NotesInv, TypeOK
<1>3. ASSUME pc[c] = "entering", Answer(c), UNCHANGED <<mem, files, up, unsaved, arg, world>>
      PROVE  NotesInv'
  <2>1. arg' = [arg EXCEPT ![c] = arg[c]] /\ arg[c] \in Paths \cup Sessions \cup {NoPath, None}
    BY <1>1, <1>3 DEF NotesInv, TypeOK
  <2>2. QED
    BY <1>1, <1>3, <2>1, CallMovesKeeps DEF Answer, files, world, NotesInv, TypeOK
<1>4. ASSUME NEW label \in Labels, pc[c] = "entering", WorkspaceFor(mem, arg[c]) = {},
             Update(c, WithWorkspace(mem, c, arg[c], label))
      PROVE  NotesInv'
  <2>1. arg[c] \in Paths \cup {NoPath}
    BY <1>1, <1>4, CallsAreDistinct DEF NotesInv, Asked
  <2>2. QED
    BY <1>1, <1>4, <2>1, EntersKeeps
<1>5. QED
  BY <1>2, <1>3, <1>4 DEF CreateEnters

LEMMA ProjectKeeps ==
    ASSUME NotesInv, NEW c \in Projects,
           ProjectChecks(c) \/ ProjectMakes(c) \/ ProjectEnters(c)
    PROVE  NotesInv'
<1>1. c \in Calls /\ c \in MadeIds
  BY DEF Calls, MadeIds
<1>2. CASE ProjectChecks(c)
  <2>1. PICK v \in Paths \ dirs : arg' = [arg EXCEPT ![c] = v]
    BY <1>2 DEF ProjectChecks
  <2>2. v \in Paths /\ v \in Paths \cup Sessions \cup {NoPath, None}
    OBVIOUS
  <2>3. QED
    BY <1>1, <1>2, <2>1, <2>2, CallMovesKeeps
       DEF ProjectChecks, files, world, NotesInv, TypeOK
<1>3. CASE ProjectMakes(c)
  <2>1. arg[c] \in Paths /\ arg[c] \in Paths \cup Sessions \cup {NoPath, None}
    BY <1>1, <1>3, CallsAreDistinct DEF ProjectMakes, NotesInv, TypeOK, Asked
  <2>2. arg' = [arg EXCEPT ![c] = arg[c]]
    BY <1>3 DEF ProjectMakes, NotesInv, TypeOK
  <2>3. pc[c] = "making" /\ pc' = [pc EXCEPT ![c] = "entering"]
    BY <1>3 DEF ProjectMakes
  <2>4. /\ UNCHANGED <<mem, disk, temp, up, unsaved, backup, alive, known>>
        /\ dirs' \subseteq Paths
    BY <1>3, <2>1 DEF ProjectMakes, files, NotesInv, TypeOK
  <2>5. QED
    BY <1>1, <2>1, <2>2, <2>3, <2>4, CallMovesKeeps
<1>4. ASSUME NEW label \in Labels, pc[c] = "entering",
             Update(c, WithWorkspace(mem, c, arg[c], label))
      PROVE  NotesInv'
  <2>1. arg[c] \in Paths \cup {NoPath}
    BY <1>1, <1>4, CallsAreDistinct DEF NotesInv, Asked
  <2>2. QED
    BY <1>1, <1>4, <2>1, EntersKeeps
<1>5. QED
  BY <1>2, <1>3, <1>4 DEF ProjectEnters

LEMMA NoteKeeps ==
    ASSUME NotesInv, NEW c \in Notes, NoteAsks(c) \/ SessionRename(c) \/ SessionArchive(c)
    PROVE  NotesInv'
<1>1. c \in Calls
  BY DEF Calls
<1>2. CASE NoteAsks(c)
  <2>1. PICK v \in alive : arg' = [arg EXCEPT ![c] = v]
    BY <1>2 DEF NoteAsks
  <2>2. v \in known /\ v \in Paths \cup Sessions \cup {NoPath, None}
    BY DEF NotesInv, TypeOK
  <2>3. QED
    BY <1>1, <1>2, <2>1, <2>2, CallMovesKeeps
       DEF NoteAsks, files, world, NotesInv, TypeOK
<1>3. ASSUME NEW row \in Rows, pc[c] = "entering", Update(c, WithRow(mem, arg[c], row))
      PROVE  NotesInv'
  <2>1. arg[c] \in known /\ known \subseteq Sessions
    BY <1>1, <1>3, CallsAreDistinct DEF NotesInv, TypeOK, Asked
  <2> DEFINE doc == WithRow(mem, arg[c], row)
  <2>2. /\ doc.workspaces = mem.workspaces /\ doc.pref = mem.pref /\ DOMAIN doc = DOMAIN mem
        /\ DOMAIN doc.rows = DOMAIN mem.rows \cup {arg[c]}
        /\ \A s \in DOMAIN doc.rows : doc.rows[s] = IF s = arg[c] THEN row ELSE mem.rows[s]
    BY DEF WithRow, NotesInv, Formed, IsDocument
  <2> HIDE DEF doc
  <2>3. IsDocument(doc)
    BY <2>1, <2>2 DEF NotesInv, Formed, IsDocument
  <2>4. Update(c, doc)
    BY <1>3 DEF doc
  <2>5. QED
    BY <1>1, <2>1, <2>2, <2>3, <2>4, UpdateKeeps DEF NotesInv, Formed
<1>4. Row(mem, arg[c]) \in Rows
  BY DEF Row, NoRow, Rows, NotesInv, Formed, IsDocument
<1>5. CASE SessionRename(c)
  <2>1. PICK title \in Labels \cup {None} :
            Update(c, WithRow(mem, arg[c], [Row(mem, arg[c]) EXCEPT !.title = title]))
    BY <1>5 DEF SessionRename
  <2>2. [Row(mem, arg[c]) EXCEPT !.title = title] \in Rows
    BY <1>4 DEF Rows
  <2>3. QED
    BY <1>3, <1>5, <2>1, <2>2 DEF SessionRename
<1>6. CASE SessionArchive(c)
  <2>1. PICK archived \in BOOLEAN :
            Update(c, WithRow(mem, arg[c], [Row(mem, arg[c]) EXCEPT !.archived = archived]))
    BY <1>6 DEF SessionArchive
  <2>2. [Row(mem, arg[c]) EXCEPT !.archived = archived] \in Rows
    BY <1>4 DEF Rows
  <2>3. QED
    BY <1>3, <1>6, <2>1, <2>2 DEF SessionArchive
<1>7. QED
  BY <1>2, <1>5, <1>6

LEMMA EditKeeps ==
    ASSUME NotesInv, NEW c \in Edits,
           \/ WorkspacesUpdate(c) \/ WorkspacesRemove(c) \/ PrefsSet(c)
           \/ \E id \in MadeIds, anchor \in MadeIds \cup {None} :
                WorkspacesReorder(c, id, anchor)
    PROVE  NotesInv'
<1>1. c \in Calls /\ Formed(mem)
  BY DEF Calls, NotesInv
<1>2. ASSUME NEW doc, Update(c, doc), IsDocument(doc), Sound(doc.workspaces),
             Named(doc.workspaces) \subseteq Named(mem.workspaces), doc.rows = mem.rows
      PROVE  NotesInv'
  BY <1>1, <1>2, UpdateKeeps DEF Formed
<1>3. CASE WorkspacesUpdate(c)
  BY <1>1, <1>2, <1>3, RelabelledFacts DEF WorkspacesUpdate, Formed
<1>4. CASE WorkspacesRemove(c)
  <2>1. PICK id \in MadeIds : Update(c, Without(mem, id))
    BY <1>4 DEF WorkspacesRemove
  <2>2. QED
    BY <1>1, <1>2, <2>1, WithoutFacts DEF Formed
<1>5. CASE PrefsSet(c)
  <2>1. PICK value \in Labels \cup {None} : Update(c, [mem EXCEPT !.pref = value])
    BY <1>5 DEF PrefsSet
  <2> DEFINE doc == [mem EXCEPT !.pref = value]
  <2>2. /\ doc.workspaces = mem.workspaces /\ doc.rows = mem.rows
        /\ doc.pref = value /\ DOMAIN doc = DOMAIN mem
    BY <1>1 DEF Formed, IsDocument
  <2> HIDE DEF doc
  <2>3. IsDocument(doc)
    BY <1>1, <2>2 DEF Formed, IsDocument
  <2>4. Update(c, doc)
    BY <2>1 DEF doc
  <2>5. QED
    BY <1>1, <1>2, <2>2, <2>3, <2>4 DEF Formed
<1>6. ASSUME NEW id \in MadeIds, NEW anchor, WorkspacesReorder(c, id, anchor)
      PROVE  NotesInv'
  <2>1. Ids(mem) = Named(mem.workspaces)
    BY DEF Ids, Named
  <2>2. CASE id \in Ids(mem)
    BY <1>1, <1>2, <1>6, <2>1, <2>2, ReorderedFacts DEF WorkspacesReorder, Formed
  <2>3. CASE id \notin Ids(mem)
    BY <1>1, <1>2, <1>6, <2>3 DEF WorkspacesReorder, Formed
  <2>4. QED
    BY <2>2, <2>3
<1>7. QED
  BY <1>3, <1>4, <1>5, <1>6

LEMMA NotesInvariant == Spec => []NotesInv
<1>1. Init => NotesInv
  <2> SUFFICES ASSUME Init  PROVE NotesInv
    OBVIOUS
  <2>1. mem = Fresh /\ disk.doc = Fresh /\ temp.doc = Fresh
        /\ disk.form = "missing" /\ temp.form = "missing"
    BY DEF Init, Missing
  <2>2. Formed(mem) /\ Formed(disk.doc) /\ Formed(temp.doc)
    BY <2>1, FreshIsFormed DEF Formed
  <2>3. TypeOK
    BY <2>1, FreshIsFormed DEF Init, TypeOK
  <2>4. Asked
    BY DEF Init, Asked
  <2>5. QED
    BY <2>2, <2>3, <2>4 DEF NotesInv
<1>2. NotesInv /\ [Next]_vars => NotesInv'
  <2> SUFFICES ASSUME NotesInv, [Next]_vars  PROVE NotesInv'
    OBVIOUS
  <2>1. CASE UNCHANGED vars
    <3>1. UNCHANGED <<mem, disk, temp, up, unsaved, backup, pc, arg, dirs, alive, known>>
      BY <2>1 DEF vars
    <3>2. QED
      BY <3>1 DEF NotesInv, TypeOK, IsDocument, Formed, Entered, Asked
  <2>2. CASE Next
    BY <2>2, CreateKeeps, ProjectKeeps, NoteKeeps, EditKeeps, PersistKeeps,
       ProcessKeeps, WorldKeeps, Zenon DEF Next
  <2>3. QED
    BY <2>1, <2>2
<1>3. QED
  BY <1>1, <1>2, PTL DEF Spec

\* Whatever falls between a check and its lock, and wherever the process ends:
\* create makes no second workspace of a path, no note is kept about a session
\* the engine never had, and no workspace is in the list twice.
THEOREM NotesStayWellFounded == Spec => []NotesAreWellFounded
<1>1. NotesInv => NotesAreWellFounded
  BY DEF NotesInv, Formed, Sound, NotesAreWellFounded, CreatedOncePerPath,
         RowsAreOfSessions, IdsAreUnique, IsInjective
<1>2. QED
  BY <1>1, NotesInvariant, PTL

\* Every variable of the store keeps its type, also what is on disk.
THEOREM StoreTypesHold == Spec => []TypeOK
<1>1. NotesInv => TypeOK
  BY DEF NotesInv
<1>2. QED
  BY <1>1, NotesInvariant, PTL

-----------------------------------------------------------------------------
(* A reorder moves one workspace *)

\* The ids of a list from which a place was taken out.
LEMMA IdsTakenOut ==
    ASSUME NEW ws \in Seq(Workspaces), NEW k \in DOMAIN ws,
           NEW ids, ids = [i \in DOMAIN ws |-> ws[i].id],
           NEW left, left = RemoveAt(ws, k)
    PROVE  RemoveAt(ids, k) = [i \in DOMAIN left |-> left[i].id]
<1> DEFINE r == RemoveAt(ids, k)
           l == [i \in DOMAIN left |-> left[i].id]
<1>1. DOMAIN ws = 1 .. Len(ws) /\ Len(ws) \in Nat /\ k \in 1 .. Len(ws)
  OBVIOUS
<1>2. \A i \in DOMAIN ws : ws[i].id \in MadeIds
  <2> TAKE i \in DOMAIN ws
  <2>1. ws[i] \in Workspaces
    OBVIOUS
  <2>2. QED
    BY <2>1 DEF Workspaces
<1>3. ids \in Seq(MadeIds) /\ Len(ids) = Len(ws) /\ k \in DOMAIN ids
  <2>1. ids \in [1 .. Len(ws) -> MadeIds]
    BY <1>1, <1>2
  <2>2. QED
    BY <1>1, <2>1
<1>4. /\ r \in Seq(MadeIds) /\ Len(r) = Len(ws) - 1
      /\ \A i \in 1 .. Len(ws) - 1 : r[i] = IF i < k THEN ids[i] ELSE ids[i + 1]
  <2>1. /\ r \in Seq(MadeIds) /\ Len(r) = Len(ids) - 1
        /\ \A i \in 1 .. Len(ids) - 1 : r[i] = IF i < k THEN ids[i] ELSE ids[i + 1]
    BY <1>3, TakenOut
  <2>2. QED
    BY <1>3, <2>1
<1>5. /\ left \in Seq(Workspaces) /\ Len(left) = Len(ws) - 1
      /\ \A i \in 1 .. Len(ws) - 1 : left[i] = IF i < k THEN ws[i] ELSE ws[i + 1]
  BY TakenOut
<1> HIDE DEF r
<1>6. DOMAIN left = 1 .. Len(ws) - 1 /\ DOMAIN r = 1 .. Len(ws) - 1
  BY <1>1, <1>4, <1>5
<1>7. ASSUME NEW i \in 1 .. Len(ws) - 1  PROVE r[i] = l[i]
  <2>1. i \in DOMAIN ws /\ i + 1 \in DOMAIN ws
    BY <1>1
  <2>2. ids[i] = ws[i].id /\ ids[i + 1] = ws[i + 1].id
    BY <2>1
  <2>3. l[i] = left[i].id
    BY <1>6
  <2>4. QED
    BY <1>1, <1>4, <1>5, <2>2, <2>3
<1>8. r = [i \in DOMAIN r |-> r[i]]
  BY <1>4
<1>9. QED
  BY <1>6, <1>7, <1>8 DEF r

LEMMA ReorderedMovesOne ==
    ASSUME NEW doc, IsDocument(doc), Sound(doc.workspaces),
           NEW id \in Named(doc.workspaces), NEW anchor,
           NEW made, made = Reordered(doc, id, anchor)
    PROVE  MovedBefore(Order(doc), Order(made), id, anchor)
<1> DEFINE old == doc.workspaces
           k == Position(old, id)
           moved == old[k]
           rest == Without(doc, id)
           ws == rest.workspaces
           at == IF anchor \in Ids(rest) THEN Position(ws, anchor) ELSE Len(ws) + 1
           new == InsertAt(ws, at, moved)
<1>1. old \in Seq(Workspaces) /\ k \in DOMAIN old /\ moved.id = id
  BY PositionIsThere DEF IsDocument
<1>2. moved \in Workspaces
  BY <1>1
<1>3. made.workspaces = new
  <2>1. made = [rest EXCEPT !.workspaces = new]
    BY DEF Reordered
  <2>2. IsDocument(rest)
    BY WithoutFacts
  <2> HIDE DEF rest, new
  <2>3. QED
    BY <2>1, <2>2 DEF IsDocument
<1>4. ws = RemoveAt(old, k)
  <2>1. id \in Ids(doc)
    BY DEF Ids, Named
  <2>2. rest = [doc EXCEPT !.workspaces = RemoveAt(old, k)]
    BY <2>1 DEF Without
  <2>3. QED
    BY <2>2 DEF IsDocument
<1>5. IsDocument(rest) /\ Named(ws) = Named(old) \ {id}
  BY WithoutFacts
<1>6. ws \in Seq(Workspaces)
  BY <1>5 DEF IsDocument
<1>7. Ids(rest) = Named(ws)
  BY DEF Ids, Named
<1> HIDE DEF rest
<1>8. /\ at \in 1 .. Len(ws) + 1
      /\ anchor \in Named(ws) => at \in DOMAIN ws /\ ws[at].id = anchor
      /\ anchor \notin Named(ws) => at = Len(ws) + 1
  BY <1>6, <1>7, PositionIsThere
<1> HIDE DEF at, k, ws
<1>9. /\ new \in Seq(Workspaces) /\ Len(new) = Len(ws) + 1
      /\ \A i \in 1 .. Len(ws) + 1 :
            new[i] = IF i < at THEN ws[i] ELSE IF i = at THEN moved ELSE ws[i - 1]
      /\ RemoveAt(new, at) = ws
  <2> HIDE DEF new, moved
  <2>1. new = InsertAt(ws, at, moved)
    BY DEF new
  <2>2. at \in 1 .. Len(ws) + 1
    BY <1>8
  <2>3. /\ new \in Seq(Workspaces) /\ Len(new) = Len(ws) + 1
        /\ \A i \in 1 .. Len(ws) + 1 :
              new[i] = IF i < at THEN ws[i] ELSE IF i = at THEN moved ELSE ws[i - 1]
    <3>1. IsWith(new, Workspaces, ws, at, moved)
      BY <1>2, <1>6, <2>1, <2>2, PutIn
    <3>2. QED
      BY <3>1 DEF IsWith
  <2>4. RemoveAt(new, at) = ws
    BY <1>2, <1>6, <2>1, <2>2, PutInTakenOut
  <2>5. QED
    BY <2>3, <2>4
<1> HIDE DEF new, old, moved
<1> DEFINE before == Order(doc)
           after == Order(made)
<1>10. /\ before = [i \in DOMAIN old |-> old[i].id]
       /\ after = [i \in DOMAIN new |-> new[i].id]
  BY <1>3 DEF Order, old
<1>11. at \in DOMAIN new /\ DOMAIN new = 1 .. Len(ws) + 1 /\ Len(ws) \in Nat
  BY <1>6, <1>8, <1>9
<1>12. RemoveAt(before, k) = RemoveAt(after, at)
  <2>1. RemoveAt(before, k) = [i \in DOMAIN ws |-> ws[i].id]
    BY <1>1, <1>4, <1>10, IdsTakenOut
  <2>2. RemoveAt(after, at) = [i \in DOMAIN ws |-> ws[i].id]
    <3> HIDE DEF after
    <3>1. /\ new \in Seq(Workspaces) /\ at \in DOMAIN new
          /\ after = [i \in DOMAIN new |-> new[i].id] /\ ws = RemoveAt(new, at)
      BY <1>9, <1>10, <1>11
    <3> HIDE DEF new, at, ws
    <3>2. RemoveAt(after, at) = [i \in DOMAIN ws |-> ws[i].id]
      BY <3>1, IdsTakenOut
    <3>3. QED
      BY <3>2
  <2>3. QED
    BY <2>1, <2>2
<1>13. k \in DOMAIN before /\ before[k] = id
  BY <1>1, <1>10 DEF moved
<1>14. at \in DOMAIN after /\ after[at] = id
  BY <1>1, <1>8, <1>9, <1>10, <1>11
<1>15. Len(after) = Len(ws) + 1
  BY <1>10, <1>11
<1>16. ToSet(before) \ {id} = Named(ws)
  BY <1>5, <1>10 DEF ToSet, Named
<1>17. IF at = Len(after) THEN anchor \notin ToSet(before) \ {id} ELSE after[at + 1] = anchor
  <2>1. CASE at = Len(ws) + 1
    <3>1. DOMAIN ws = 1 .. Len(ws)
      BY <1>6
    <3>2. anchor \notin Named(ws)
      BY <1>8, <1>11, <2>1, <3>1
    <3>3. QED
      BY <1>15, <1>16, <2>1, <3>2
  <2>2. CASE at # Len(ws) + 1
    <3>1. at + 1 \in 1 .. Len(ws) + 1 /\ at \in Nat /\ at + 1 - 1 = at
      BY <1>8, <1>11, <2>2
    <3>2. new[at + 1] = ws[at]
      BY <1>9, <3>1
    <3>3. ws[at].id = anchor
      BY <1>8, <2>2
    <3>4. QED
      BY <1>10, <1>11, <1>15, <2>2, <3>1, <3>2, <3>3
  <2>3. QED
    BY <2>1, <2>2
<1> HIDE DEF before, after
<1>18. MovedBefore(before, after, id, anchor)
  BY <1>12, <1>13, <1>14, <1>17 DEF MovedBefore
<1>19. QED
  BY <1>18 DEF before, after

\* A reorder moves one workspace to right before its anchor, or to the end; the
\* others keep their order and none is lost.
THEOREM ReordersMoveOne == Spec => ReorderMovesOne
<1> DEFINE Moves ==
        \A c \in Edits, id \in MadeIds, anchor \in MadeIds \cup {None} :
            WorkspacesReorder(c, id, anchor) /\ id \in Ids(mem) =>
                MovedBefore(Order(mem), Order(mem'), id, anchor)
<1>1. NotesInv => Moves
  <2> SUFFICES ASSUME NotesInv, NEW c \in Edits, NEW id \in MadeIds,
                      NEW anchor \in MadeIds \cup {None},
                      WorkspacesReorder(c, id, anchor), id \in Ids(mem)
               PROVE  MovedBefore(Order(mem), Order(mem'), id, anchor)
    BY DEF Moves
  <2>1. mem' = Reordered(mem, id, anchor)
    BY DEF WorkspacesReorder, Update
  <2>2. id \in Named(mem.workspaces)
    BY DEF Ids, Named
  <2>3. QED
    BY <2>1, <2>2, ReorderedMovesOne DEF NotesInv, Formed
<1>2. NotesInv => [Moves]_vars
  BY <1>1
<1>3. QED
  BY <1>2, NotesInvariant, PTL DEF ReorderMovesOne
=============================================================================
