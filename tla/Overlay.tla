------------------------------- MODULE Overlay -------------------------------
(***************************************************************************)
(* Nest's own notes about the engine's sessions: crates/builtin/src/       *)
(* store.rs and workspaces.rs, and projects_create of files.rs.            *)
(*                                                                         *)
(* One document in memory behind one lock.  Store::update changes it and,  *)
(* with the lock held, writes the whole of it to state.json.tmp and        *)
(* renames that over state.json; a failure of either is logged and the     *)
(* caller is answered as if nothing had happened.  The process may end     *)
(* between any two steps and start again from the file; a start that finds *)
(* the file but cannot read it begins blank and leaves the file where it   *)
(* is, for the next change to replace.                                     *)
(*                                                                         *)
(* What a call learns before it takes the lock (that a directory is there, *)
(* that the engine has a session) may have changed when it gets it.        *)
(*                                                                         *)
(* A workspace is its id, path and label; the id is the call that made it, *)
(* standing for a fresh uuid.  label stands for title, collapsed and       *)
(* session_order, which workspaces_update replaces independently.          *)
(***************************************************************************)
EXTENDS SequencesExt, FiniteSets, Naturals

CONSTANTS
    Creates,    \* calls of nest.workspaces.create
    Projects,   \* calls of nest.projects.create
    Notes,      \* calls of nest.sessions.rename and nest.sessions.archive
    Edits,      \* calls that only take the lock: update, reorder, remove, prefs.set
    Paths,
    Sessions,
    Labels,     \* titles and other values a caller sends
    NoPath,     \* the path of the no-project group
    None,
    MaxCrashes, \* bound: how often the process ends
    MaxFaults   \* bound: how many writes or renames, and reads at a start, fail

Calls == Creates \cup Projects \cup Notes \cup Edits

ASSUME CallsAreDistinct ==
    /\ Creates \cap (Projects \cup Notes \cup Edits) = {}
    /\ Projects \cap (Notes \cup Edits) = {}
    /\ Notes \cap Edits = {}

ASSUME NoneIsNoValue ==
    /\ None \notin Labels \cup Paths \cup Calls
    /\ NoPath \notin Paths /\ NoPath # None

VARIABLES
    mem,        \* Store.state
    disk,       \* state.json: Missing, Broken or Whole(a document)
    temp,       \* state.json.tmp
    up,         \* the process runs
    unsaved,    \* the last persist of this process failed, or it began blank
                \* over a file it could not read and has persisted nothing since
    pc,         \* where each call stands
    arg,        \* the path or session the call is about
    dirs,       \* the paths that are directories
    alive,      \* the sessions the engine has
    known,      \* the sessions the engine ever had
    backup,     \* state.json.broken exists
    crashes, faults

process == <<mem, temp, up, unsaved>>
files == <<disk, temp, backup>>
world == <<dirs, alive, known>>
bounds == <<crashes, faults>>
vars == <<mem, disk, temp, up, unsaved, pc, arg, dirs, alive, known, backup,
          crashes, faults>>

Fresh == [workspaces |-> <<>>, rows |-> <<>>, pref |-> None]

Missing == [form |-> "missing", doc |-> Fresh]
Broken == [form |-> "broken", doc |-> Fresh]
Whole(doc) == [form |-> "whole", doc |-> doc]

Holders == {"writing", "renaming"}

\* Nobody holds the store's lock.
Free == up /\ \A c \in Calls : pc[c] \notin Holders

Init ==
    /\ mem = Fresh
    /\ disk = Missing
    /\ temp = Missing
    /\ up = TRUE
    /\ unsaved = FALSE
    /\ pc = [c \in Calls |-> "idle"]
    /\ arg = [c \in Calls |-> None]
    /\ dirs \in SUBSET Paths
    /\ alive = {}
    /\ known = {}
    /\ backup = FALSE
    /\ crashes = 0
    /\ faults = 0

-----------------------------------------------------------------------------
(* The document *)

Ids(doc) == {doc.workspaces[i].id : i \in DOMAIN doc.workspaces}

WorkspaceFor(doc, path) == {w \in ToSet(doc.workspaces) : w.path = path}

\* Ids a client can have seen.
MadeIds == Creates \cup Projects

WithWorkspace(doc, id, path, label) ==
    [doc EXCEPT !.workspaces = Append(@, [id |-> id, path |-> path, label |-> label])]

Relabelled(doc, id, label) ==
    [doc EXCEPT !.workspaces =
        [i \in DOMAIN @ |-> IF @[i].id = id THEN [@[i] EXCEPT !.label = label] ELSE @[i]]]

Position(ws, id) == CHOOSE i \in DOMAIN ws : ws[i].id = id

\* The workspace is taken out; an id is in the list once.
Without(doc, id) ==
    IF id \in Ids(doc)
    THEN [doc EXCEPT !.workspaces = RemoveAt(@, Position(@, id))]
    ELSE doc

\* Mutant: the anchor's place is looked up before the workspace is taken out.
ReorderedStale(doc, id, anchor) ==
    LET ws == doc.workspaces
        rest == Without(doc, id)
        at == IF anchor \in Ids(rest) THEN Position(ws, anchor) ELSE Len(ws)
    IN  [rest EXCEPT !.workspaces = InsertAt(@, at, ws[Position(ws, id)])]

\* Taken out first, then put in before the anchor, or at the end when there is
\* no such anchor (any more).
Reordered(doc, id, anchor) ==
    LET moved == doc.workspaces[Position(doc.workspaces, id)]
        rest == Without(doc, id)
        at == IF anchor \in Ids(rest) THEN Position(rest.workspaces, anchor)
              ELSE Len(rest.workspaces) + 1
    IN  [rest EXCEPT !.workspaces = InsertAt(@, at, moved)]

NoRow == [title |-> None, archived |-> FALSE]

\* entry(session).or_default(), then one of its fields.
WithRow(doc, s, row) ==
    [doc EXCEPT !.rows = [k \in DOMAIN @ \cup {s} |-> IF k = s THEN row ELSE @[k]]]

Row(doc, s) == IF s \in DOMAIN doc.rows THEN doc.rows[s] ELSE NoRow

-----------------------------------------------------------------------------
(* Store::update *)

\* f(&mut state), under the lock that persist keeps.
Update(c, doc) ==
    /\ Free
    /\ mem' = doc
    /\ pc' = [pc EXCEPT ![c] = "writing"]
    /\ UNCHANGED <<files, up, unsaved, arg, world, bounds>>

Answer(c) == pc' = [pc EXCEPT ![c] = "done"]

\* Mutant: the document itself is written, not a copy beside it.
PersistWritesInPlace(c) ==
    /\ pc[c] = "writing"
    /\ disk' = Broken
    /\ temp' = Whole(mem)
    /\ pc' = [pc EXCEPT ![c] = "renaming"]
    /\ UNCHANGED <<mem, up, unsaved, arg, world, backup, bounds>>

PersistWrites(c) ==
    /\ pc[c] = "writing"
    /\ temp' = Whole(mem)
    /\ pc' = [pc EXCEPT ![c] = "renaming"]
    /\ UNCHANGED <<mem, disk, up, unsaved, arg, world, backup, bounds>>

\* Mutant: the copy is left beside the file.
PersistLeavesCopy(c) ==
    /\ pc[c] = "renaming"
    /\ unsaved' = FALSE
    /\ Answer(c)
    /\ UNCHANGED <<mem, files, up, arg, world, bounds>>

PersistRenames(c) ==
    /\ pc[c] = "renaming"
    /\ disk' = temp
    /\ temp' = Missing
    /\ unsaved' = FALSE
    /\ Answer(c)
    /\ UNCHANGED <<mem, up, arg, world, backup, bounds>>

\* A write or a rename that fails is logged; the call is answered all the same.
PersistFails(c) ==
    /\ pc[c] \in Holders
    /\ faults < MaxFaults
    /\ faults' = faults + 1
    /\ temp' = IF pc[c] = "writing" THEN Broken ELSE temp
    /\ unsaved' = TRUE
    /\ Answer(c)
    /\ UNCHANGED <<mem, disk, up, arg, world, backup, crashes>>

Persist(c) == PersistWrites(c) \/ PersistRenames(c) \/ PersistFails(c)

-----------------------------------------------------------------------------
(* The calls *)

\* is_dir, before the lock.
CreateChecks(c) ==
    /\ up /\ pc[c] = "idle"
    /\ \E path \in dirs \cup {NoPath} : arg' = [arg EXCEPT ![c] = path]
    /\ pc' = [pc EXCEPT ![c] = "entering"]
    /\ UNCHANGED <<mem, files, up, unsaved, world, bounds>>

\* Mutant: no look for a workspace of the same path.
CreateAnyway(c) ==
    /\ pc[c] = "entering"
    /\ \E label \in Labels : Update(c, WithWorkspace(mem, c, arg[c], label))

\* The look for an existing workspace and the push share the lock.
CreateEnters(c) ==
    /\ pc[c] = "entering"
    /\ \/ /\ Free /\ WorkspaceFor(mem, arg[c]) # {}
          /\ Answer(c)
          /\ UNCHANGED <<mem, files, up, unsaved, arg, world, bounds>>
       \/ /\ WorkspaceFor(mem, arg[c]) = {}
          /\ \E label \in Labels : Update(c, WithWorkspace(mem, c, arg[c], label))

\* The name is checked, and that nothing has it yet.
ProjectChecks(c) ==
    /\ up /\ pc[c] = "idle"
    /\ \E path \in Paths \ dirs : arg' = [arg EXCEPT ![c] = path]
    /\ pc' = [pc EXCEPT ![c] = "making"]
    /\ UNCHANGED <<mem, files, up, unsaved, world, bounds>>

\* create_dir_all is content with a directory that is there by now.
ProjectMakes(c) ==
    /\ pc[c] = "making"
    /\ dirs' = dirs \cup {arg[c]}
    /\ pc' = [pc EXCEPT ![c] = "entering"]
    /\ UNCHANGED <<mem, files, up, unsaved, arg, alive, known, bounds>>

\* Pushed with no look for a workspace of the same path.
ProjectEnters(c) ==
    /\ pc[c] = "entering"
    /\ \E label \in Labels : Update(c, WithWorkspace(mem, c, arg[c], label))

\* session_must_exist: asked of the engine, before the lock.
NoteAsks(c) ==
    /\ up /\ pc[c] = "idle"
    /\ \E s \in alive : arg' = [arg EXCEPT ![c] = s]
    /\ pc' = [pc EXCEPT ![c] = "entering"]
    /\ UNCHANGED <<mem, files, up, unsaved, world, bounds>>

\* An empty title takes the title away.
SessionRename(c) ==
    /\ pc[c] = "entering"
    /\ \E title \in Labels \cup {None} :
        Update(c, WithRow(mem, arg[c], [Row(mem, arg[c]) EXCEPT !.title = title]))

SessionArchive(c) ==
    /\ pc[c] = "entering"
    /\ \E archived \in BOOLEAN :
        Update(c, WithRow(mem, arg[c], [Row(mem, arg[c]) EXCEPT !.archived = archived]))

\* An unknown workspace is refused, after the file was rewritten all the same.
WorkspacesUpdate(c) ==
    /\ pc[c] = "idle"
    /\ \E id \in MadeIds, label \in Labels :
        Update(c, Relabelled(mem, id, label))

WorkspacesReorder(c, id, anchor) ==
    /\ pc[c] = "idle"
    /\ Update(c, IF id \in Ids(mem) THEN Reordered(mem, id, anchor) ELSE mem)

WorkspacesRemove(c) ==
    /\ pc[c] = "idle"
    /\ \E id \in MadeIds : Update(c, Without(mem, id))

PrefsSet(c) ==
    /\ pc[c] = "idle"
    /\ \E value \in Labels \cup {None} : Update(c, [mem EXCEPT !.pref = value])

-----------------------------------------------------------------------------
(* The process and the world around it *)

\* What is under way is lost, the files stay as they are; a copy half written is
\* never read.
Crash ==
    /\ up /\ crashes < MaxCrashes
    /\ crashes' = crashes + 1
    /\ up' = FALSE
    /\ pc' = [c \in Calls |-> IF pc[c] = "idle" THEN "idle" ELSE "done"]
    /\ UNCHANGED <<mem, disk, temp, unsaved, arg, world, backup, faults>>

\* What a start makes of the file.
Loaded(file) == IF file.form = "whole" THEN file.doc ELSE Fresh

\* Store::open, the file is missing or was read: one that does not parse is
\* renamed out of the way, if that works, and the start is fresh.
OpenReads ==
    /\ mem' = Loaded(disk)
    /\ unsaved' = FALSE
    /\ \/ disk = Broken /\ disk' = Missing /\ backup' = TRUE
       \/ UNCHANGED <<disk, backup>>
    /\ UNCHANGED faults

\* Store::open, the file is there and the read fails: the start is fresh as if
\* there were none, nothing is backed up.
OpenBlind ==
    /\ disk # Missing
    /\ faults < MaxFaults
    /\ faults' = faults + 1
    /\ mem' = Fresh
    /\ unsaved' = TRUE
    /\ UNCHANGED <<disk, backup>>

Open ==
    /\ ~up
    /\ up' = TRUE
    /\ OpenReads \/ OpenBlind
    /\ UNCHANGED <<temp, pc, arg, world, crashes>>

\* While the process is down someone edits the file by hand and breaks it.
Damage ==
    /\ ~up /\ disk # Missing
    /\ disk' = Broken
    /\ UNCHANGED <<process, pc, arg, world, backup, bounds>>

\* A directory is removed by hand; the engine creates and deletes sessions.
RemoveDirectory(path) ==
    /\ path \in dirs
    /\ dirs' = dirs \ {path}
    /\ UNCHANGED <<process, disk, backup, pc, arg, alive, known, bounds>>

CreateSession(s) ==
    /\ s \notin known
    /\ alive' = alive \cup {s}
    /\ known' = known \cup {s}
    /\ UNCHANGED <<process, disk, backup, pc, arg, dirs, bounds>>

DeleteSession(s) ==
    /\ s \in alive
    /\ alive' = alive \ {s}
    /\ UNCHANGED <<process, disk, backup, pc, arg, dirs, known, bounds>>

World ==
    \/ \E path \in Paths : RemoveDirectory(path)
    \/ \E s \in Sessions : CreateSession(s) \/ DeleteSession(s)

Next ==
    \/ \E c \in Creates : CreateChecks(c) \/ CreateEnters(c)
    \/ \E c \in Projects : ProjectChecks(c) \/ ProjectMakes(c) \/ ProjectEnters(c)
    \/ \E c \in Notes : NoteAsks(c) \/ SessionRename(c) \/ SessionArchive(c)
    \/ \E c \in Edits : WorkspacesUpdate(c) \/ WorkspacesRemove(c) \/ PrefsSet(c)
    \/ \E c \in Edits, id \in MadeIds, anchor \in MadeIds \cup {None} :
        WorkspacesReorder(c, id, anchor)
    \/ \E c \in Calls : Persist(c)
    \/ Crash \/ Open \/ Damage
    \/ World

Spec == Init /\ [][Next]_vars

-----------------------------------------------------------------------------
(* Properties *)

Workspaces == [id : MadeIds, path : Paths \cup {NoPath}, label : Labels]

Rows == [title : Labels \cup {None}, archived : BOOLEAN]

IsDocument(doc) ==
    /\ DOMAIN doc = {"workspaces", "rows", "pref"}
    /\ doc.workspaces \in Seq(Workspaces)
    /\ DOMAIN doc.rows \subseteq Sessions
    /\ \A s \in DOMAIN doc.rows : doc.rows[s] \in Rows
    /\ doc.pref \in Labels \cup {None}

TypeOK ==
    /\ IsDocument(mem)
    /\ \A file \in {disk, temp} :
        /\ file.form \in {"missing", "broken", "whole"}
        /\ IsDocument(file.doc)
    /\ {up, unsaved, backup} \subseteq BOOLEAN
    /\ pc \in [Calls -> {"idle", "making", "entering", "done"} \cup Holders]
    /\ arg \in [Calls -> Paths \cup Sessions \cup {NoPath, None}]
    /\ dirs \subseteq Paths
    /\ alive \subseteq known /\ known \subseteq Sessions

\* store.rs: "rewritten atomically on every change, so a crash mid-write leaves
\* the previous state rather than half of the new one". In memory the document
\* changes, on disk it is replaced as a whole by what memory held, and a
\* restart serves what was last saved, or nothing at all where the file could
\* not be read: it stays on disk then until the next change replaces it.
Document == INSTANCE DurableDocument
    WITH Blank <- Fresh, running <- up, doc <- mem, saved <- Loaded(disk)

KeepsTheDocument == Document!DocumentSpec

\* store.rs, Store::open: "an unreadable or unparsable one is backed up and
\* replaced". A whole document that a start does not serve is in the backup.
\* It is not where the read fails, and the next change replaces it.
ReplacedIsBackedUp ==
    [][ ~up /\ up' /\ disk.form = "whole" /\ mem' # disk.doc => backup' ]_vars

\* A call that was answered is on disk, with everything this process serves,
\* unless its last write to the disk failed; the next that works saves both. A
\* process that began blank over a file it could not read serves none of what
\* earlier ones answered, and its first change takes that from the disk too:
\* until then memory and disk differ.
AnsweredIsSaved == Free /\ ~unsaved => Loaded(disk) = mem

\* nest.workspaces.create makes no second workspace of a path, whatever happens
\* between its check and its lock: of two workspaces of one path, one at least
\* came from nest.projects.create.
CreatedOncePerPath ==
    \A i, j \in DOMAIN mem.workspaces :
        /\ i # j
        /\ mem.workspaces[i].path = mem.workspaces[j].path
        => {mem.workspaces[i].id, mem.workspaces[j].id} \cap Projects # {}

\* workspaces.rs, session_must_exist: no row is written for a session the engine
\* does not have. It had it when it was asked; the row outlives the session.
RowsAreOfSessions == DOMAIN mem.rows \subseteq known

\* No workspace is in the list twice.
IdsAreUnique == IsInjective([i \in DOMAIN mem.workspaces |-> mem.workspaces[i].id])

NotesAreWellFounded == CreatedOncePerPath /\ RowsAreOfSessions /\ IdsAreUnique

\* "Move a workspace before another (or to the end)": the others keep their
\* order, none is lost, and the moved one stands right before its anchor.
Order(doc) == [i \in DOMAIN doc.workspaces |-> doc.workspaces[i].id]

MovedBefore(old, new, id, anchor) ==
    \E i \in DOMAIN old, j \in DOMAIN new :
        /\ old[i] = id /\ new[j] = id
        /\ RemoveAt(old, i) = RemoveAt(new, j)
        /\ IF j = Len(new) THEN anchor \notin ToSet(old) \ {id} ELSE new[j + 1] = anchor

ReorderMovesOne ==
    [][ \A c \in Edits, id \in MadeIds, anchor \in MadeIds \cup {None} :
            WorkspacesReorder(c, id, anchor) /\ id \in Ids(mem) =>
                MovedBefore(Order(mem), Order(mem'), id, anchor) ]_vars
=============================================================================
