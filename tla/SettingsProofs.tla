--------------------------- MODULE SettingsProofs ----------------------------
(***************************************************************************)
(* Theorems about Settings: for any number of sets, edits, keys and values *)
(* an edit is lost only at a tier that another was editing meanwhile or    *)
(* whose file a set could not read, and the answer of a set nobody crossed *)
(* shows what it set.                                                      *)
(***************************************************************************)
EXTENDS Settings, TLAPS

Busy == {"asked", "opening", "filling", "renaming", "reloading", "reading"}

Shape ==
    /\ DOMAIN file = TierNames /\ DOMAIN temp = TierNames /\ DOMAIN want = TierNames
    /\ DOMAIN pc = Sets \cup Edits
    /\ DOMAIN request = Sets /\ DOMAIN body = Sets /\ DOMAIN held = Sets
    /\ DOMAIN lost = TierNames
    /\ \A t \in TierNames : DOMAIN want[t] = Keys
    /\ \A c \in Sets :
        /\ pc[c] \in Busy => request[c].tier \in TierNames /\ request[c].key \in Keys
        /\ pc[c] \in {"idle", "asked"} => c \notin blind

\* What the one set at a tier had read when it made its document up.
Base(c, t) == IF c \in blind THEN Empty ELSE Kept(t)

\* At a tier nobody raced for, the one set under way has made its document up
\* from the file as it still is, or from nothing.
Quiet(t) ==
    /\ file[t].form # "torn"
    /\ file[t].doc = Kept(t)
    /\ \A c, d \in At(t) : c = d
    /\ \A c \in At(t) :
        /\ body[c] = MadeUp(Base(c, t), request[c])
        /\ pc[c] = "filling" => held[c] = "temp" /\ temp[t].form # "whole"
        /\ pc[c] = "renaming" => temp[t] = Whole(body[c])

QuietInv == Shape /\ \A t \in TierNames \ raced : Quiet(t)

\* A step that leaves a tier and all who are at it alone.
LEMMA QuietElsewhere ==
    ASSUME NEW t \in TierNames, Quiet(t),
           file'[t] = file[t], temp'[t] = temp[t], want'[t] = want[t], lost'[t] = lost[t],
           \A d \in At(t)' : /\ d \in At(t)
                             /\ pc'[d] = pc[d] /\ body'[d] = body[d]
                             /\ held'[d] = held[d] /\ request'[d] = request[d]
                             /\ d \in blind' <=> d \in blind
    PROVE  Quiet(t)'
<1>1. Kept(t)' = Kept(t)
  BY DEF Kept
<1>2. \A d \in At(t)' : Base(d, t)' = Base(d, t)
  BY <1>1 DEF Base, Empty
<1>3. QED
  BY <1>1, <1>2 DEF Quiet, MadeUp, Whole

LEMMA ChecksQuiet ==
    ASSUME QuietInv, NEW c \in Sets, SetChecks(c)  PROVE QuietInv'
<1> USE DEF QuietInv, Shape, Busy
<1>1. Shape'
  BY ConstantsAreApart DEF SetChecks, Go, Requests, disk, setting, ghosts
<1>2. ASSUME NEW t \in TierNames \ raced'  PROVE Quiet(t)'
  <2>1. At(t)' \subseteq At(t) /\ c \notin At(t)'
    BY DEF SetChecks, Go, At
  <2>2. QED
    BY <1>2, <2>1, QuietElsewhere DEF SetChecks, Go, disk, setting, ghosts, At
<1>3. QED
  BY <1>1, <1>2

LEMMA ReadsQuiet ==
    ASSUME QuietInv, NEW c \in Sets, SetReads(c)  PROVE QuietInv'
<1> DEFINE u == request[c].tier
<1> USE DEF QuietInv, Shape, Busy
<1>1. u \in TierNames /\ pc[c] = "asked"
  BY DEF SetReads
<1>2. pc' = [pc EXCEPT ![c] = "opening"] \/ pc' = [pc EXCEPT ![c] = "done"]
  BY DEF SetReads, Go
<1>3. UNCHANGED <<request, file, temp, held, want, lost>>
      /\ \A d \in Sets \ {c} : d \in blind' <=> d \in blind
  BY DEF SetReads, disk
<1>4. DOMAIN body' = Sets /\ \A d \in Sets \ {c} : body'[d] = body[d]
  BY DEF SetReads
<1>5. Shape'
  BY <1>1, <1>2, <1>3, <1>4
<1>6. raced \subseteq raced'
  BY DEF SetReads, Joins
<1>7. ASSUME NEW t \in TierNames \ raced'  PROVE Quiet(t)'
  <2>1. Quiet(t)
    BY <1>6, <1>7
  <2>2. \A d \in At(t)' : d # c => d \in At(t)
    BY <1>2, <1>3 DEF At
  <2>3. CASE t # u \/ pc'[c] = "done"
    <3>1. c \notin At(t)'
      BY <2>3, <1>3 DEF At
    <3>2. \A d \in At(t)' : /\ d \in At(t)
                            /\ pc'[d] = pc[d] /\ body'[d] = body[d]
                            /\ held'[d] = held[d] /\ request'[d] = request[d]
                            /\ d \in blind' <=> d \in blind
      BY <2>2, <3>1, <1>2, <1>3, <1>4 DEF At
    <3>3. QED
      BY <2>1, <3>2, <1>3, QuietElsewhere
  <2>4. CASE t = u /\ pc'[c] # "done"
    <3>1. Joins(u, c)
      BY <2>4, <1>2 DEF SetReads, Go
    <3>2. At(u) = {}
      BY <3>1, <2>4, <1>7 DEF Joins
    <3>0. \/ body'[c] = MadeUp(file[u].doc, request[c]) /\ c \notin blind'
          \/ body'[c] = MadeUp(Empty, request[c]) /\ c \in blind'
      BY <2>4, <1>1, <1>2 DEF SetReads, Go
    <3>3. pc'[c] = "opening" /\ body'[c] = MadeUp(Base(c, t)', request[c])
      <4>1. Kept(t)' = Kept(t) /\ file[u].doc = Kept(t)
        BY <1>3, <2>1, <2>4 DEF Kept, Quiet
      <4>2. QED
        BY <1>2, <2>4, <3>0, <4>1 DEF Base, Empty
    <3>4. At(t)' = {c}
      <4>1. c \in At(t)'
        BY <2>4, <3>3, <1>3 DEF At
      <4>2. QED
        BY <4>1, <2>2, <2>4, <3>2 DEF At
    <3>5. Kept(t)' = Kept(t)
      BY <1>3 DEF Kept
    <3>6. QED
      BY <2>1, <2>4, <3>3, <3>4, <3>5, <1>3 DEF Quiet, MadeUp
  <2>5. QED
    BY <2>3, <2>4
<1>8. QED
  BY <1>5, <1>7

LEMMA OpensQuiet ==
    ASSUME QuietInv, NEW c \in Sets, SetOpens(c)  PROVE QuietInv'
<1> DEFINE u == request[c].tier
<1> USE DEF QuietInv, Shape, Busy, SetOpens, Go, ghosts
<1>1. Shape'
  OBVIOUS
<1>2. ASSUME NEW t \in TierNames \ raced'  PROVE Quiet(t)'
  <2>1. At(t)' = At(t)
    BY DEF At
  <2>0. Quiet(t)
    BY <1>2
  <2>2. CASE t = u
    <3>0. c \in At(t)
      BY <2>2 DEF At
    <3>1. At(t) = {c}
      BY <3>0, <2>0 DEF Quiet
    <3>2. temp'[t] = Torn /\ held'[c] = "temp" /\ pc'[c] = "filling"
      BY <2>2
    <3>3. UNCHANGED <<file, want, body, request>>
      BY DEF disk
    <3>4. Kept(t)' = Kept(t) /\ Base(c, t)' = Base(c, t)
      BY DEF Kept, Base, Empty
    <3>5. QED
      BY <2>0, <2>1, <3>1, <3>2, <3>3, <3>4 DEF Quiet, Torn, MadeUp
  <2>3. CASE t # u
    <3>1. \A d \in At(t)' : /\ d \in At(t)
                            /\ pc'[d] = pc[d] /\ body'[d] = body[d]
                            /\ held'[d] = held[d] /\ request'[d] = request[d]
      BY <2>1, <2>3 DEF At
    <3>2. QED
      BY <2>0, <2>3, <3>1, QuietElsewhere
  <2>4. QED
    BY <2>2, <2>3
<1>3. QED
  BY <1>1, <1>2

LEMMA FillsQuiet ==
    ASSUME QuietInv, NEW c \in Sets, SetFills(c)  PROVE QuietInv'
<1> DEFINE u == request[c].tier
<1> USE DEF QuietInv, Shape, Busy
<1>1. pc[c] = "filling" /\ u \in TierNames /\ pc' = [pc EXCEPT ![c] = "renaming"]
      /\ UNCHANGED <<request, body, held, want, lost, blind>>
  BY DEF SetFills, Go, setting
<1>2. raced \subseteq raced' /\ DOMAIN file' = TierNames /\ DOMAIN temp' = TierNames
      /\ \A t \in TierNames \ {u} : file'[t] = file[t] /\ temp'[t] = temp[t]
  BY <1>1 DEF SetFills, Replaces, disk
<1>3. Shape'
  BY <1>1, <1>2
<1>4. ASSUME NEW t \in TierNames \ raced'  PROVE Quiet(t)'
  <2>1. Quiet(t) /\ At(t)' = At(t)
    BY <1>1, <1>2, <1>4 DEF At
  <2>2. CASE t = u
    <3>1. At(t) = {c}
      BY <1>1, <2>1, <2>2 DEF At, Quiet
    <3>2. held[c] = "temp" /\ temp[t].form # "whole"
      BY <1>1, <2>1, <3>1 DEF Quiet
    <3>3. temp'[t] = Whole(body[c]) /\ UNCHANGED file
      BY <2>2, <3>2, <1>1 DEF SetFills, Filled
    <3>4. Kept(t)' = Kept(t) /\ Base(c, t)' = Base(c, t)
      BY <1>1 DEF Kept, Base, Empty
    <3>5. QED
      BY <1>1, <2>1, <3>1, <3>3, <3>4 DEF Quiet, MadeUp, Whole
  <2>3. CASE t # u
    BY <1>1, <1>2, <2>1, <2>3, QuietElsewhere DEF At
  <2>4. QED
    BY <2>2, <2>3
<1>5. QED
  BY <1>3, <1>4

LEMMA RenamesQuiet ==
    ASSUME QuietInv, NEW c \in Sets, SetRenames(c)  PROVE QuietInv'
<1> DEFINE u == request[c].tier
<1> USE DEF QuietInv, Shape, Busy
<1>1. pc[c] = "renaming" /\ u \in TierNames /\ pc' = [pc EXCEPT ![c] = "reloading"]
      /\ UNCHANGED <<request, body, blind>>
      /\ file' = [file EXCEPT ![u] = temp[u]]
      /\ temp' = [temp EXCEPT ![u] = Missing]
      /\ want' = [want EXCEPT ![u][request[c].key] = request[c].value]
      /\ lost' = [lost EXCEPT ![u] =
            (IF c \in blind THEN Keys ELSE lost[u]) \ {request[c].key}]
  BY DEF SetRenames, Go
<1>2. raced \subseteq raced' /\ DOMAIN held' = Sets
      /\ \A d \in Sets : request[d].tier # u => held'[d] = held[d]
  BY DEF SetRenames, Replaces
<1>3. Shape'
  BY <1>1, <1>2
<1>4. ASSUME NEW t \in TierNames \ raced'  PROVE Quiet(t)'
  <2>1. Quiet(t) /\ c \notin At(t)' /\ At(t)' \subseteq At(t)
    BY <1>1, <1>2, <1>4 DEF At
  <2>2. CASE t = u
    <3>1. At(t) = {c}
      BY <1>1, <2>1, <2>2 DEF At, Quiet
    <3>2. At(t)' = {}
      BY <2>1, <3>1
    <3>3. file'[t] = Whole(MadeUp(Base(c, t), request[c]))
      BY <1>1, <2>1, <2>2, <3>1 DEF Quiet
    <3>4. Kept(t)' = MadeUp(Base(c, t), request[c])
      <4>1. /\ want'[t] = [want[t] EXCEPT ![request[c].key] = request[c].value]
            /\ lost'[t] = (IF c \in blind THEN Keys ELSE lost[t]) \ {request[c].key}
        BY <1>1, <2>2
      <4>2. request[c].key \in Keys /\ DOMAIN want[t] = Keys
        BY <1>1, <2>2
      <4>3. CASE c \in blind
        BY <4>1, <4>2, <4>3 DEF MadeUp, Base, Kept, Empty
      <4>4. CASE c \notin blind
        BY <4>1, <4>2, <4>4 DEF MadeUp, Base, Kept
      <4>5. QED
        BY <4>3, <4>4
    <3>5. QED
      BY <3>2, <3>3, <3>4 DEF Quiet, Whole
  <2>3. CASE t # u
    <3>1. \A d \in At(t)' : held'[d] = held[d] /\ pc'[d] = pc[d]
      BY <1>1, <1>2, <2>1, <2>3 DEF At
    <3>2. QED
      BY <1>1, <2>1, <2>3, <3>1, QuietElsewhere
  <2>4. QED
    BY <2>2, <2>3
<1>5. QED
  BY <1>3, <1>4

\* Steps after the rename, and those that give up.
LEMMA LeavesQuiet ==
    ASSUME QuietInv, NEW c \in Sets,
           SetFails(c) \/ SetReloads(c) \/ SetDropped(c) \/ DescribeReads(c)
    PROVE  QuietInv'
<1> USE DEF QuietInv, Shape, Busy
<1>1. UNCHANGED <<request, file, temp, body, held, want, blind, lost, raced>>
  BY DEF SetFails, SetReloads, SetDropped, DescribeReads, disk, setting, ghosts
<1>2. \E label \in {"done", "dropped", "reading"} :
        /\ pc' = [pc EXCEPT ![c] = label]
        /\ label = "reading" => pc[c] \in {"reloading", "reading"}
  BY DEF SetFails, SetReloads, SetDropped, DescribeReads, Go
<1>3. Shape'
  BY <1>1, <1>2
<1>4. ASSUME NEW t \in TierNames \ raced'  PROVE Quiet(t)'
  <2>1. At(t)' \subseteq At(t) /\ c \notin At(t)'
    BY <1>1, <1>2 DEF At
  <2>2. QED
    BY <1>1, <1>2, <1>4, <2>1, QuietElsewhere DEF At
<1>5. QED
  BY <1>3, <1>4

LEMMA EditQuiet ==
    ASSUME QuietInv, NEW e \in Edits, NEW u \in TierNames, NEW key \in Keys, NEW value,
           Edit(e, u, key, value)
    PROVE  QuietInv'
<1> USE DEF QuietInv, Shape, Busy
<1>1. pc' = [pc EXCEPT ![e] = "done"] /\ UNCHANGED <<request, body, temp, blind>>
      /\ file' = [file EXCEPT ![u] = Whole([file[u].doc EXCEPT ![key] = value])]
      /\ want' = [want EXCEPT ![u][key] = value]
      /\ lost' = [lost EXCEPT ![u] = lost[u] \ {key}]
  BY DEF Edit, Go
<1>2. raced \subseteq raced' /\ DOMAIN held' = Sets
      /\ \A d \in Sets : held[d] # "file" \/ request[d].tier # u => held'[d] = held[d]
  BY DEF Edit, Replaces
<1>3. \A d \in Sets : pc'[d] = pc[d]
  BY <1>1, ConstantsAreApart
<1>4. Shape'
  BY <1>1, <1>2, <1>3
<1>5. ASSUME NEW t \in TierNames \ raced'  PROVE Quiet(t)'
  <2>1. Quiet(t) /\ At(t)' = At(t)
    BY <1>1, <1>2, <1>3, <1>5 DEF At
  <2>2. CASE t = u
    <3>1. At(t) \subseteq {e}
      BY <1>5, <2>2 DEF Edit, Replaces
    <3>2. At(t) = {}
      BY <3>1, ConstantsAreApart DEF At
    <3>3. file'[t].form = "whole" /\ file'[t].doc = [Kept(t) EXCEPT ![key] = value]
      BY <1>1, <2>1, <2>2 DEF Quiet, Whole
    <3>4. Kept(t)' = [Kept(t) EXCEPT ![key] = value]
      <4>1. want'[t] = [want[t] EXCEPT ![key] = value]
            /\ lost'[t] = lost[t] \ {key}
        BY <1>1, <2>2
      <4>2. DOMAIN want[t] = Keys
        BY <1>5
      <4>3. QED
        BY <4>1, <4>2 DEF Kept
    <3>5. QED
      BY <2>1, <3>2, <3>3, <3>4 DEF Quiet
  <2>3. CASE t # u
    <3>1. \A d \in At(t)' : held'[d] = held[d] /\ pc'[d] = pc[d]
      BY <1>2, <1>3, <2>1, <2>3 DEF At
    <3>2. QED
      BY <1>1, <2>1, <2>3, <3>1, QuietElsewhere
  <2>4. QED
    BY <2>2, <2>3
<1>6. QED
  BY <1>4, <1>5

LEMMA QuietInvariant == Spec => []QuietInv
<1>1. Init => QuietInv
  <2>1. Init => Shape
    BY DEF Init, Shape, Busy, Empty
  <2>2. ASSUME Init, NEW t \in TierNames  PROVE Quiet(t)
    BY <2>2 DEF Init, Quiet, At, Missing, Whole, Kept, Empty
  <2>3. QED
    BY <2>1, <2>2 DEF QuietInv
<1>2. QuietInv /\ [Next]_vars => QuietInv'
  <2> SUFFICES ASSUME QuietInv, [Next]_vars  PROVE QuietInv'
    OBVIOUS
  <2>1. ASSUME NEW c \in Sets, Set(c) \/ DescribeReads(c)  PROVE QuietInv'
    BY <2>1, ChecksQuiet, ReadsQuiet, OpensQuiet, FillsQuiet, RenamesQuiet,
       LeavesQuiet, Zenon DEF Set
  <2>2. ASSUME NEW e \in Edits, HandEdit(e) \/ SetProvider(e)  PROVE QuietInv'
    <3>1. "project" \in TierNames /\ Found \subseteq TierNames
      BY ConstantsAreApart DEF TierNames
    <3>2. QED
      BY <2>2, <3>1, EditQuiet, Zenon DEF HandEdit, SetProvider
  <2>3. CASE UNCHANGED vars
    <3>1. UNCHANGED <<pc, request, file, temp, body, held, want, blind, lost, raced>>
      BY <2>3 DEF vars, disk, setting, ghosts
    <3>2. ASSUME NEW t \in TierNames \ raced'  PROVE Quiet(t)'
      BY <3>1, QuietElsewhere DEF QuietInv, At
    <3>3. QED
      BY <3>1, <3>2 DEF QuietInv, Shape
  <2>4. QED
    BY <2>1, <2>2, <2>3, Zenon DEF Next
<1>3. QED
  BY <1>1, <1>2, PTL DEF Spec

\* At a tier that nobody edited while a set was between its read and its rename
\* each key shows its last edit, but for those that a set which could not read
\* the file took out since.
THEOREM KeysShowTheirLastEdits == Spec => []EachKeyShowsItsLastEdit
<1>1. QuietInv => EachKeyShowsItsLastEdit
  BY DEF QuietInv, Quiet, EachKeyShowsItsLastEdit
<1>2. QED
  BY <1>1, QuietInvariant, PTL

-----------------------------------------------------------------------------
(* What the answer of a set shows *)

Touching == {"opening", "filling", "renaming"}

\* A set that is at its tier uncrossed is there alone, and what it is about to
\* put in place has its value.
Alone(c) ==
    LET t == request[c].tier
    IN  /\ \A d \in At(t) : d = c
        /\ body[c][request[c].key] = request[c].value
        /\ pc[c] = "filling" => held[c] = "temp" /\ temp[t].form # "whole"
        /\ pc[c] = "renaming" => temp[t] = Whole(body[c])

\* Its value stands in the file until it has been read for the answer, and
\* then in the answer.
Stands(c) ==
    LET r == request[c]
    IN  /\ pc[c] \in {"reloading", "reading"} =>
                file[r.tier].form # "torn" /\ file[r.tier].doc[r.key] = r.value
        /\ \A i \in 1 .. 3 :
                i < next[c] /\ Tiers[i] = r.tier /\ r.tier \notin problems[c] =>
                    shown[c][r.tier] = r.value

\* Where a set stands and how far its answer has come.
Going(c) ==
    /\ pc[c] # "idle" => request[c] \in Requests
    /\ pc[c] \in {"idle", "asked", "reloading"} \cup Touching => next[c] = 1
    /\ pc[c] = "reading" => next[c] \in 1 .. 3
    /\ c \in written => /\ pc[c] \in {"reloading", "reading", "done", "dropped"}
                        /\ pc[c] = "done" => next[c] = 4

Showing(c) ==
    /\ Going(c)
    /\ c \notin crossed /\ pc[c] \in Touching => Alone(c)
    /\ c \in written \ crossed => Stands(c)

ShownInv == TypeOK /\ \A c \in Sets : Showing(c)

LEMMA TierFacts ==
    /\ Len(Tiers) = 3
    /\ Tiers[1] = "global" /\ Tiers[2] = "scene" /\ Tiers[3] = "project"
    /\ \A i \in 1 .. 3 : Tiers[i] \in TierNames
BY DEF Tiers, TierNames

LEMMA RequestFacts ==
    ASSUME NEW r \in Requests
    PROVE  /\ r.tier \in TierNames /\ r.tier \in Found
           /\ r.key \in Keys /\ r.value \in Values \cup {None}
BY ConstantsAreApart DEF Requests

\* A step that leaves a set, its tier's temporary file while the set is at it,
\* and its tier's file while the set is yet to show it, as they are.
LEMMA ShowingStays ==
    ASSUME NEW c \in Sets, Showing(c),
           /\ pc'[c] = pc[c] /\ request'[c] = request[c] /\ body'[c] = body[c]
           /\ next'[c] = next[c] /\ shown'[c] = shown[c] /\ problems'[c] = problems[c],
           c \in written' <=> c \in written,
           crossed \subseteq crossed',
           c \notin crossed' /\ pc[c] \in Touching =>
                /\ At(request[c].tier)' \subseteq At(request[c].tier)
                /\ temp'[request[c].tier] = temp[request[c].tier]
                /\ held'[c] = held[c],
           c \notin crossed' /\ pc[c] \in {"reloading", "reading"} =>
                file'[request[c].tier] = file[request[c].tier]
    PROVE  Showing(c)'
<1>1. Going(c)'
  BY DEF Showing, Going
<1>2. ASSUME c \notin crossed', pc'[c] \in Touching  PROVE Alone(c)'
  <2>1. Alone(c)
    BY <1>2 DEF Showing
  <2>2. /\ At(request[c].tier)' \subseteq At(request[c].tier)
        /\ temp'[request[c].tier] = temp[request[c].tier] /\ held'[c] = held[c]
    BY <1>2
  <2>3. QED
    BY <2>1, <2>2 DEF Alone, Whole, At
<1>3. ASSUME c \in written' \ crossed'  PROVE Stands(c)'
  <2>1. Stands(c)
    BY <1>3 DEF Showing
  <2>2. QED
    BY <1>3, <2>1 DEF Stands
<1>4. QED
  BY <1>1, <1>2, <1>3 DEF Showing

LEMMA DocumentFacts ==
    /\ Empty \in Documents
    /\ \A doc \in Documents, key \in Keys, value \in Values \cup {None} :
            /\ [doc EXCEPT ![key] = value] \in Documents
            /\ [doc EXCEPT ![key] = value][key] = value
    /\ \A doc \in Documents : Whole(doc) \in Files
    /\ Missing \in Files /\ Torn \in Files
<1>1. Empty \in Documents
  BY DEF Empty, Documents
<1>2. \A doc \in Documents, key \in Keys, value \in Values \cup {None} :
            /\ [doc EXCEPT ![key] = value] \in Documents
            /\ [doc EXCEPT ![key] = value][key] = value
  BY DEF Documents
<1>3. QED
  BY <1>1, <1>2 DEF Whole, Missing, Torn, Files

LEMMA MadeUpFacts ==
    ASSUME NEW doc \in Documents, NEW r \in Requests
    PROVE  MadeUp(doc, r) \in Documents /\ MadeUp(doc, r)[r.key] = r.value
<1>1. r.key \in Keys /\ r.value \in Values \cup {None}
  BY RequestFacts
<1>2. QED
  BY <1>1, DocumentFacts DEF MadeUp

\* The labels a set or an edit goes through.
Labels ==
    {"idle", "asked", "opening", "filling", "renaming", "reloading", "reading", "done", "dropped"}

LEMMA ShownChecks ==
    ASSUME ShownInv, NEW c \in Sets, SetChecks(c)  PROVE ShownInv'
<1>1. pc \in [Sets \cup Edits -> Labels] /\ DOMAIN request = Sets
  BY DEF ShownInv, TypeOK, Labels
<1>2. PICK r \in Requests : request' = [request EXCEPT ![c] = r]
  BY DEF SetChecks
<1>3. /\ pc[c] = "idle" /\ pc' = [pc EXCEPT ![c] = "asked"]
      /\ UNCHANGED <<file, temp, body, held, written, next, shown, problems, want, blind, lost, raced, crossed>>
  BY DEF SetChecks, Go, disk, setting, reading, ghosts
<1>4. TypeOK'
  <2>1. pc' \in [Sets \cup Edits -> Labels]
    BY <1>1, <1>3 DEF Labels
  <2>2. request' \in [Sets -> {None} \cup Requests]
    BY <1>2 DEF ShownInv, TypeOK, Requests
  <2>3. QED
    BY <1>3, <2>1, <2>2 DEF ShownInv, TypeOK, Labels, Requests
<1>5. ASSUME NEW d \in Sets  PROVE Showing(d)'
  <2>1. CASE d = c
    <3>1. pc'[c] = "asked" /\ request'[c] = r
      BY <1>1, <1>2, <1>3
    <3>2. next[c] = 1 /\ c \notin written
      BY <1>3 DEF ShownInv, Showing, Going
    <3>3. QED
      BY <1>3, <2>1, <3>1, <3>2 DEF Showing, Going, Touching
  <2>2. CASE d # c
    <3>1. pc'[d] = pc[d] /\ request'[d] = request[d]
      BY <1>1, <1>2, <1>3, <2>2
    <3>2. ASSUME NEW t  PROVE At(t)' \subseteq At(t)
      BY <1>1, <1>2, <1>3 DEF At
    <3>3. QED
      BY <1>3, <3>1, <3>2, ShowingStays DEF ShownInv
  <2>3. QED
    BY <2>1, <2>2
<1>6. QED
  BY <1>4, <1>5 DEF ShownInv

LEMMA ShownReads ==
    ASSUME ShownInv, NEW c \in Sets, SetReads(c)  PROVE ShownInv'
<1> DEFINE u == request[c].tier
<1>1. pc \in [Sets \cup Edits -> Labels] /\ body \in [Sets -> Documents]
      /\ raced \subseteq TierNames /\ crossed \subseteq Sets
      /\ file \in [TierNames -> Files]
  BY DEF ShownInv, TypeOK, Labels
<1>2. /\ pc[c] = "asked" /\ request[c] \in Requests
      /\ UNCHANGED <<request, file, temp, held, written, next, shown, problems, want, lost>>
      /\ blind' \subseteq Sets
  BY DEF SetReads, disk, reading, ShownInv, TypeOK, Showing, Going
<1>3. /\ u \in TierNames /\ request[c].key \in Keys
      /\ request[c].value \in Values \cup {None}
  BY <1>2, RequestFacts
<1>4. file[u].doc \in Documents
  BY <1>1, <1>3 DEF Files
<1>5. \/ /\ pc' = [pc EXCEPT ![c] = "done"]
         /\ UNCHANGED <<body, raced, crossed>>
      \/ /\ pc' = [pc EXCEPT ![c] = "opening"]
         /\ \E doc \in Documents : body' = [body EXCEPT ![c] = MadeUp(doc, request[c])]
         /\ raced' \subseteq raced \cup {u}
         /\ crossed \subseteq crossed' /\ crossed' \subseteq Sets
         /\ c \notin crossed' => At(u) = {}
         /\ At(u) \subseteq crossed'
  <2>1. At(u) \subseteq Sets
    BY DEF At
  <2>2. Empty \in Documents
    BY DocumentFacts
  <2> HIDE DEF u
  <2>3. QED
    BY <1>1, <1>4, <2>1, <2>2 DEF SetReads, Joins, Go, u
<1>6. TypeOK'
  <2>1. pc' \in [Sets \cup Edits -> Labels]
    BY <1>1, <1>5 DEF Labels
  <2>2. body' \in [Sets -> Documents]
    BY <1>1, <1>2, <1>5, MadeUpFacts
  <2>3. raced' \subseteq TierNames /\ crossed' \subseteq Sets
    BY <1>1, <1>3, <1>5
  <2>4. QED
    BY <1>2, <2>1, <2>2, <2>3 DEF ShownInv, TypeOK, Labels
<1>7. ASSUME NEW d \in Sets  PROVE Showing(d)'
  <2>0. Showing(c) /\ Showing(d)
    BY DEF ShownInv
  <2>1. CASE d = c /\ pc'[c] = "done"
    BY <1>2, <1>5, <2>0, <2>1 DEF Showing, Going, Touching
  <2>2. CASE d = c /\ pc'[c] # "done"
    <3>1. pc' = [pc EXCEPT ![c] = "opening"] /\ (c \notin crossed' => At(u) = {})
      BY <1>1, <1>5, <2>2
    <3>2. PICK doc \in Documents : body' = [body EXCEPT ![c] = MadeUp(doc, request[c])]
      BY <1>1, <1>5, <2>2
    <3>3. pc'[c] = "opening" /\ body'[c][request[c].key] = request[c].value
      BY <1>1, <1>2, <3>1, <3>2, MadeUpFacts
    <3>4. Going(c)'
      BY <1>2, <2>0, <3>3 DEF Showing, Going, Touching
    <3>5. c \notin written'
      BY <1>2, <2>0 DEF Showing, Going
    <3>6. ASSUME c \notin crossed'  PROVE \A e \in At(u)' : e = c
      <4>1. \A e \in Sets : e # c => pc'[e] = pc[e] /\ request'[e] = request[e]
        BY <1>1, <1>2, <3>1
      <4>2. \A e \in Sets : e # c /\ e \in At(u)' => e \in At(u)
        BY <1>2, <4>1 DEF At
      <4>3. At(u) = {}
        BY <3>1, <3>6
      <4>4. QED
        BY <4>2, <4>3 DEF At
    <3>7. QED
      BY <1>2, <2>2, <3>3, <3>4, <3>5, <3>6 DEF Showing, Alone
  <2>3. CASE d # c
    <3>1. pc'[d] = pc[d] /\ body'[d] = body[d] /\ crossed \subseteq crossed'
      BY <1>1, <1>5, <2>3
    <3>2. ASSUME d \notin crossed', pc[d] \in Touching
          PROVE  At(request[d].tier)' \subseteq At(request[d].tier)
      <4>1. CASE pc'[c] = "done"
        BY <1>1, <1>2, <1>5, <4>1 DEF At
      <4>2. CASE pc'[c] # "done"
        <5>1. At(u) \subseteq crossed'
          BY <1>1, <1>5, <4>2
        <5>2. request[d].tier # u
          BY <3>2, <5>1 DEF At, Touching
        <5>3. QED
          BY <1>1, <1>2, <1>5, <5>2 DEF At
      <4>3. QED
        BY <4>1, <4>2
    <3>3. QED
      BY <1>2, <2>0, <3>1, <3>2, ShowingStays
  <2>4. QED
    BY <2>1, <2>2, <2>3
<1>8. QED
  BY <1>6, <1>7 DEF ShownInv

\* Of two sets at one tier neither is uncrossed.
LEMMA TwoAreCrossed ==
    ASSUME ShownInv, NEW c \in Sets, NEW d \in Sets, c # d,
           pc[c] \in Touching, pc[d] \in Touching, request[c].tier = request[d].tier
    PROVE  d \in crossed
<1>1. c \in At(request[d].tier)
  BY DEF At, Touching
<1>2. QED
  BY <1>1 DEF ShownInv, Showing, Alone

LEMMA ShownOpens ==
    ASSUME ShownInv, NEW c \in Sets, SetOpens(c)  PROVE ShownInv'
<1> DEFINE u == request[c].tier
<1>1. /\ pc \in [Sets \cup Edits -> Labels] /\ temp \in [TierNames -> Files]
      /\ held \in [Sets -> {"temp", "file", "gone"}]
  BY DEF ShownInv, TypeOK, Labels
<1>2. /\ pc[c] = "opening" /\ pc' = [pc EXCEPT ![c] = "filling"]
      /\ temp' = [temp EXCEPT ![u] = Torn] /\ held' = [held EXCEPT ![c] = "temp"]
      /\ UNCHANGED <<request, file, body, written, next, shown, problems, want, blind, lost, raced, crossed>>
  BY DEF SetOpens, Go, reading, ghosts
<1>3. request[c] \in Requests /\ u \in TierNames
  BY <1>2, RequestFacts DEF ShownInv, Showing, Going
<1>4. TypeOK'
  <2>1. pc' \in [Sets \cup Edits -> Labels] /\ temp' \in [TierNames -> Files]
        /\ held' \in [Sets -> {"temp", "file", "gone"}]
    BY <1>1, <1>2, <1>3, DocumentFacts DEF Labels
  <2>2. QED
    BY <1>2, <2>1 DEF ShownInv, TypeOK, Labels
<1>5. ASSUME NEW t  PROVE At(t)' = At(t)
  BY <1>1, <1>2 DEF At
<1>6. ASSUME NEW d \in Sets  PROVE Showing(d)'
  <2>0. Showing(c) /\ Showing(d)
    BY DEF ShownInv
  <2>1. CASE d = c
    <3>1. pc'[c] = "filling" /\ held'[c] = "temp" /\ temp'[u] = Torn
      BY <1>1, <1>2, <1>3
    <3>2. Going(c)' /\ c \notin written'
      BY <1>2, <2>0, <3>1 DEF Showing, Going, Touching
    <3>3. ASSUME c \notin crossed  PROVE Alone(c)'
      <4>1. Alone(c)
        BY <1>2, <2>0, <3>3 DEF Showing, Touching
      <4>2. QED
        BY <1>2, <1>5, <3>1, <4>1 DEF Alone, Torn
    <3>4. QED
      BY <1>2, <2>1, <3>1, <3>2, <3>3 DEF Showing, Touching
  <2>2. CASE d # c
    <3>1. pc'[d] = pc[d] /\ held'[d] = held[d]
      BY <1>1, <1>2, <2>2
    <3>2. ASSUME d \notin crossed', pc[d] \in Touching
          PROVE  temp'[request[d].tier] = temp[request[d].tier]
      BY <1>1, <1>2, <2>2, <3>2, TwoAreCrossed DEF Touching
    <3>3. QED
      BY <1>2, <1>5, <2>0, <3>1, <3>2, ShowingStays
  <2>3. QED
    BY <2>1, <2>2
<1>7. QED
  BY <1>4, <1>6 DEF ShownInv

LEMMA ShownFills ==
    ASSUME ShownInv, NEW c \in Sets, SetFills(c)  PROVE ShownInv'
<1> DEFINE u == request[c].tier
<1>1. /\ pc \in [Sets \cup Edits -> Labels] /\ temp \in [TierNames -> Files]
      /\ file \in [TierNames -> Files] /\ body \in [Sets -> Documents]
      /\ raced \subseteq TierNames /\ crossed \subseteq Sets
  BY DEF ShownInv, TypeOK, Labels
<1>2. /\ pc[c] = "filling" /\ pc' = [pc EXCEPT ![c] = "renaming"]
      /\ UNCHANGED <<request, body, held, written, next, shown, problems, want, blind, lost>>
  BY DEF SetFills, Go, setting, reading
<1>3. request[c] \in Requests /\ u \in TierNames
  BY <1>2, RequestFacts DEF ShownInv, Showing, Going
<1>4. /\ file' \in [TierNames -> Files] /\ temp' \in [TierNames -> Files]
      /\ raced' \subseteq TierNames /\ crossed \subseteq crossed' /\ crossed' \subseteq Sets
      /\ \A t \in TierNames \ {u} : file'[t] = file[t] /\ temp'[t] = temp[t]
      /\ UNCHANGED file \/ About(u) \ {c} \subseteq crossed'
      /\ held[c] = "temp" =>
            /\ UNCHANGED <<file, raced, crossed>>
            /\ \E f \in Filled(temp[u], body[c]) : temp' = [temp EXCEPT ![u] = f]
  <2>2. Filled(temp[u], body[c]) \subseteq Files /\ Filled(file[u], body[c]) \subseteq Files
    BY <1>1, DocumentFacts DEF Filled
  <2>3. About(u) \subseteq Sets
    BY DEF About, At
  <2> HIDE DEF u
  <2>4. CASE /\ held[c] = "temp"
             /\ \E f \in Filled(temp[u], body[c]) : temp' = [temp EXCEPT ![u] = f]
             /\ UNCHANGED <<file, raced, crossed>>
    BY <1>1, <1>3, <2>2, <2>4
  <2>5. CASE /\ held[c] = "file"
             /\ \E f \in Filled(file[u], body[c]) : file' = [file EXCEPT ![u] = f]
             /\ Replaces(u, c)
             /\ UNCHANGED temp
    BY <1>1, <1>3, <2>2, <2>3, <2>5 DEF Replaces
  <2>6. CASE held[c] = "gone" /\ UNCHANGED <<disk, raced, crossed>>
    BY <1>1, <2>6 DEF disk
  <2>7. QED
    BY <2>4, <2>5, <2>6 DEF SetFills, u
<1>5. TypeOK'
  <2>1. pc' \in [Sets \cup Edits -> Labels]
    BY <1>1, <1>2 DEF Labels
  <2>2. QED
    BY <1>2, <1>4, <2>1 DEF ShownInv, TypeOK, Labels
<1>6. ASSUME NEW t  PROVE At(t)' = At(t)
  BY <1>1, <1>2 DEF At
<1>7. ASSUME NEW d \in Sets  PROVE Showing(d)'
  <2>0. Showing(c) /\ Showing(d)
    BY DEF ShownInv
  <2>1. CASE d = c
    <3>1. pc'[c] = "renaming"
      BY <1>1, <1>2
    <3>2. Going(c)' /\ c \notin written'
      BY <1>2, <2>0, <3>1 DEF Showing, Going, Touching
    <3>3. ASSUME c \notin crossed'  PROVE Alone(c)'
      <4>1. Alone(c)
        BY <1>2, <1>4, <2>0, <3>3 DEF Showing, Touching
      <4>2. held[c] = "temp" /\ temp[u].form # "whole"
        BY <1>2, <4>1 DEF Alone
      <4>3. temp'[u] = Whole(body[c])
        BY <1>1, <1>3, <1>4, <4>2 DEF Filled
      <4>4. QED
        BY <1>2, <1>6, <3>1, <4>1, <4>3 DEF Alone, Whole
    <3>4. QED
      BY <2>1, <3>1, <3>2, <3>3 DEF Showing, Touching
  <2>2. CASE d # c
    <3>1. pc'[d] = pc[d]
      BY <1>1, <1>2, <2>2
    <3>2. ASSUME d \notin crossed', pc[d] \in Touching
          PROVE  temp'[request[d].tier] = temp[request[d].tier]
      <4>1. request[d] \in Requests /\ request[d].tier \in TierNames
        BY <2>0, <3>2, RequestFacts DEF Showing, Going, Touching
      <4>2. request[d].tier # u
        BY <1>2, <1>4, <2>2, <3>2, TwoAreCrossed DEF Touching
      <4>3. QED
        BY <1>4, <4>1, <4>2
    <3>3. ASSUME d \notin crossed', pc[d] \in {"reloading", "reading"}
          PROVE  file'[request[d].tier] = file[request[d].tier]
      <4>1. request[d] \in Requests /\ request[d].tier \in TierNames
        BY <2>0, <3>3, RequestFacts DEF Showing, Going
      <4>2. CASE request[d].tier = u
        BY <1>4, <2>2, <3>3, <4>2 DEF About
      <4>3. CASE request[d].tier # u
        BY <1>4, <4>1, <4>3
      <4>4. QED
        BY <4>2, <4>3
    <3>4. QED
      BY <1>2, <1>4, <1>6, <2>0, <3>1, <3>2, <3>3, ShowingStays
  <2>3. QED
    BY <2>1, <2>2
<1>8. QED
  BY <1>5, <1>7 DEF ShownInv

LEMMA ShownRenames ==
    ASSUME ShownInv, NEW c \in Sets, SetRenames(c)  PROVE ShownInv'
<1> DEFINE u == request[c].tier
<1>1. /\ pc \in [Sets \cup Edits -> Labels] /\ temp \in [TierNames -> Files]
      /\ file \in [TierNames -> Files] /\ body \in [Sets -> Documents]
      /\ raced \subseteq TierNames /\ crossed \subseteq Sets
      /\ want \in [TierNames -> Documents] /\ held \in [Sets -> {"temp", "file", "gone"}]
      /\ written \subseteq Sets
  BY DEF ShownInv, TypeOK, Labels
<1>2. /\ pc[c] = "renaming" /\ pc' = [pc EXCEPT ![c] = "reloading"]
      /\ file' = [file EXCEPT ![u] = temp[u]]
      /\ temp' = [temp EXCEPT ![u] = Missing]
      /\ written' = written \cup {c}
      /\ UNCHANGED <<request, body, next, shown, problems, blind>>
  BY DEF SetRenames, Go, reading
<1>3. request[c] \in Requests /\ u \in TierNames /\ request[c].key \in Keys
      /\ request[c].value \in Values \cup {None}
  BY <1>2, RequestFacts DEF ShownInv, Showing, Going
<1>4. /\ raced' \subseteq TierNames /\ crossed \subseteq crossed' /\ crossed' \subseteq Sets
      /\ About(u) \ {c} \subseteq crossed'
  <2>1. About(u) \subseteq Sets
    BY DEF About, At
  <2>2. Replaces(u, c)
    BY DEF SetRenames
  <2> HIDE DEF u
  <2>3. QED
    BY <1>1, <1>3, <2>1, <2>2 DEF Replaces
<1>5. /\ held' \in [Sets -> {"temp", "file", "gone"}]
      /\ \A d \in Sets : request[d].tier # u => held'[d] = held[d]
  BY <1>1 DEF SetRenames
<1>10. lost' \in [TierNames -> SUBSET Keys]
  <2>1. lost \in [TierNames -> SUBSET Keys]
    BY DEF ShownInv, TypeOK
  <2>2. lost' = [lost EXCEPT ![u] = (IF c \in blind THEN Keys ELSE lost[u]) \ {request[c].key}]
    BY DEF SetRenames
  <2>3. QED
    BY <1>3, <2>1, <2>2
<1>6. want' \in [TierNames -> Documents]
  <2>1. want' = [want EXCEPT ![u] = [want[u] EXCEPT ![request[c].key] = request[c].value]]
    BY DEF SetRenames
  <2>2. want[u] \in Documents
    BY <1>1, <1>3
  <2>3. [want[u] EXCEPT ![request[c].key] = request[c].value] \in Documents
    BY <1>3, <2>2, DocumentFacts
  <2>4. QED
    BY <1>1, <1>3, <2>1, <2>3
<1>7. TypeOK'
  <2>1. /\ pc' \in [Sets \cup Edits -> Labels]
        /\ file' \in [TierNames -> Files] /\ temp' \in [TierNames -> Files]
    BY <1>1, <1>2, <1>3, DocumentFacts DEF Labels
  <2>2. QED
    BY <1>1, <1>2, <1>4, <1>5, <1>6, <1>10, <2>1 DEF ShownInv, TypeOK, Labels
<1>8. ASSUME NEW d \in Sets  PROVE Showing(d)'
  <2>0. Showing(c) /\ Showing(d)
    BY DEF ShownInv
  <2>1. CASE d = c
    <3>1. pc'[c] = "reloading"
      BY <1>1, <1>2
    <3>2. Going(c)' /\ next'[c] = 1
      BY <1>2, <2>0, <3>1 DEF Showing, Going, Touching
    <3>3. ASSUME c \notin crossed'  PROVE Stands(c)'
      <4>1. Alone(c)
        BY <1>2, <1>4, <2>0, <3>3 DEF Showing, Touching
      <4>2. file'[u] = Whole(body[c]) /\ body[c][request[c].key] = request[c].value
        BY <1>1, <1>2, <1>3, <4>1 DEF Alone
      <4>3. file'[u].form # "torn" /\ file'[u].doc[request[c].key] = request[c].value
        BY <4>2 DEF Whole
      <4>4. QED
        BY <1>2, <3>2, <4>3 DEF Stands
    <3>4. QED
      BY <2>1, <3>1, <3>2, <3>3 DEF Showing, Touching
  <2>2. CASE d # c
    <3>1. pc'[d] = pc[d] /\ (d \in written' <=> d \in written)
      BY <1>1, <1>2, <2>2
    <3>2. ASSUME d \notin crossed', pc[d] \in Touching \cup {"reloading", "reading"}
          PROVE  request[d].tier \in TierNames /\ request[d].tier # u
      <4>1. request[d] \in Requests /\ request[d].tier \in TierNames
        BY <2>0, <3>2, RequestFacts DEF Showing, Going, Touching
      <4>2. request[d].tier = u => d \in About(u)
        BY <3>2 DEF About, At, Touching
      <4>3. QED
        BY <1>4, <2>2, <3>2, <4>1, <4>2
    <3>3. ASSUME d \notin crossed', pc[d] \in Touching
          PROVE  /\ At(request[d].tier)' \subseteq At(request[d].tier)
                 /\ temp'[request[d].tier] = temp[request[d].tier]
                 /\ held'[d] = held[d]
      <4>1. request[d].tier \in TierNames /\ request[d].tier # u
        BY <3>2, <3>3
      <4>2. At(request[d].tier)' \subseteq At(request[d].tier)
        BY <1>1, <1>2 DEF At
      <4>3. QED
        BY <1>1, <1>2, <1>5, <4>1, <4>2
    <3>4. ASSUME d \notin crossed', pc[d] \in {"reloading", "reading"}
          PROVE  file'[request[d].tier] = file[request[d].tier]
      BY <1>1, <1>2, <3>2, <3>4
    <3>5. QED
      BY <1>2, <1>4, <2>0, <3>1, <3>3, <3>4, ShowingStays
  <2>3. QED
    BY <2>1, <2>2
<1>9. QED
  BY <1>7, <1>8 DEF ShownInv

\* Steps that leave the tiers alone.
LEMMA ShownLeaves ==
    ASSUME ShownInv, NEW c \in Sets, SetFails(c) \/ SetReloads(c) \/ SetDropped(c)
    PROVE  ShownInv'
<1>1. pc \in [Sets \cup Edits -> Labels]
  BY DEF ShownInv, TypeOK, Labels
<1>2. UNCHANGED <<request, file, temp, body, held, written, next, shown, problems, want, blind, lost, raced, crossed>>
  BY DEF SetFails, SetReloads, SetDropped, disk, setting, reading, ghosts
<1>3. \/ pc[c] \in Touching /\ pc' = [pc EXCEPT ![c] = "done"]
      \/ pc[c] = "reloading" /\ pc' = [pc EXCEPT ![c] = "reading"]
      \/ pc[c] \in {"reloading", "reading"} /\ pc' = [pc EXCEPT ![c] = "dropped"]
  BY DEF SetFails, SetReloads, SetDropped, Go, Touching
<1>4. TypeOK'
  <2>1. pc' \in [Sets \cup Edits -> Labels]
    BY <1>1, <1>3 DEF Labels
  <2>2. QED
    BY <1>2, <2>1 DEF ShownInv, TypeOK, Labels
<1>5. ASSUME NEW d \in Sets  PROVE Showing(d)'
  <2>0. Showing(c) /\ Showing(d)
    BY DEF ShownInv
  <2>1. CASE d = c
    <3>1. Going(c)' /\ pc'[c] \notin Touching
      BY <1>1, <1>2, <1>3, <2>0 DEF Showing, Going, Touching
    <3>2. ASSUME c \in written \ crossed  PROVE Stands(c)'
      <4>1. Stands(c) /\ pc[c] \in {"reloading", "reading"}
        BY <1>3, <2>0, <3>2 DEF Showing, Going, Touching
      <4>2. QED
        BY <1>2, <4>1 DEF Stands
    <3>3. QED
      BY <1>2, <2>1, <3>1, <3>2 DEF Showing
  <2>2. CASE d # c
    <3>1. pc'[d] = pc[d]
      BY <1>1, <1>3, <2>2
    <3>2. ASSUME NEW t  PROVE At(t)' \subseteq At(t)
      BY <1>1, <1>2, <1>3 DEF At, Touching
    <3>3. QED
      BY <1>2, <2>0, <3>1, <3>2, ShowingStays
  <2>3. QED
    BY <2>1, <2>2
<1>6. QED
  BY <1>4, <1>5 DEF ShownInv

LEMMA ShownDescribes ==
    ASSUME ShownInv, NEW c \in Sets, DescribeReads(c)  PROVE ShownInv'
<1> DEFINE n == next[c]
           t == Tiers[n]
           r == request[c]
<1>1. /\ pc \in [Sets \cup Edits -> Labels] /\ file \in [TierNames -> Files]
      /\ next \in [Sets -> 1 .. 4] /\ problems \in [Sets -> SUBSET TierNames]
      /\ shown \in [Sets -> [TierNames -> Values \cup {None}]]
  BY TierFacts DEF ShownInv, TypeOK, Labels
<1>2. /\ pc[c] = "reading" /\ next' = [next EXCEPT ![c] = n + 1]
      /\ UNCHANGED <<request, file, temp, body, held, written, want, blind, lost, raced, crossed>>
  BY DEF DescribeReads, disk, setting, ghosts
<1>3. r \in Requests /\ r.tier \in TierNames /\ r.tier \in Found /\ r.key \in Keys
  BY <1>2, RequestFacts DEF ShownInv, Showing, Going
<1>4. n \in 1 .. 3 /\ t \in TierNames
  BY <1>2, TierFacts DEF ShownInv, Showing, Going
<1>5. pc' = [pc EXCEPT ![c] = IF n = 3 THEN "done" ELSE "reading"]
  BY TierFacts DEF DescribeReads, Go
<1>6. \/ /\ \E v \in Values \cup {None} :
                /\ shown' = [shown EXCEPT ![c] = [shown[c] EXCEPT ![t] = v]]
                /\ t = r.tier => v = file[t].doc[r.key]
         /\ UNCHANGED problems
      \/ /\ problems' = [problems EXCEPT ![c] = problems[c] \cup {t}]
         /\ UNCHANGED shown
  <2> DEFINE v == IF t \in Found THEN file[t].doc[r.key] ELSE None
  <2>1. v \in Values \cup {None} /\ (t = r.tier => v = file[t].doc[r.key])
    BY <1>1, <1>3, <1>4 DEF Files, Documents
  <2>2. \/ shown' = [shown EXCEPT ![c][t] = v] /\ UNCHANGED problems
        \/ problems' = [problems EXCEPT ![c] = problems[c] \cup {t}] /\ UNCHANGED shown
    BY DEF DescribeReads
  <2>3. shown' = [shown EXCEPT ![c][t] = v]
            => shown' = [shown EXCEPT ![c] = [shown[c] EXCEPT ![t] = v]]
    OBVIOUS
  <2> HIDE DEF v, t, r
  <2>4. QED
    BY <2>1, <2>2, <2>3
<1> HIDE DEF t
<1>7. TypeOK'
  <2>1. pc' \in [Sets \cup Edits -> Labels] /\ next' \in [Sets -> 1 .. 4]
    BY <1>1, <1>2, <1>4, <1>5 DEF Labels
  <2>2. problems' \in [Sets -> SUBSET TierNames]
    BY <1>1, <1>4, <1>6
  <2>3. shown' \in [Sets -> [TierNames -> Values \cup {None}]]
    <3>1. CASE UNCHANGED shown
      BY <1>1, <3>1
    <3>2. ASSUME NEW v \in Values \cup {None},
                 shown' = [shown EXCEPT ![c] = [shown[c] EXCEPT ![t] = v]]
          PROVE  shown' \in [Sets -> [TierNames -> Values \cup {None}]]
      <4>1. shown[c] \in [TierNames -> Values \cup {None}]
        BY <1>1
      <4>2. [shown[c] EXCEPT ![t] = v] \in [TierNames -> Values \cup {None}]
        BY <3>2, <4>1
      <4>3. QED
        BY <1>1, <3>2, <4>2
    <3>3. QED
      BY <1>6, <3>1, <3>2
  <2>4. QED
    BY <1>2, <2>1, <2>2, <2>3, TierFacts DEF ShownInv, TypeOK, Labels
<1>8. ASSUME NEW d \in Sets  PROVE Showing(d)'
  <2>0. Showing(c) /\ Showing(d)
    BY DEF ShownInv
  <2>1. CASE d = c
    <3>1. pc'[c] \in {"reading", "done"} /\ (pc'[c] = "done" <=> n = 3) /\ next'[c] = n + 1
      BY <1>1, <1>2, <1>5
    <3>2. Going(c)'
      BY <1>2, <1>4, <2>0, <3>1 DEF Showing, Going, Touching
    <3>3. ASSUME c \in written \ crossed  PROVE Stands(c)'
      <4>1. Stands(c)
        BY <2>0, <3>3 DEF Showing
      <4>2. file[r.tier].form # "torn" /\ file[r.tier].doc[r.key] = r.value
        BY <1>2, <4>1 DEF Stands
      <4>3. ASSUME NEW i \in 1 .. 3, i < n + 1, Tiers[i] = r.tier, r.tier \notin problems'[c]
            PROVE  shown'[c][r.tier] = r.value
        <5>1. problems[c] \subseteq problems'[c]
          BY <1>1, <1>6
        <5>2. CASE i < n
          <6>1. shown[c][r.tier] = r.value
            BY <4>1, <4>3, <5>1, <5>2 DEF Stands
          <6>2. t # r.tier
            BY <1>4, <4>3, <5>2, TierFacts DEF t
          <6>3. QED
            BY <1>1, <1>3, <1>4, <1>6, <6>1, <6>2
        <5>3. CASE i = n
          <6>1. t = r.tier
            BY <4>3, <5>3 DEF t
          <6>2. t \notin problems'[c]
            BY <4>3, <6>1
          <6>3. QED
            BY <1>1, <1>4, <1>6, <4>2, <6>1, <6>2
        <5>4. QED
          BY <1>4, <4>3, <5>2, <5>3
      <4>4. QED
        BY <1>2, <3>1, <4>2, <4>3 DEF Stands
    <3>4. QED
      BY <1>2, <2>1, <3>1, <3>2, <3>3 DEF Showing, Touching
  <2>2. CASE d # c
    <3>1. /\ pc'[d] = pc[d] /\ next'[d] = next[d]
          /\ shown'[d] = shown[d] /\ problems'[d] = problems[d]
      BY <1>1, <1>2, <1>5, <1>6, <2>2
    <3>2. ASSUME NEW u  PROVE At(u)' \subseteq At(u)
      BY <1>1, <1>2, <1>5 DEF At
    <3>3. QED
      BY <1>2, <2>0, <3>1, <3>2, ShowingStays
  <2>3. QED
    BY <2>1, <2>2
<1>9. QED
  BY <1>7, <1>8 DEF ShownInv

LEMMA ShownEdits ==
    ASSUME ShownInv, NEW e \in Edits, NEW u \in TierNames, NEW key \in Keys,
           NEW value \in Values \cup {None}, Edit(e, u, key, value)
    PROVE  ShownInv'
<1>1. /\ pc \in [Sets \cup Edits -> Labels] /\ file \in [TierNames -> Files]
      /\ want \in [TierNames -> Documents] /\ held \in [Sets -> {"temp", "file", "gone"}]
      /\ raced \subseteq TierNames /\ crossed \subseteq Sets
  BY DEF ShownInv, TypeOK, Labels
<1>2. /\ pc' = [pc EXCEPT ![e] = "done"]
      /\ file' = [file EXCEPT ![u] = Whole([file[u].doc EXCEPT ![key] = value])]
      /\ UNCHANGED <<request, temp, body, written, next, shown, problems, blind>>
  BY DEF Edit, Go, reading
<1>3. \A d \in Sets : pc'[d] = pc[d]
  BY <1>1, <1>2, ConstantsAreApart
<1>4. /\ raced' \subseteq TierNames /\ crossed \subseteq crossed' /\ crossed' \subseteq Sets
      /\ About(u) \subseteq crossed'
  <2>1. About(u) \subseteq Sets /\ e \notin Sets
    BY ConstantsAreApart DEF About, At
  <2>2. Replaces(u, e)
    BY DEF Edit
  <2>3. QED
    BY <1>1, <2>1, <2>2 DEF Replaces
<1>5. /\ held' \in [Sets -> {"temp", "file", "gone"}]
      /\ \A d \in Sets : request[d].tier # u => held'[d] = held[d]
  BY <1>1 DEF Edit
<1>6. TypeOK'
  <2>1. pc' \in [Sets \cup Edits -> Labels]
    BY <1>1, <1>2 DEF Labels
  <2>2. file' \in [TierNames -> Files]
    <3>1. [file[u].doc EXCEPT ![key] = value] \in Documents
      BY <1>1, DocumentFacts DEF Files
    <3>2. QED
      BY <1>1, <1>2, <3>1, DocumentFacts
  <2>3. want' \in [TierNames -> Documents]
    <3>1. want' = [want EXCEPT ![u] = [want[u] EXCEPT ![key] = value]]
      BY DEF Edit
    <3>2. [want[u] EXCEPT ![key] = value] \in Documents
      BY <1>1, DocumentFacts
    <3>3. QED
      BY <1>1, <3>1, <3>2
  <2>5. lost' \in [TierNames -> SUBSET Keys]
    <3>1. lost \in [TierNames -> SUBSET Keys]
      BY DEF ShownInv, TypeOK
    <3>2. lost' = [lost EXCEPT ![u] = lost[u] \ {key}]
      BY DEF Edit
    <3>3. QED
      BY <3>1, <3>2
  <2>4. QED
    BY <1>2, <1>4, <1>5, <2>1, <2>2, <2>3, <2>5 DEF ShownInv, TypeOK, Labels
<1>7. ASSUME NEW t  PROVE At(t)' = At(t)
  BY <1>2, <1>3 DEF At
<1>8. ASSUME NEW d \in Sets  PROVE Showing(d)'
  <2>0. Showing(d)
    BY DEF ShownInv
  <2>1. ASSUME d \notin crossed', pc[d] \in Touching \cup {"reloading", "reading"}
        PROVE  request[d].tier \in TierNames /\ request[d].tier # u
    <3>1. request[d] \in Requests /\ request[d].tier \in TierNames
      BY <2>0, <2>1, RequestFacts DEF Showing, Going, Touching
    <3>2. request[d].tier = u => d \in About(u)
      BY <2>1 DEF About, At, Touching
    <3>3. QED
      BY <1>4, <2>1, <3>1, <3>2
  <2>2. ASSUME d \notin crossed', pc[d] \in Touching
        PROVE  /\ At(request[d].tier)' \subseteq At(request[d].tier)
               /\ temp'[request[d].tier] = temp[request[d].tier]
               /\ held'[d] = held[d]
    BY <1>2, <1>5, <1>7, <2>1, <2>2
  <2>3. ASSUME d \notin crossed', pc[d] \in {"reloading", "reading"}
        PROVE  file'[request[d].tier] = file[request[d].tier]
    BY <1>1, <1>2, <2>1, <2>3
  <2>4. QED
    BY <1>2, <1>3, <1>4, <2>0, <2>2, <2>3, ShowingStays
<1>9. QED
  BY <1>6, <1>8 DEF ShownInv

LEMMA ShownInvariant == Spec => []ShownInv
<1>1. Init => ShownInv
  <2> SUFFICES ASSUME Init  PROVE ShownInv
    OBVIOUS
  <2>1. TypeOK
    <3>1. file \in [TierNames -> Files] /\ temp \in [TierNames -> Files]
      BY DocumentFacts DEF Init
    <3>2. /\ body \in [Sets -> Documents] /\ want \in [TierNames -> Documents]
      BY DocumentFacts DEF Init
    <3>3. /\ pc \in [Sets \cup Edits -> Labels]
          /\ held \in [Sets -> {"temp", "file", "gone"}]
      BY DEF Init, Labels
    <3>4. /\ next \in [Sets -> 1 .. 4]
          /\ shown \in [Sets -> [TierNames -> Values \cup {None}]]
          /\ problems \in [Sets -> SUBSET TierNames]
      BY DEF Init
    <3>5. request \in [Sets -> {None} \cup
                [tier : Found, key : Editable, value : Accepted \cup {None}]]
      BY DEF Init
    <3>6. /\ blind \subseteq Sets /\ lost \in [TierNames -> SUBSET Keys]
          /\ written \subseteq Sets /\ raced \subseteq TierNames /\ crossed \subseteq Sets
      BY DEF Init
    <3>7. QED
      BY <3>1, <3>2, <3>3, <3>4, <3>5, <3>6, TierFacts DEF TypeOK, Labels
  <2>2. ASSUME NEW c \in Sets  PROVE Showing(c)
    BY <2>2 DEF Init, Showing, Going, Touching
  <2>3. QED
    BY <2>1, <2>2 DEF ShownInv
<1>2. ShownInv /\ [Next]_vars => ShownInv'
  <2> SUFFICES ASSUME ShownInv, [Next]_vars  PROVE ShownInv'
    OBVIOUS
  <2>1. ASSUME NEW c \in Sets, Set(c) \/ DescribeReads(c)  PROVE ShownInv'
    BY <2>1, ShownChecks, ShownReads, ShownOpens, ShownFills, ShownRenames,
       ShownLeaves, ShownDescribes, Zenon DEF Set
  <2>2. ASSUME NEW e \in Edits, HandEdit(e) \/ SetProvider(e)  PROVE ShownInv'
    <3>1. "project" \in TierNames /\ Found \subseteq TierNames
      BY ConstantsAreApart DEF TierNames
    <3>2. QED
      BY <2>2, <3>1, ShownEdits DEF HandEdit, SetProvider
  <2>3. CASE UNCHANGED vars
    <3>1. /\ UNCHANGED <<pc, request, file, temp, body, held, written>>
          /\ UNCHANGED <<next, shown, problems, want, blind, lost, raced, crossed>>
      BY <2>3 DEF vars, disk, setting, reading, ghosts
    <3>2. TypeOK'
      BY <3>1 DEF ShownInv, TypeOK
    <3>3. ASSUME NEW t  PROVE At(t)' = At(t)
      BY <3>1 DEF At
    <3>4. ASSUME NEW c \in Sets  PROVE Showing(c)'
      BY <3>1, <3>3, ShowingStays DEF ShownInv
    <3>5. QED
      BY <3>2, <3>4 DEF ShownInv
  <2>4. QED
    BY <2>1, <2>2, <2>3, Zenon DEF Next
<1>3. QED
  BY <1>1, <1>2, PTL DEF Spec

\* Everything the settings plane keeps has its type; a file is missing, a whole
\* document, or torn where two wrote it at once.
THEOREM SettingsTypesHold == Spec => []TypeOK
<1>1. ShownInv => TypeOK
  BY DEF ShownInv
<1>2. QED
  BY <1>1, ShownInvariant, PTL

\* The answer of a set that nobody crossed shows the value it set, in its tier
\* and as the effective one when no higher tier sets the key.
THEOREM WritesAreShown == Spec => []WriteIsShown
<1>1. ASSUME ShownInv  PROVE WriteIsShown
  <2> SUFFICES ASSUME NEW c \in written \ crossed, pc[c] = "done",
                      request[c].tier \notin problems[c]
               PROVE  LET r == request[c]
                          above == {Tiers[i] : i \in {i \in DOMAIN Tiers :
                                     \E j \in DOMAIN Tiers : Tiers[j] = r.tier /\ j < i}}
                      IN  /\ shown[c][r.tier] = r.value
                          /\ r.value # None /\ (\A t \in above : shown[c][t] = None)
                                => Effective(c) = r.value /\ Source(c) = r.tier
    BY DEF WriteIsShown
  <2> DEFINE r == request[c]
             above == {Tiers[i] : i \in {i \in DOMAIN Tiers :
                        \E j \in DOMAIN Tiers : Tiers[j] = r.tier /\ j < i}}
             setIn == {i \in DOMAIN Tiers : shown[c][Tiers[i]] # None}
  <2>1. c \in Sets /\ next[c] = 4 /\ r \in Requests
    BY <1>1 DEF ShownInv, TypeOK, Showing, Going
  <2>2. DOMAIN Tiers = 1 .. 3 /\ r.tier \in TierNames
    BY <2>1, RequestFacts DEF Tiers
  <2>3. PICK n \in 1 .. 3 : Tiers[n] = r.tier
    BY <2>2, TierFacts DEF TierNames
  <2>4. shown[c][r.tier] = r.value
    <3>1. Stands(c)
      BY <1>1, <2>1 DEF ShownInv, Showing
    <3>2. QED
      BY <2>1, <2>3, <3>1 DEF Stands
  <2>5. ASSUME r.value # None, \A t \in above : shown[c][t] = None
        PROVE  Effective(c) = r.value /\ Source(c) = r.tier
    <3>1. n \in setIn
      BY <2>2, <2>3, <2>4, <2>5
    <3>2. \A i \in setIn : i <= n
      <4>1. \A i \in 1 .. 3 : i > n => Tiers[i] \in above
        BY <2>2, <2>3
      <4>2. QED
        BY <2>2, <2>3, <2>5, <4>1
    <3>3. setIn \subseteq 1 .. 3
      BY <2>2
    <3>4. Source(c) = Tiers[CHOOSE i \in setIn : \A j \in setIn : j <= i]
      BY <3>1 DEF Source
    <3> HIDE DEF setIn, above
    <3>5. (CHOOSE i \in setIn : \A j \in setIn : j <= i) = n
      <4>1. \A i \in setIn : (\A j \in setIn : j <= i) => i = n
        BY <3>1, <3>2, <3>3
      <4>2. QED
        BY <3>1, <3>2, <4>1
    <3>6. Source(c) = r.tier
      BY <2>3, <3>4, <3>5
    <3>7. Source(c) # None
      BY <2>2, <3>6, ConstantsAreApart
    <3>8. QED
      BY <2>4, <3>6, <3>7 DEF Effective
  <2>6. QED
    BY <2>4, <2>5
<1>2. QED
  BY <1>1, ShownInvariant, PTL
=============================================================================
