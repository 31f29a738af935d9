------------------------------- MODULE Settings ------------------------------
(***************************************************************************)
(* The settings plane: crates/builtin/src/settings.rs.                     *)
(*                                                                         *)
(* Three tiers, each one settings.json.  nest.settings.set reads a tier's  *)
(* file, changes one key, writes the whole document to settings.json.tmp   *)
(* and renames it over the file; it holds no lock, and every call for a    *)
(* tier uses the same temporary name.  The same files are edited by people *)
(* and by the engine (config.setProvider).  Every set ends by reading tier *)
(* after tier for its answer, which is nest.settings.describe; that call   *)
(* by itself takes the same steps and changes nothing.                     *)
(*                                                                         *)
(* A document is what it gives each key; nesting is left out.  std::fs::   *)
(* write opens (and empties) the file, then fills it: a writer keeps the   *)
(* file it opened, whatever name that file has by then.                    *)
(***************************************************************************)
EXTENDS Naturals, Sequences

CONSTANTS
    Sets,           \* calls of nest.settings.set
    Edits,          \* edits by hand or by the engine
    Keys, Values,
    Editable,       \* FIELDS: the keys that may be set
    Accepted,       \* the values a field accepts
    Found,          \* the tiers that have a path for this session
    None,           \* null: a tier that does not set the key
    MayNotRead      \* whether reading a file that is there can fail

Tiers == <<"global", "scene", "project">>

TierNames == {"global", "scene", "project"}

ASSUME ConstantsAreApart ==
    /\ Edits \cap Sets = {}
    /\ Editable \subseteq Keys /\ Accepted \subseteq Values
    /\ None \notin Values \cup TierNames
    /\ Found \subseteq TierNames
    /\ MayNotRead \in BOOLEAN

Documents == [Keys -> Values \cup {None}]

Empty == [k \in Keys |-> None]

Missing == [form |-> "missing", doc |-> Empty]
Torn == [form |-> "torn", doc |-> Empty]
Whole(doc) == [form |-> "whole", doc |-> doc]

VARIABLES
    file, temp,     \* settings.json and settings.json.tmp of each tier
    pc,
    request,        \* the tier, key and value a call is about
    body,           \* the document a set has made up
    held,           \* the name its open file has by now: temp, file or gone
    next,           \* the number of the tier a describe reads next
    shown,          \* what it read of the key in each tier
    problems,       \* the tiers it could not read
    written,        \* the sets whose rename worked
    want,           \* each tier as the edits say, one after the other
    blind,          \* sets that could not read the file they change
    lost,           \* of each tier, the keys such a set took out with its rename
    raced,          \* tiers edited by one while another was at it
    crossed         \* calls whose tier another edited or set out to edit

disk == <<file, temp>>
setting == <<body, held, written>>
reading == <<next, shown, problems>>
ghosts == <<want, blind, lost, raced, crossed>>
vars == <<pc, request, disk, setting, reading, ghosts>>

\* What gets past the checks of settings_set.
Requests == [tier : Found, key : Editable, value : Accepted \cup {None}]

Init ==
    /\ \E f \in {Missing, Whole(Empty)} : file = [t \in TierNames |-> f]
    /\ temp = [t \in TierNames |-> Missing]
    /\ pc = [c \in Sets \cup Edits |-> "idle"]
    /\ request = [c \in Sets |-> None]
    /\ body = [c \in Sets |-> Empty]
    /\ held = [c \in Sets |-> "gone"]
    /\ written = {}
    /\ next = [c \in Sets |-> 1]
    /\ shown = [c \in Sets |-> [t \in TierNames |-> None]]
    /\ problems = [c \in Sets |-> {}]
    /\ want = [t \in TierNames |-> Empty]
    /\ blind = {}
    /\ lost = [t \in TierNames |-> {}]
    /\ raced = {}
    /\ crossed = {}

Go(c, label) == pc' = [pc EXCEPT ![c] = label]

-----------------------------------------------------------------------------
(* Who is at a tier *)

\* Sets that have read the tier's file and have yet to replace it.
At(tier) ==
    {c \in Sets : /\ pc[c] \in {"opening", "filling", "renaming"}
                  /\ request[c].tier = tier}

\* Calls that touch the tier or have yet to show it.
About(tier) ==
    At(tier) \cup {c \in Sets : pc[c] \in {"reloading", "reading"} /\ request[c].tier = tier}

\* c, or an edit, is about to replace the tier's file.
Replaces(tier, c) ==
    /\ raced' = raced \cup (IF At(tier) \subseteq {c} THEN {} ELSE {tier})
    /\ crossed' = crossed \cup (About(tier) \ {c})

\* c sets out while others are at the tier.
Joins(tier, c) ==
    IF At(tier) = {} THEN UNCHANGED <<raced, crossed>>
    ELSE /\ raced' = raced \cup {tier}
         /\ crossed' = crossed \cup At(tier) \cup {c}

-----------------------------------------------------------------------------
(* nest.settings.set *)

\* Mutant: the document is made up anew.
MadeAnew(doc, r) == [Empty EXCEPT ![r.key] = r.value]

\* set_path in the document read; null takes the key out.
MadeUp(doc, r) == [doc EXCEPT ![r.key] = r.value]

\* Only a field, with a value it accepts, in a tier that has a path; whatever
\* else is asked for is refused here.
SetChecks(c) ==
    /\ pc[c] = "idle"
    /\ \E r \in Requests : request' = [request EXCEPT ![c] = r]
    /\ Go(c, "asked")
    /\ UNCHANGED <<disk, setting, reading, ghosts>>

\* A file that does not parse refuses the call; one that is not there counts as
\* empty, and so does one that could not be read.
SetReads(c) ==
    LET t == request[c].tier
        Begins(doc) == /\ body' = [body EXCEPT ![c] = MadeUp(doc, request[c])]
                       /\ Go(c, "opening")
    IN  /\ pc[c] = "asked"
        /\ \/ /\ file[t].form = "torn"
              /\ Go(c, "done")
              /\ UNCHANGED <<body, blind, raced, crossed>>
           \/ /\ file[t].form # "torn"
              /\ Begins(file[t].doc)
              /\ Joins(t, c)
              /\ UNCHANGED blind
           \/ /\ MayNotRead /\ file[t].form # "missing"
              /\ Begins(Empty)
              /\ Joins(t, c)
              /\ blind' = blind \cup {c}
        /\ UNCHANGED <<request, disk, held, written, reading, want, lost>>

SetOpens(c) ==
    /\ pc[c] = "opening"
    /\ temp' = [temp EXCEPT ![request[c].tier] = Torn]
    /\ held' = [held EXCEPT ![c] = "temp"]
    /\ Go(c, "filling")
    /\ UNCHANGED <<request, file, body, written, reading, ghosts>>

\* Two writers in one file leave the last one's document, or a mixture.
Filled(was, doc) == IF was.form = "whole" THEN {Whole(doc), Torn} ELSE {Whole(doc)}

SetFills(c) ==
    LET t == request[c].tier IN
    /\ pc[c] = "filling"
    /\ \/ /\ held[c] = "temp"
          /\ \E f \in Filled(temp[t], body[c]) : temp' = [temp EXCEPT ![t] = f]
          /\ UNCHANGED <<file, raced, crossed>>
       \/ /\ held[c] = "file"
          /\ \E f \in Filled(file[t], body[c]) : file' = [file EXCEPT ![t] = f]
          /\ Replaces(t, c)
          /\ UNCHANGED temp
       \/ held[c] = "gone" /\ UNCHANGED <<disk, raced, crossed>>
    /\ Go(c, "renaming")
    /\ UNCHANGED <<request, setting, reading, want, blind, lost>>

\* Whatever stands under the temporary name becomes the file; who holds that
\* file open goes on writing to it.
SetRenames(c) ==
    LET t == request[c].tier
        holding == {d \in Sets : held[d] # "gone" /\ request[d].tier = t}
    IN  /\ pc[c] = "renaming"
        /\ temp[t] # Missing
        /\ file' = [file EXCEPT ![t] = temp[t]]
        /\ temp' = [temp EXCEPT ![t] = Missing]
        /\ held' = [d \in Sets |->
                IF d \in holding
                THEN IF held[d] = "temp" /\ d # c THEN "file" ELSE "gone"
                ELSE held[d]]
        /\ written' = written \cup {c}
        /\ want' = [want EXCEPT ![t][request[c].key] = request[c].value]
        /\ lost' = [lost EXCEPT ![t] =
                (IF c \in blind THEN Keys ELSE @) \ {request[c].key}]
        /\ Replaces(t, c)
        /\ Go(c, "reloading")
        /\ UNCHANGED <<request, body, reading, blind>>

\* Making the directory, writing or renaming fails; a rename fails for sure
\* when another call took the temporary file away.
SetFails(c) ==
    /\ pc[c] \in {"opening", "filling", "renaming"}
    /\ Go(c, "done")
    /\ UNCHANGED <<request, disk, setting, reading, ghosts>>

\* config.reload, whose failure is only told.
SetReloads(c) ==
    /\ pc[c] = "reloading"
    /\ Go(c, "reading")
    /\ UNCHANGED <<request, disk, setting, reading, ghosts>>

\* The request is dropped at the await of an engine call.
SetDropped(c) ==
    /\ pc[c] \in {"reloading", "reading"}
    /\ Go(c, "dropped")
    /\ UNCHANGED <<request, disk, setting, reading, ghosts>>

Set(c) ==
    \/ SetChecks(c) \/ SetReads(c) \/ SetOpens(c) \/ SetFills(c) \/ SetRenames(c)
    \/ SetFails(c) \/ SetReloads(c) \/ SetDropped(c)

-----------------------------------------------------------------------------
(* settings_describe, for the answer of a set *)

\* config.get of one tier. A tier with no file answers null; a call that fails
\* is null too and is reported.
DescribeReads(c) ==
    LET t == Tiers[next[c]] IN
    /\ pc[c] = "reading"
    /\ \/ /\ file[t].form # "torn"
          /\ shown' = [shown EXCEPT ![c][t] =
                IF t \in Found THEN file[t].doc[request[c].key] ELSE None]
          /\ UNCHANGED problems
       \/ /\ problems' = [problems EXCEPT ![c] = @ \cup {t}]
          /\ UNCHANGED shown
    /\ next' = [next EXCEPT ![c] = @ + 1]
    /\ Go(c, IF next[c] = Len(Tiers) THEN "done" ELSE "reading")
    /\ UNCHANGED <<request, disk, setting, ghosts>>

\* Mutant: the lowest tier wins.
LowestSource(c) ==
    LET setIn == {i \in DOMAIN Tiers : shown[c][Tiers[i]] # None}
    IN  IF setIn = {} THEN None ELSE Tiers[CHOOSE i \in setIn : \A j \in setIn : i <= j]

\* The tier that the effective value comes from: the highest that sets it.
Source(c) ==
    LET setIn == {i \in DOMAIN Tiers : shown[c][Tiers[i]] # None}
    IN  IF setIn = {} THEN None ELSE Tiers[CHOOSE i \in setIn : \A j \in setIn : j <= i]

Effective(c) == IF Source(c) = None THEN None ELSE shown[c][Source(c)]

-----------------------------------------------------------------------------
(* Edits of the same files by others, each in one piece *)

Edit(e, tier, key, value) ==
    /\ pc[e] = "idle"
    /\ file[tier].form # "torn"
    /\ file' = [file EXCEPT ![tier] = Whole([@.doc EXCEPT ![key] = value])]
    /\ want' = [want EXCEPT ![tier][key] = value]
    /\ lost' = [lost EXCEPT ![tier] = @ \ {key}]
    /\ held' = [d \in Sets |->
            IF held[d] = "file" /\ request[d].tier = tier THEN "gone" ELSE held[d]]
    /\ Replaces(tier, e)
    /\ Go(e, "done")
    /\ UNCHANGED <<request, temp, body, written, reading, blind>>

HandEdit(e) ==
    \E tier \in Found, key \in Keys, value \in Values \cup {None} :
        Edit(e, tier, key, value)

\* nest.settings.setProvider: the engine writes the project tier itself.
SetProvider(e) ==
    /\ "project" \in Found
    /\ \E key \in Keys \ Editable, value \in Values \cup {None} :
        Edit(e, "project", key, value)

Next ==
    \/ \E c \in Sets : Set(c) \/ DescribeReads(c)
    \/ \E e \in Edits : HandEdit(e) \/ SetProvider(e)

Spec == Init /\ [][Next]_vars

-----------------------------------------------------------------------------
(* Properties *)

Files == [form : {"missing", "torn", "whole"}, doc : Documents]

TypeOK ==
    /\ file \in [TierNames -> Files] /\ temp \in [TierNames -> Files]
    /\ pc \in [Sets \cup Edits ->
        {"idle", "asked", "opening", "filling", "renaming", "reloading", "reading", "done", "dropped"}]
    /\ request \in [Sets -> {None} \cup
                [tier : Found, key : Editable, value : Accepted \cup {None}]]
    /\ body \in [Sets -> Documents]
    /\ held \in [Sets -> {"temp", "file", "gone"}]
    /\ next \in [Sets -> 1 .. Len(Tiers) + 1]
    /\ shown \in [Sets -> [TierNames -> Values \cup {None}]]
    /\ problems \in [Sets -> SUBSET TierNames]
    /\ written \subseteq Sets
    /\ want \in [TierNames -> Documents]
    /\ blind \subseteq Sets /\ lost \in [TierNames -> SUBSET Keys]
    /\ raced \subseteq TierNames /\ crossed \subseteq Sets

\* What the edits of a tier come to, but for the keys a blind set took out.
Kept(tier) == [k \in Keys |-> IF k \in lost[tier] THEN None ELSE want[tier][k]]

\* settings.rs: "Hand edits and engine writes ... are preserved because the file
\* is re-read immediately before each change, and replaced atomically". So it is
\* where a tier was never edited by one while a set was between its read and
\* its rename, and where that read worked. A read that fails counts as an empty
\* file (settings_set, `Err(_) => json!({})`): the set then takes every other
\* key out of the tier, with nobody else about. That is all it costs: each key
\* shows its last edit, or nothing from such a set until the next edit of it,
\* never an earlier edit, and the file is never half a document.
EachKeyShowsItsLastEdit ==
    \A t \in TierNames \ raced : file[t].form # "torn" /\ file[t].doc = Kept(t)

\* A settings page must not "report that a write it just made did nothing": the
\* answer of a set shows the value in its tier, and as the effective one when no
\* higher tier sets the key, unless others were at that tier meanwhile.
WriteIsShown ==
    \A c \in written \ crossed :
        LET r == request[c]
            above == {Tiers[i] : i \in {i \in DOMAIN Tiers :
                        \E j \in DOMAIN Tiers : Tiers[j] = r.tier /\ j < i}}
        IN  pc[c] = "done" /\ r.tier \notin problems[c] =>
                /\ shown[c][r.tier] = r.value
                /\ r.value # None /\ (\A t \in above : shown[c][t] = None)
                    => Effective(c) = r.value /\ Source(c) = r.tier

\* What the comment says without the conditions: "a hand edit or an engine write
\* ... must survive this". It does not where two are at a tier, and, with nobody
\* else there, where the read of the file fails.
EditsSurvive == \A t \in TierNames : file[t].doc = want[t]
=============================================================================
