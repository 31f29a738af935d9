--------------------------- MODULE DurableDocument ---------------------------
(***************************************************************************)
(* What crates/builtin/src/store.rs promises of its one file: a document   *)
(* that changes while the process runs, is saved as a whole or not at all, *)
(* and comes back from a restart as it was last saved.  A restart that     *)
(* cannot read it begins blank: what was saved stays saved until the next  *)
(* save replaces it, and is gone then.                                     *)
(***************************************************************************)
CONSTANTS
    Blank   \* the document of a start with no file

VARIABLES
    running,    \* the process runs
    doc,        \* the document it serves
    saved       \* the document a start would begin with

DocumentInit == running = TRUE /\ doc = Blank /\ saved = Blank

Change == running /\ UNCHANGED <<running, saved>>

Save == running /\ saved' = doc /\ UNCHANGED <<running, doc>>

Stop == running /\ running' = FALSE /\ UNCHANGED <<doc, saved>>

\* Nobody but the process writes the file while it runs. While it does not,
\* somebody may damage it, and what it held is gone.
Lose == ~running /\ saved' = Blank /\ UNCHANGED <<running, doc>>

Restart == ~running /\ running' = TRUE /\ doc' = saved /\ UNCHANGED saved

\* The file is there and cannot be read.
RestartBlind ==
    ~running /\ running' = TRUE /\ doc' = Blank /\ UNCHANGED saved

DocumentNext == Change \/ Save \/ Stop \/ Lose \/ Restart \/ RestartBlind

DocumentSpec == DocumentInit /\ [][DocumentNext]_<<running, doc, saved>>
=============================================================================
