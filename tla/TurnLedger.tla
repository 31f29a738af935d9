----------------------------- MODULE TurnLedger -----------------------------
(***************************************************************************)
(* What the hub promises about the messages of one session, whatever order *)
(* its calls interleave in: a message waits at most once, is taken off the *)
(* queue in the order it went on, is held by exactly one turn, and is      *)
(* reported settled once; or it is abandoned while it waits, or lost while *)
(* held, and never runs again.  HubTurns implements this specification.    *)
(***************************************************************************)
EXTENDS SequencesExt

CONSTANT Messages

VARIABLES waiting,    \* messages in the queue, oldest first
          held,       \* messages a turn has been promised to and not yet settled
          finished,   \* messages whose turn was reported settled
          gone        \* messages abandoned while they waited, or lost

ledger == <<waiting, held, finished, gone>>

Known == ToSet(waiting) \cup held \cup finished \cup gone

Init ==
    /\ waiting = <<>>
    /\ held = {}
    /\ finished = {}
    /\ gone = {}

\* A message that finds the session idle is promised a turn at once.
Take(m) ==
    /\ m \notin Known
    /\ held' = held \cup {m}
    /\ UNCHANGED <<waiting, finished, gone>>

\* A message that finds the session busy joins the end of the queue.
Wait(m) ==
    /\ m \notin Known
    /\ waiting' = Append(waiting, m)
    /\ UNCHANGED <<held, finished, gone>>

\* The oldest waiting message, and no other, is promised a turn.
Advance ==
    /\ waiting # <<>>
    /\ held' = held \cup {Head(waiting)}
    /\ waiting' = Tail(waiting)
    /\ UNCHANGED <<finished, gone>>

Finish(m) ==
    /\ m \in held
    /\ held' = held \ {m}
    /\ finished' = finished \cup {m}
    /\ UNCHANGED <<waiting, gone>>

\* A held message is lost together with the call that brought it.
Lose(m) ==
    /\ m \in held
    /\ held' = held \ {m}
    /\ gone' = gone \cup {m}
    /\ UNCHANGED <<waiting, finished>>

\* One waiting message is taken back.
Withdraw(i) ==
    /\ waiting' = RemoveAt(waiting, i)
    /\ gone' = gone \cup {waiting[i]}
    /\ UNCHANGED <<held, finished>>

\* The whole queue is abandoned.
Abandon ==
    /\ waiting' = <<>>
    /\ gone' = gone \cup ToSet(waiting)
    /\ UNCHANGED <<held, finished>>

Next ==
    \/ \E m \in Messages : Take(m) \/ Wait(m) \/ Finish(m) \/ Lose(m)
    \/ \E i \in DOMAIN waiting : Withdraw(i)
    \/ Advance
    \/ Abandon

Spec == Init /\ [][Next]_ledger
=============================================================================
