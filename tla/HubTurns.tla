------------------------------ MODULE HubTurns ------------------------------
(***************************************************************************)
(* The turn loop of one session: crates/hub/src/turns.rs.                  *)
(*                                                                         *)
(* Every call runs as a task of its own.  A task gives up the processor at *)
(* each call to the engine and at each release of the hub's one mutex, so  *)
(* one action here is one critical section or one engine reply, and        *)
(* everything between two of them may interleave.  A send that finds the   *)
(* session idle becomes the driver of a turn loop: the task goes on as the *)
(* loop that start_turn spawns.  A call that came as an HTTP request is    *)
(* dropped where it stands when its client goes away.                      *)
(*                                                                         *)
(* A turn is named by the message it runs (new_id makes a fresh name for   *)
(* both).  Sequence numbers, the replay buffer and the watchers belong to  *)
(* module HubFrames, which extends this one.                               *)
(***************************************************************************)
EXTENDS SequencesExt

CONSTANTS
    Sends,      \* nest.send calls, each carrying one message
    Stops,      \* session.interrupt calls
    Removals,   \* nest.queue.remove calls
    Closes,     \* session.close and session.delete calls
    HttpCalls,  \* those that came as an HTTP request of their own
    None

Tasks == Sends \cup Stops \cup Removals \cup Closes

ASSUME TasksAreDistinct ==
    /\ Sends \cap (Stops \cup Removals \cup Closes) = {}
    /\ Stops \cap (Removals \cup Closes) = {}
    /\ Removals \cap Closes = {}
    /\ HttpCalls \subseteq Tasks
    /\ None \notin Sends

VARIABLES
    running,    \* SessionState.running_turn
    queue,      \* SessionState.queue
    pc,         \* where each task stands
    cur,        \* the message each driver is running
    nxt,        \* the message a driver took off the queue and runs next
    snap,       \* the queue each task read under the lock and has yet to push
    engine,     \* the turn the engine is running: it allows one per session
    onDisk,     \* whether the engine knows the session
    shown,      \* the queue as the watchers were last told
    settled,    \* messages whose nest.turn_settled went out
    dropped,    \* messages taken on that will not run
    refused,    \* messages whose run_turn the engine refused as SESSION_BUSY
    late,       \* messages queued when no driver was left to take them
    stopped     \* messages that waited behind a turn when it was interrupted

hub == <<running, queue>>
tasks == <<pc, cur, nxt, snap>>
history == <<settled, dropped, refused, late, stopped>>
vars == <<hub, tasks, engine, onDisk, shown, history>>

\* From the busy check that found the session idle to the critical section of
\* settle_turn: a driver standing here will still look at the queue.
Driving == {"opening", "opened", "calling", "inEngine", "returned"}

PC == Driving \cup
    {"new", "known", "watching", "queueing", "settling", "snapshot",
     "clearing", "removing", "telling", "pushing", "done", "failed", "lost"}

TypeOK ==
    /\ running \in Sends \cup {None}
    /\ queue \in Seq(Sends)
    /\ pc \in [Tasks -> PC]
    /\ cur \in [Sends -> Sends]
    /\ nxt \in [Sends -> Sends \cup {None}]
    /\ snap \in [Tasks -> Seq(Sends)]
    /\ engine \in Sends \cup {None}
    /\ onDisk \in BOOLEAN
    /\ shown \in Seq(Sends)
    /\ settled \subseteq Sends
    /\ dropped \subseteq Sends
    /\ refused \subseteq Sends
    /\ late \subseteq Sends
    /\ stopped \subseteq Sends

Init ==
    /\ running = None
    /\ queue = <<>>
    /\ pc = [t \in Tasks |-> "new"]
    /\ cur = [s \in Sends |-> s]
    /\ nxt = [s \in Sends |-> None]
    /\ snap = [t \in Tasks |-> <<>>]
    /\ engine = None
    /\ onDisk = TRUE
    /\ shown = <<>>
    /\ settled = {}
    /\ dropped = {}
    /\ refused = {}
    /\ late = {}
    /\ stopped = {}

\* Drivers that will still take from the queue: those on their way to
\* settle_turn, and those that have already taken the next message.
Live(d) == pc[d] \in Driving \/ nxt[d] # None

\* The messages driver d answers for.
Holds(d, m) ==
    \/ cur[d] = m /\ pc[d] \in Driving \cup {"settling"}
    \/ nxt[d] = m

Held == {m \in Sends : \E d \in Sends : Holds(d, m)}

Goto(t, label) == pc' = [pc EXCEPT ![t] = label]

-----------------------------------------------------------------------------
(* nest.send *)

\* session.get answers: the session has to exist before a turn opens on it.
SendGet(s) ==
    /\ pc[s] = "new"
    /\ Goto(s, IF onDisk THEN "known" ELSE "failed")
    /\ UNCHANGED <<hub, cur, nxt, snap, engine, onDisk, shown, history>>

\* The sender is registered as a watcher; an empty message ends the call there.
SendWatch(s) ==
    /\ pc[s] = "known"
    /\ \E label \in {"watching", "failed"} : Goto(s, label)
    /\ UNCHANGED <<hub, cur, nxt, snap, engine, onDisk, shown, history>>

\* The busy check has a critical section to itself.  A busy session refuses the
\* call if the client asked for on_busy: "reject".
SendReadBusy(s) ==
    /\ pc[s] = "watching"
    /\ \/ running = None /\ Goto(s, "opening")
       \/ running # None /\ \E label \in {"queueing", "failed"} : Goto(s, label)
    /\ UNCHANGED <<hub, cur, nxt, snap, engine, onDisk, shown, history>>

\* Mutant: the push carries the new item alone, a delta.
SendEnqueueDelta(s) ==
    /\ pc[s] = "queueing"
    /\ queue' = Append(queue, s)
    /\ snap' = [snap EXCEPT ![s] = s]
    /\ late' = IF \E d \in Sends : Live(d) THEN late ELSE late \cup {s}
    /\ Goto(s, "telling")
    /\ UNCHANGED <<running, cur, nxt, engine, onDisk, shown,
                   settled, dropped, refused, stopped>>

\* Mutant: push_front for push_back.
SendEnqueueFront(s) ==
    /\ pc[s] = "queueing"
    /\ queue' = <<s>> \o queue
    /\ snap' = [snap EXCEPT ![s] = queue']
    /\ late' = IF \E d \in Sends : Live(d) THEN late ELSE late \cup {s}
    /\ Goto(s, "telling")
    /\ UNCHANGED <<running, cur, nxt, engine, onDisk, shown,
                   settled, dropped, refused, stopped>>

SendEnqueue(s) ==
    /\ pc[s] = "queueing"
    /\ queue' = Append(queue, s)
    /\ snap' = [snap EXCEPT ![s] = queue']
    /\ late' = IF \E d \in Sends : Live(d) THEN late ELSE late \cup {s}
    /\ Goto(s, "telling")
    /\ UNCHANGED <<running, cur, nxt, engine, onDisk, shown,
                   settled, dropped, refused, stopped>>

-----------------------------------------------------------------------------
(* The turn loop: open_turn, session.run_turn, settle_turn, and round again. *)

OpenTurn(d) ==
    /\ pc[d] = "opening"
    /\ running' = cur[d]
    /\ Goto(d, "opened")
    /\ UNCHANGED <<queue, cur, nxt, snap, engine, onDisk, shown, history>>

\* The user's own message is fanned out once the lock is free again.
AnnounceOpened(d) ==
    /\ pc[d] = "opened"
    /\ Goto(d, "calling")
    /\ UNCHANGED <<hub, cur, nxt, snap, engine, onDisk, shown, history>>

\* The engine takes the turn, making a session if it knows none.
RunTurn(d) ==
    /\ pc[d] = "calling"
    /\ engine = None
    /\ engine' = cur[d]
    /\ onDisk' = TRUE
    /\ Goto(d, "inEngine")
    /\ UNCHANGED <<hub, cur, nxt, snap, shown, history>>

\* Mutant: a refused run_turn ends the loop without settling its turn.
RunTurnGivesUp(d) ==
    /\ pc[d] = "calling"
    /\ engine # None
    /\ refused' = refused \cup {cur[d]}
    /\ Goto(d, "done")
    /\ UNCHANGED <<hub, cur, nxt, snap, engine, onDisk, shown,
                   settled, dropped, late, stopped>>

\* The engine refuses a second turn with SESSION_BUSY; the loop settles the
\* refused turn like any other.
RunTurnBusy(d) ==
    /\ pc[d] = "calling"
    /\ engine # None
    /\ refused' = refused \cup {cur[d]}
    /\ Goto(d, "returned")
    /\ UNCHANGED <<hub, cur, nxt, snap, engine, onDisk, shown,
                   settled, dropped, late, stopped>>

\* run_turn returns: the turn completed, failed or was interrupted.
EngineReturns(d) ==
    /\ pc[d] = "inEngine"
    /\ engine' = None
    /\ Goto(d, "returned")
    /\ UNCHANGED <<hub, cur, nxt, snap, onDisk, shown, history>>

\* Mutant: the next message is read but left on the queue.
SettleTurnPeeks(d) ==
    /\ pc[d] = "returned"
    /\ running' = None
    /\ nxt' = [nxt EXCEPT ![d] = IF queue = <<>> THEN None ELSE Head(queue)]
    /\ Goto(d, "settling")
    /\ UNCHANGED <<queue, cur, snap, engine, onDisk, shown, history>>

\* Mutant: a driver whose turn is no longer running_turn leaves the queue alone.
SettleTurnOwnOnly(d) ==
    /\ pc[d] = "returned"
    /\ \/ /\ running = cur[d]
          /\ running' = None
          /\ \/ /\ queue # <<>>
                /\ nxt' = [nxt EXCEPT ![d] = Head(queue)]
                /\ queue' = Tail(queue)
             \/ queue = <<>> /\ UNCHANGED <<nxt, queue>>
       \/ running # cur[d] /\ UNCHANGED <<running, nxt, queue>>
    /\ Goto(d, "settling")
    /\ UNCHANGED <<cur, snap, engine, onDisk, shown, history>>

SettleTurn(d) ==
    /\ pc[d] = "returned"
    /\ running' = None
    /\ \/ /\ queue # <<>>
          /\ nxt' = [nxt EXCEPT ![d] = Head(queue)]
          /\ queue' = Tail(queue)
       \/ queue = <<>> /\ UNCHANGED <<nxt, queue>>
    /\ Goto(d, "settling")
    /\ UNCHANGED <<cur, snap, engine, onDisk, shown, history>>

AnnounceSettled(d) ==
    /\ pc[d] = "settling"
    /\ settled' = settled \cup {cur[d]}
    /\ Goto(d, IF nxt[d] = None THEN "done" ELSE "snapshot")
    /\ UNCHANGED <<hub, cur, nxt, snap, engine, onDisk, shown,
                   dropped, refused, late, stopped>>

ReadQueue(d) ==
    /\ pc[d] = "snapshot"
    /\ snap' = [snap EXCEPT ![d] = queue]
    /\ Goto(d, "pushing")
    /\ UNCHANGED <<hub, cur, nxt, engine, onDisk, shown, history>>

\* push_queue: the snapshot goes out under a lock taken afresh.
PushQueue(t) ==
    /\ pc[t] = "telling"
    /\ shown' = snap[t]
    /\ snap' = [snap EXCEPT ![t] = <<>>]
    /\ Goto(t, "done")
    /\ UNCHANGED <<hub, cur, nxt, engine, onDisk, history>>

\* The same push by a driver, which goes on to open the turn it took.
PushAndGoOn(d) ==
    /\ pc[d] = "pushing"
    /\ nxt[d] # None
    /\ shown' = snap[d]
    /\ snap' = [snap EXCEPT ![d] = <<>>]
    /\ cur' = [cur EXCEPT ![d] = nxt[d]]
    /\ nxt' = [nxt EXCEPT ![d] = None]
    /\ Goto(d, "opening")
    /\ UNCHANGED <<hub, engine, onDisk, history>>

-----------------------------------------------------------------------------
(* session.interrupt, nest.queue.remove, session.close and session.delete *)

\* The engine takes the interrupt, or answers with an error and the queue is
\* left as it is.
InterruptEngine(i) ==
    /\ pc[i] = "new"
    /\ \/ Goto(i, "failed") /\ UNCHANGED stopped
       \/ /\ Goto(i, "clearing")
          /\ stopped' = IF engine = None THEN stopped
                        ELSE stopped \cup ToSet(queue)
    /\ UNCHANGED <<hub, cur, nxt, snap, engine, onDisk, shown,
                   settled, dropped, refused, late>>

InterruptClear(i) ==
    /\ pc[i] = "clearing"
    /\ dropped' = dropped \cup ToSet(queue)
    /\ queue' = <<>>
    /\ snap' = [snap EXCEPT ![i] = <<>>]
    /\ Goto(i, "telling")
    /\ UNCHANGED <<running, cur, nxt, engine, onDisk, shown,
                   settled, refused, late, stopped>>

\* The named item is taken out if it still waits; the queue is pushed anyway.
QueueRemove(r) ==
    /\ pc[r] = "new"
    /\ \/ \E i \in DOMAIN queue :
            /\ queue' = RemoveAt(queue, i)
            /\ dropped' = dropped \cup {queue[i]}
       \/ UNCHANGED <<queue, dropped>>
    /\ snap' = [snap EXCEPT ![r] = queue']
    /\ Goto(r, "telling")
    /\ UNCHANGED <<running, cur, nxt, engine, onDisk, shown,
                   settled, refused, late, stopped>>

\* The engine closes the session, deletes it, or refuses.
CloseEngine(c) ==
    /\ pc[c] = "new"
    /\ \/ Goto(c, "failed") /\ UNCHANGED onDisk
       \/ Goto(c, "removing") /\ onDisk' \in {onDisk, FALSE}
    /\ UNCHANGED <<hub, cur, nxt, snap, engine, shown, history>>

\* The SessionState goes; whatever names the session next makes a fresh one.
CloseRemove(c) ==
    /\ pc[c] = "removing"
    /\ running' = None
    /\ queue' = <<>>
    /\ dropped' = dropped \cup ToSet(queue)
    /\ Goto(c, "done")
    /\ UNCHANGED <<cur, nxt, snap, engine, onDisk, shown,
                   settled, refused, late, stopped>>

-----------------------------------------------------------------------------

\* The client of an HTTP call goes away and the call's future with it: what it
\* had not done by then is never done.  A send hands its turn to a task of its
\* own only after open_turn, so up to there the turn goes with the call.
CallDropped(t) ==
    /\ t \in HttpCalls
    /\ \/ /\ pc[t] \in {"known", "watching", "queueing", "clearing", "removing"}
          /\ Goto(t, "failed")
          /\ UNCHANGED dropped
       \/ /\ pc[t] = "telling"
          /\ Goto(t, "done")
          /\ UNCHANGED dropped
       \/ /\ t \in Sends
          /\ pc[t] \in {"opening", "opened"}
          /\ cur[t] = t
          /\ Goto(t, "lost")
          /\ dropped' = dropped \cup {t}
    /\ snap' = [snap EXCEPT ![t] = <<>>]
    /\ UNCHANGED <<hub, cur, nxt, engine, onDisk, shown,
                   settled, refused, late, stopped>>

-----------------------------------------------------------------------------

Send(s) == SendGet(s) \/ SendWatch(s) \/ SendReadBusy(s) \/ SendEnqueue(s)

TurnLoop(d) ==
    \/ OpenTurn(d) \/ AnnounceOpened(d)
    \/ RunTurn(d) \/ RunTurnBusy(d) \/ EngineReturns(d)
    \/ SettleTurn(d) \/ AnnounceSettled(d) \/ ReadQueue(d) \/ PushAndGoOn(d)

Next ==
    \/ \E s \in Sends : Send(s) \/ TurnLoop(s)
    \/ \E i \in Stops : InterruptEngine(i) \/ InterruptClear(i)
    \/ \E r \in Removals : QueueRemove(r)
    \/ \E c \in Closes : CloseEngine(c) \/ CloseRemove(c)
    \/ \E t \in Tasks : PushQueue(t) \/ CallDropped(t)

Spec == Init /\ [][Next]_vars

\* Every task that has begun is scheduled again, and the engine's run_turn
\* returns in the end.  Whether a client calls at all is left open.
Fairness ==
    /\ \A s \in Sends :
        /\ WF_vars(SendWatch(s) \/ SendReadBusy(s) \/ SendEnqueue(s))
        /\ WF_vars(TurnLoop(s))
    /\ \A i \in Stops : WF_vars(InterruptClear(i))
    /\ \A c \in Closes : WF_vars(CloseRemove(c))
    /\ \A t \in Tasks : WF_vars(PushQueue(t))

FairSpec == Spec /\ Fairness

-----------------------------------------------------------------------------
(* Properties *)

\* A message the hub took on is in exactly one place: it waits in the queue
\* once, or one driver answers for it, or its settlement went out, or it was
\* dropped.  No interleaving of sends, settlements, interrupts, closes and calls
\* cut short loses one, runs one twice, or runs one that was dropped.
Waiting(m) == m \in ToSet(queue)

TakenOn(s) == pc[s] \notin {"new", "known", "watching", "queueing", "failed"}

OnePlace(m) ==
    /\ Waiting(m) => m \notin Held \cup settled \cup dropped
    /\ m \in Held => m \notin settled \cup dropped
    /\ m \in settled => m \notin dropped
    /\ \A d, e \in Sends : Holds(d, m) /\ Holds(e, m) => d = e
    /\ TakenOn(m) <=> Waiting(m) \/ m \in Held \cup settled \cup dropped

EveryMessageHasOnePlace ==
    /\ IsInjective(queue)
    /\ \A m \in Sends : OnePlace(m)

\* A session that reads busy is busy: the turn in running_turn is one a driver
\* is still to settle, so no session stays busy for ever behind a turn that
\* ended, failed or was refused; only behind one that was lost with its send.
Lost == {m \in Sends : pc[m] = "lost"}

BusyMeansDriven ==
    running # None =>
        \/ running \in Lost
        \/ \E d \in Sends : cur[d] = running /\ pc[d] \in Driving \ {"opening"}

\* The only messages left behind with no driver are those that were queued on a
\* busy check gone stale: everything queued while a driver still had its
\* settle_turn ahead of it is taken or dropped before the last driver leaves,
\* as long as no driver was lost with its send.
OnlyStaleSendsStrand ==
    Lost = {} /\ (\A d \in Sends : ~Live(d)) => ToSet(queue) \subseteq late

\* Messages keep their order, are taken on once and are reported once.
Promise == INSTANCE TurnLedger WITH
    Messages <- Sends, waiting <- queue, held <- Held,
    finished <- settled, gone <- dropped

KeepsThePromise == Promise!Spec

\* Every turn the hub promised is reported settled unless it was lost with its
\* send, and a queue that has a driver is worked off as long as none was lost.
PromisedTurnsSettle == \A m \in Sends : m \in Held ~> m \in settled \cup Lost

DriversEmptyTheQueue == (\E d \in Sends : Live(d)) ~> queue = <<>> \/ Lost # {}

-----------------------------------------------------------------------------
(* What the comments of the code say and its interleavings do not keep. *)

\* turns.rs: the engine's one-turn rule "should not reach the user unchanged,
\* so the queue is here".
EngineNeverRefuses == refused = {}

\* hub/lib.rs: "a send during a turn is queued here and sent when the turn
\* settles".
QueuedIsSent == \A m \in Sends : Waiting(m) ~> ~Waiting(m)

\* hub/lib.rs: "a turn does not hang off a connection"; start_turn: "the turn
\* outlives the client that asked for it".  A busy session is idle again in the
\* end.
NoSessionStaysBusy == running # None ~> running = None

\* turns.rs, interrupt: "the queue behind it is abandoned too. Otherwise a user
\* presses stop and the next queued message starts immediately."
StopAbandonsTheQueue ==
    [][\A d \in Sends : OpenTurn(d) => cur[d] \notin stopped]_vars

\* turns.rs, push_queue: the whole queue is pushed so that order of arrival does
\* not matter. With no push under way the watchers have the queue as it is.
QueueShownIsCurrent ==
    (/\ \A t \in Tasks : pc[t] \notin {"telling", "pushing", "snapshot"}
     /\ \A s \in Sends : nxt[s] = None) => shown = queue
=============================================================================
