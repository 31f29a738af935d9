----------------------------- MODULE ClientView -----------------------------
(***************************************************************************)
(* What a browser draws of a session: ui/shell/session.js, over            *)
(* ui/runtime/client.js and topology.js, with the reopening of ui/main.js. *)
(*                                                                         *)
(* openSession empties the view, attaches, pages through the transcript    *)
(* and then draws the replay and the pending asks; the frames of the       *)
(* session are drawn as they come.  Every await is a place where the user  *)
(* may open another session, the same one again, or lose the connection.   *)
(* At the other end every call is a task of its own, and replies and       *)
(* frames are written by different tasks: a call may overtake another, and *)
(* a reply may overtake frames or be overtaken by them.                    *)
(*                                                                         *)
(* The hub reads the depth of the transcript before it locks, in an attach *)
(* as in the opening and the settlement of a turn, and the engine writes a *)
(* turn to the transcript at some moment after its end: what of HubTurns   *)
(* and HubFrames a client can tell apart, with one turn at a time and no   *)
(* close.  A message is an event that draws a block: its number stands for *)
(* it in the transcript, the replay and the frames.                        *)
(***************************************************************************)
EXTENDS SequencesExt, FiniteSetsExt, Naturals

CONSTANTS
    Sessions,
    Opens,          \* bound: calls of openSession under way, each again after its end
    PageSize,       \* HISTORY_PAGE
    PagesAtOpen,    \* HISTORY_PAGES_AT_OPEN
    None,
    HistoryMayFail, \* whether session.history can answer with an error
    Begun,          \* bound: the sessions with a conversation to begin with
    Talking,        \* bound: the sessions that go on
    MaxSaid         \* bound: events of a session

ASSUME ClientAssumption ==
    /\ PageSize \in Nat \ {0} /\ PagesAtOpen \in Nat \ {0}
    /\ None \notin Sessions \cup Opens /\ Begun \cup Talking \subseteq Sessions
    /\ IsFiniteSet(Opens)

VARIABLES
    said,       \* the kinds of the events of each session, by number
    phase,      \* where the turn loop of each session stands
    depth,      \* the depth of the transcript that it read before it locks
    before,     \* history_total_before_turn
    logged,     \* the events the transcript of each session covers
    start,      \* the number at which the buffer was last cleared
    cut,        \* the events trimmed off the buffer since
    pending,    \* pending_prompts
    waiting,    \* the asks nobody answered yet
    watched,    \* the talking sessions that have this client for a watcher
    wire,       \* the frames under way to the client
    leaving,    \* the talking sessions with a detach under way
    up,         \* the connection
    booting,    \* boot is under way
    task,       \* each call of openSession
    last,       \* the one that emptied the view
    rivals,     \* the opens of the same session that were under way by then
    open,       \* state.sessionId
    seq,        \* state.seq
    blocks,     \* state.blocks
    warned,     \* the banner says that the replay is cut
    overtaken   \* messages drawn before their turn came in the last open

turn == <<phase, depth, before>>
buffer == <<start, cut>>
hub == <<said, turn, logged, buffer, pending, waiting>>
link == <<watched, wire, leaving, up, booting>>
view == <<open, seq, blocks, warned>>
ghosts == <<last, rivals, overtaken>>
vars == <<hub, link, task, view, ghosts>>

\* The reply of nest.attach; and the messages that it tells neither by the depth
\* of the transcript nor by the buffer, and those that it tells by both.
NoReply == [seq |-> 0, total |-> 0, replay |-> <<>>, truncated |-> FALSE, asks |-> {},
            untold |-> {}, again |-> {}]

NoTask == [pc |-> "idle", session |-> None, reply |-> NoReply, offset |-> 0, page |-> <<>>]

Refused == [NoTask EXCEPT !.pc = "refused"]

Loading == {"calling", "counted", "replied", "paging", "page"}

Init ==
    /\ said = [s \in Sessions |->
            IF s \in Begun THEN <<"user_message", "turn_complete">> ELSE <<>>]
    /\ logged = [s \in Sessions |-> Len(said[s])]
    /\ phase = [s \in Sessions |-> "idle"]
    /\ depth = [s \in Sessions |-> 0] /\ before = [s \in Sessions |-> 0]
    /\ start = [s \in Sessions |-> Len(said[s])] /\ cut = [s \in Sessions |-> 0]
    /\ watched = {} /\ leaving = {} /\ wire = <<>>
    /\ pending = [s \in Sessions |-> {}] /\ waiting = [s \in Sessions |-> {}]
    /\ up = TRUE /\ booting = TRUE
    /\ task = [o \in Opens |-> NoTask] /\ last = None /\ rivals = {}
    /\ open = None /\ seq = 0 /\ blocks = <<>> /\ warned = FALSE /\ overtaken = {}

-----------------------------------------------------------------------------
(* The hub and the engine *)

InMessage == {"user_message", "text_delta"}

\* A set of numbers as a sequence, least first: the i-th has i - 1 below it.
Ascending(numbers) ==
    [i \in 1 .. Cardinality(numbers) |->
        CHOOSE n \in numbers : Cardinality({m \in numbers : m < n}) = i - 1]

Messages(s) == {n \in 1 .. Len(said[s]) : said[s][n] \in InMessage}

\* Those of the transcript, oldest first.
Written(s) == {n \in 1 .. logged[s] : said[s][n] \in InMessage}

Transcript(s) == Ascending(Written(s))

\* The buffer, by number: what came since it was cleared and was not trimmed.
Buffer(s) ==
    [i \in 1 .. Len(said[s]) - start[s] - cut[s] |-> start[s] + cut[s] + i]

Frame(s, n) == [session |-> s, n |-> n]

\* route_event and open_turn: numbered, buffered and sent.
Emit(s, kind) ==
    /\ s \in Talking /\ Len(said[s]) < MaxSaid
    /\ said' = [said EXCEPT ![s] = Append(@, kind)]
    /\ wire' = IF s \in watched THEN Append(wire, Frame(s, Len(said[s]) + 1)) ELSE wire

\* At its ceilings the buffer loses its oldest frames to the new one, which may
\* itself be too large.
Trims(s) ==
    \E n \in 0 .. 1 + Len(Buffer(s)) : cut' = [cut EXCEPT ![s] = @ + n]

\* history_total: a read that fails counts as an empty transcript.
Depths(s) == {Len(Transcript(s))} \cup (IF HistoryMayFail THEN {0} ELSE {})

Running(s) == phase[s] \in {"running", "returned", "settling"}

Goto(s, label) == phase' = [phase EXCEPT ![s] = label]

\* open_turn and settle_turn read the depth of the transcript before they lock.
ReadsDepth(s) ==
    /\ \/ phase[s] = "idle" /\ s \in Talking /\ Len(said[s]) < MaxSaid /\ Goto(s, "opening")
       \/ phase[s] = "returned" /\ Goto(s, "settling")
    /\ \E n \in Depths(s) : depth' = [depth EXCEPT ![s] = n]
    /\ UNCHANGED <<said, before, logged, buffer, pending, waiting, link, task, view, ghosts>>

\* The buffer is cleared, and takes the message of the user unless it is too large.
OpensTurn(s) ==
    /\ phase[s] = "opening" /\ Goto(s, "running")
    /\ before' = [before EXCEPT ![s] = depth[s]]
    /\ depth' = [depth EXCEPT ![s] = 0]
    /\ start' = [start EXCEPT ![s] = Len(said[s])]
    /\ \E n \in {0, 1} : cut' = [cut EXCEPT ![s] = n]
    /\ Emit(s, "user_message")
    /\ UNCHANGED <<logged, pending, waiting, watched, leaving, up, booting, task,
                   view, ghosts>>

Says(s) ==
    /\ phase[s] = "running"
    /\ Emit(s, "text_delta") /\ Trims(s)
    /\ UNCHANGED <<turn, logged, start, pending, waiting, watched, leaving, up, booting, task,
                   view, ghosts>>

\* Mutant: what is asked is left to the buffer.
PendingForgets(s) == UNCHANGED pending

PendingKeeps(s) == pending' = [pending EXCEPT ![s] = @ \cup {Len(said[s]) + 1}]

Asks(s) ==
    /\ phase[s] = "running"
    /\ Emit(s, "prompt") /\ Trims(s)
    /\ PendingKeeps(s)
    /\ waiting' = [waiting EXCEPT ![s] = @ \cup {Len(said[s]) + 1}]
    /\ UNCHANGED <<turn, logged, start, watched, leaving, up, booting, task, view, ghosts>>

\* Somebody answers, or the engine waits no longer; the hub is not told.
Answered(s, n) ==
    /\ n \in waiting[s]
    /\ waiting' = [waiting EXCEPT ![s] = @ \ {n}]
    /\ UNCHANGED <<said, turn, logged, buffer, pending, link, task, view, ghosts>>

\* The engine ends the turn: its last event, and run_turn returns.
Finishes(s) ==
    /\ phase[s] = "running" /\ waiting[s] = {} /\ Goto(s, "returned")
    /\ Emit(s, "turn_complete") /\ Trims(s)
    /\ UNCHANGED <<depth, before, logged, start, pending, waiting, watched, leaving, up,
                   booting, task, view, ghosts>>

\* The engine writes what ended to the transcript.
Logs(s) ==
    /\ \E n \in logged[s] + 1 .. Len(said[s]) :
        /\ said[s][n] = "turn_complete"
        /\ logged' = [logged EXCEPT ![s] = n]
    /\ UNCHANGED <<said, turn, buffer, pending, waiting, link, task, view, ghosts>>

\* The buffer goes if the transcript had grown when its depth was read.
Settles(s) ==
    /\ phase[s] = "settling" /\ Goto(s, "idle")
    /\ pending' = [pending EXCEPT ![s] = {}]
    /\ IF depth[s] > before[s]
       THEN /\ start' = [start EXCEPT ![s] = Len(said[s])]
            /\ cut' = [cut EXCEPT ![s] = 0]
       ELSE UNCHANGED buffer
    /\ depth' = [depth EXCEPT ![s] = 0]
    /\ UNCHANGED <<said, before, logged, waiting, link, task, view, ghosts>>

Hub(s) ==
    \/ ReadsDepth(s) \/ OpensTurn(s) \/ Says(s) \/ Asks(s)
    \/ Finishes(s) \/ Logs(s) \/ Settles(s)
    \/ \E n \in waiting[s] : Answered(s, n)

-----------------------------------------------------------------------------
(* openSession *)

Block(s, n) == [session |-> s, n |-> n]

Note(s) == Block(s, 0)

\* Of an open that has drawn everything only what it was told matters.
Done(o) ==
    task' = [task EXCEPT ![o] =
        [NoTask EXCEPT !.pc = "drawn", !.reply.total = task[o].reply.total,
            !.reply.untold = task[o].reply.untold, !.reply.again = task[o].reply.again]]

\* resetSession, and the first calls. With no connection the calls fail at once.
Opening(o, s) ==
    /\ task[o].pc \notin Loading
    /\ task' = [task EXCEPT ![o] =
            IF up' THEN [NoTask EXCEPT !.pc = "calling", !.session = s] ELSE Refused]
    /\ last' = o
    /\ open' = s /\ seq' = 0 /\ warned' = FALSE
    /\ blocks' = IF up' THEN <<>> ELSE <<Note(s)>>
    /\ overtaken' = {}
    /\ rivals' = {other \in Opens : task[other].session = s /\ task[other].pc \in Loading}
    /\ leaving' = leaving \cup (IF up' THEN ({open} \ {s}) \cap Talking ELSE {})
    /\ UNCHANGED <<hub, watched, wire>>

OpenSession(o, s) == UNCHANGED <<up, booting>> /\ Opening(o, s)

\* nest.detach, whenever the hub gets to it.
Detaches(s) ==
    /\ s \in leaving
    /\ leaving' = leaving \ {s}
    /\ watched' = watched \ {s}
    /\ UNCHANGED <<hub, wire, up, booting, task, view, ghosts>>

\* nest.attach at the hub reads the depth of the transcript with no lock held.
CountsHistory(o) ==
    /\ task[o].pc = "calling"
    /\ \E n \in Depths(task[o].session) :
        task' = [task EXCEPT ![o].pc = "counted", ![o].reply.total = n]
    /\ UNCHANGED <<hub, link, view, ghosts>>

\* serve_replay
ServesReplay(s, total) == Running(s) \/ total <= before[s]

\* Then, under the lock, the client becomes a watcher and the reply is made up.
Attaches(o) ==
    LET s == task[o].session
        total == task[o].reply.total
        serves == ServesReplay(s, total)
        counted == ToSet(SubSeq(Transcript(s), 1, total))
        since == IF serves THEN start[s] + 1 .. Len(said[s]) ELSE {}
    IN  /\ task[o].pc = "counted"
        /\ watched' = watched \cup ({s} \cap Talking)
        /\ task' = [task EXCEPT ![o].pc = "replied", ![o].reply =
                [seq |-> Len(said[s]), total |-> total,
                 replay |-> IF serves THEN Buffer(s) ELSE <<>>,
                 truncated |-> cut[s] > 0, asks |-> pending[s],
                 untold |-> Messages(s) \ (counted \cup since),
                 again |-> counted \cap since]]
        /\ UNCHANGED <<hub, wire, leaving, up, booting, view, ghosts>>

\* The note lands in whatever session is open by then.
AttachFails(o) ==
    /\ task[o].pc = "calling"
    /\ task' = [task EXCEPT ![o] = Refused]
    /\ blocks' = Append(blocks, Note(task[o].session))
    /\ UNCHANGED <<hub, link, open, seq, warned, ghosts>>

\* Mutant: the view is taken to be as it was before the await.
StillOpenAssumed(o) == TRUE

\* "the user moved on while we waited"
StillOpen(o) == open = task[o].session

\* The replay is in the order of its numbers.
Texts(s, numbers) == Ascending({n \in ToSet(numbers) : said[s][n] # "turn_complete"})

\* Mutant: the replay is drawn first.
ReplayFirst(o, history) ==
    LET s == task[o].session
        reply == task[o].reply
    IN  Texts(s, reply.replay) \o Ascending(reply.asks) \o history

\* History, then the replay, then the asks nobody has answered.
HistoryFirst(o, history) ==
    LET s == task[o].session
        reply == task[o].reply
    IN  history \o Texts(s, reply.replay) \o Ascending(reply.asks)

Draws(o, numbers) ==
    blocks' = blocks \o [i \in DOMAIN numbers |-> Block(task[o].session, numbers[i])]

\* What follows loadHistory.
DrawsReplay(o, history) ==
    /\ Draws(o, HistoryFirst(o, history))
    /\ seq' = Max({seq} \cup ToSet(task[o].reply.replay))
    /\ Done(o)

Start(total) == IF total > PageSize * PagesAtOpen THEN total - PageSize * PagesAtOpen ELSE 0

TakesReply(o) ==
    LET reply == task[o].reply IN
    /\ task[o].pc = "replied"
    /\ IF ~StillOpen(o)
       THEN task' = [task EXCEPT ![o] = NoTask] /\ UNCHANGED <<seq, blocks, warned>>
       ELSE /\ seq' = reply.seq
            /\ warned' = (warned \/ reply.truncated)
            /\ IF reply.total = 0 THEN Draws(o, HistoryFirst(o, <<>>)) /\ Done(o)
               ELSE /\ task' = [task EXCEPT ![o].pc = "paging",
                                          ![o].offset = Start(reply.total)]
                    /\ UNCHANGED blocks
    /\ UNCHANGED <<hub, link, open, ghosts>>

\* session.history at the engine: a page may hold more than there was.
ReadsPage(o) ==
    LET all == Transcript(task[o].session)
        to == Min({Len(all), task[o].offset + PageSize})
    IN  /\ task[o].pc = "paging"
        /\ task' = [task EXCEPT ![o].pc = "page",
                              ![o].page = SubSeq(all, task[o].offset + 1, to)]
        /\ UNCHANGED <<hub, link, view, ghosts>>

\* Nobody catches it: what follows the history is never drawn.
PageFails(o) ==
    /\ task[o].pc = "paging"
    /\ task' = [task EXCEPT ![o] = NoTask]
    /\ UNCHANGED <<hub, link, view, ghosts>>

DrawsPage(o) ==
    LET next == task[o].offset + PageSize
        total == task[o].reply.total
        page == task[o].page
    IN  /\ task[o].pc = "page"
        /\ IF ~StillOpen(o)
           THEN task' = [task EXCEPT ![o] = NoTask] /\ UNCHANGED <<seq, blocks, overtaken>>
           ELSE /\ IF next < total
                   THEN /\ Draws(o, page)
                        /\ task' = [task EXCEPT ![o].pc = "paging", ![o].offset = next]
                        /\ UNCHANGED seq
                   ELSE DrawsReplay(o, page)
                /\ overtaken' = overtaken \cup
                        ToSet(SubSeq(page, total - task[o].offset + 1, Len(page)))
        /\ UNCHANGED <<hub, link, last, rivals, open, warned>>

Open(o) ==
    \/ CountsHistory(o) \/ Attaches(o) \/ AttachFails(o) \/ TakesReply(o)
    \/ ReadsPage(o) \/ PageFails(o) \/ DrawsPage(o)

-----------------------------------------------------------------------------
(* handleNotification *)

\* Mutant: the number in hand is taken once more.
IsNewOrSame(n) == n >= seq

IsNew(n) == n > seq

TakesFrame ==
    LET frame == Head(wire) IN
    /\ wire # <<>>
    /\ wire' = Tail(wire)
    /\ IF frame.session = open /\ IsNew(frame.n)
       THEN /\ seq' = frame.n
            /\ blocks' = IF said[open][frame.n] = "turn_complete" THEN blocks
                         ELSE Append(blocks, Block(open, frame.n))
            /\ overtaken' = overtaken \cup
                    (IF task[last].pc \in Loading THEN {frame.n} ELSE {})
       ELSE UNCHANGED <<seq, blocks, overtaken>>
    /\ UNCHANGED <<hub, watched, leaving, up, booting, task, last, rivals, open, warned>>

-----------------------------------------------------------------------------
(* The connection *)

\* onclose rejects every call under way, in the order of the calls; what an open has
\* yet to draw is lost.
ConnectionDrops ==
    LET attaching == {o \in Opens : task[o].pc \in {"calling", "counted", "replied"}} IN
    /\ up /\ up' = FALSE
    /\ wire' = <<>> /\ watched' = {} /\ leaving' = {}
    /\ task' = [o \in Opens |-> IF task[o].pc \in Loading THEN NoTask ELSE task[o]]
    /\ \E order \in SetToSeqs(attaching) :
        blocks' = blocks \o [i \in DOMAIN order |-> Note(task[order[i]].session)]
    /\ UNCHANGED <<hub, booting, open, seq, warned, ghosts>>

Reconnects ==
    /\ ~up /\ ~booting
    /\ up' = TRUE /\ booting' = TRUE
    /\ UNCHANGED <<hub, watched, wire, leaving, task, view, ghosts>>

\* The open session is opened again, whichever it is by then.
Boots ==
    /\ booting /\ booting' = FALSE /\ up' = up
    /\ IF open = None THEN UNCHANGED <<hub, watched, wire, leaving, task, view, ghosts>>
       ELSE \E o \in Opens : Opening(o, open)

BootFails ==
    /\ booting /\ booting' = FALSE
    /\ UNCHANGED <<hub, watched, wire, leaving, up, task, view, ghosts>>

Next ==
    \/ \E s \in Sessions : Hub(s) \/ Detaches(s)
    \/ \E o \in Opens, s \in Sessions : OpenSession(o, s)
    \/ \E o \in Opens : Open(o)
    \/ TakesFrame
    \/ ConnectionDrops \/ Reconnects \/ Boots \/ BootFails

Spec == Init /\ [][Next]_vars

-----------------------------------------------------------------------------
(* Properties *)

Drawn == {b.n : b \in ToSet(blocks)}

OnItsWay == {f.n : f \in {f \in ToSet(wire) : f.session = open /\ f.n > seq}}

\* However opens overlap, and whatever arrives late for an older one: of the
\* conversation nothing is drawn but what belongs to the open session.
OnlyTheOpenSession == \A b \in ToSet(blocks) : b.n # 0 => b.session = open

\* What the hub told a client, the browser draws: once the opens of a session have
\* drawn what they were to draw, and while the hub has the client for a watcher,
\* every message is there, on its way, or announced as cut, or older than what an
\* open loads, or the hub told it in no reply; and an ask that waits for an answer
\* has a card even when it was cut.
NothingIsMissed ==
    /\ last # None /\ task[last].pc = "drawn"
    /\ \A o \in rivals : task[o].pc \in {"drawn", "refused"}
    /\ open \in watched
    =>  LET there == Drawn \cup OnItsWay
            opens == rivals \cup {last}
            old == Max({Start(task[o].reply.total) : o \in opens})
            untold == UNION {task[o].reply.untold : o \in opens}
        IN  /\ waiting[open] \subseteq there
            /\ warned \/ Messages(open) \subseteq
                    there \cup untold \cup ToSet(SubSeq(Transcript(open), 1, old))

IsMessage(b) == b.n # 0 /\ said[open][b.n] \in InMessage

\* Messages stand in the order of their numbers, but for those drawn ahead of their turn
\* and those told twice.
Ascends(ahead, twice) ==
    \A i, j \in DOMAIN blocks :
        i < j /\ IsMessage(blocks[i]) /\ IsMessage(blocks[j]) =>
            \/ blocks[i].n < blocks[j].n
            \/ blocks[i].n \in ahead
            \/ {blocks[i].n, blocks[j].n} \subseteq twice

\* "History first, replay second -- never the other way round": in the view of an
\* open that had no rival the messages stand in the order they were said in, each
\* once.  Out of order are only those that came while the open was loading, which
\* stand before what it had yet to draw, and those that the reply told twice.
InOrderUnlessOvertaken ==
    last # None /\ task[last].pc = "drawn" /\ rivals = {} =>
        Ascends(overtaken, task[last].reply.again)

\* Without the exceptions.
InOrder ==
    last # None /\ task[last].pc = "drawn" => Ascends({}, {})

\* An ask has one card.
AsksAreDrawnOnce ==
    \A i, j \in DOMAIN blocks :
        blocks[i].n # 0 /\ blocks[i] = blocks[j] /\ said[open][blocks[i].n] = "prompt" => i = j
=============================================================================
