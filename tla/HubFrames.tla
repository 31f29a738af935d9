----------------------------- MODULE HubFrames ------------------------------
(***************************************************************************)
(* Catching up with one session: what crates/hub/src/session.rs and the    *)
(* frame side of turns.rs add to the turn loop of HubTurns.                *)
(*                                                                         *)
(* The hub numbers every event of the session, buffers it and fans it out  *)
(* to the watchers.  A client attaches at any moment and draws the         *)
(* transcript, then the buffer of its reply, then what arrives after it.   *)
(* Each action of HubTurns is taken here together with what its critical   *)
(* section does to the rest of SessionState; the steps of nest.attach, the *)
(* arrival of events and the engine's own log are added.                   *)
(*                                                                         *)
(* The engine is external.  It sends the events of a turn while the turn   *)
(* runs and only to who subscribed, and writes a turn to its log once, at  *)
(* some moment after it began.                                             *)
(***************************************************************************)
EXTENDS HubTurns, ReplayBuffer, FiniteSets

CONSTANTS
    Clients,
    HttpClients,    \* those whose nest.attach is an HTTP request of its own
    HistoryMayFail, \* whether session.history can answer with an error
    MaxSeq          \* bound: no engine event past this number

ASSUME ClientsAreNotNone == HttpClients \subseteq Clients /\ None \notin Clients /\ None \notin Nat

VARIABLES
    seq, replay, watchers, subscribed,  \* the fields of SessionState of the same name
    before,     \* history_total_before_turn
    total,      \* the transcript depth each driver read and has yet to use
    out,        \* the user_message frame each driver has yet to fan out
    loaded,     \* the engine has the session in memory
    listening,  \* the hub is among the session's subscribers in the engine
    begun,      \* turns the engine took
    disk,       \* turns in the engine's log
    connected,  \* clients whose sink is registered
    at,         \* where each client's nest.attach stands
    seen,       \* the turns that the history_total of that attach covers
    base,       \* the seq of the reply of an attached client
    got,        \* the frames each client received since it attached
    crossed,    \* clients whose attach a close fell into past its subscribe
    deaf        \* such an attach went through, or a close stopped half way

session == <<seq, replay, watchers, subscribed, before>>
driving == <<total, out>>
log == <<loaded, listening, begun, disk>>
clients == <<connected, at, seen, base, got>>
mishaps == <<crossed, deaf>>
frames == <<session, driving, log, clients, mishaps>>

Attaching ==
    {"away", "known", "subscribing", "resuming", "resubscribing", "marking",
     "counting", "registering"}

NoFrame == [seq |-> 0, to |-> {}]

FramesTypeOK ==
    /\ TypeOK
    /\ seq \in Nat
    /\ before \in Nat
    /\ replay.bytes \in Nat
    /\ watchers \subseteq Clients
    /\ {subscribed, loaded, listening} \subseteq BOOLEAN
    /\ total \in [Sends -> Nat \cup {None}]
    /\ out \in [Sends -> [seq : Nat, to : SUBSET Clients]]
    /\ disk \subseteq begun /\ begun \subseteq Sends
    /\ connected \subseteq Clients
    /\ at \in [Clients -> Attaching]
    /\ seen \in [Clients -> SUBSET Sends]
    /\ base \in [Clients -> Nat \cup {None}]
    /\ \A c \in Clients : \A f \in ToSet(got[c]) : f.seq \in Nat \ {0}
    /\ crossed \subseteq Clients
    /\ deaf \in BOOLEAN

FramesInit ==
    /\ Init
    /\ seq = 0
    /\ replay = Empty
    /\ watchers = {}
    /\ subscribed = FALSE
    /\ before = 0
    /\ total = [d \in Sends |-> None]
    /\ out = [d \in Sends |-> NoFrame]
    /\ loaded \in BOOLEAN
    /\ listening = FALSE
    /\ begun = {}
    /\ disk = {}
    /\ connected = Clients
    /\ at = [c \in Clients |-> "away"]
    /\ seen = [c \in Clients |-> {}]
    /\ base = [c \in Clients |-> None]
    /\ got = [c \in Clients |-> <<>>]
    /\ crossed = {}
    /\ deaf = FALSE

\* What a read of the log's depth may return: an error counts as an empty log.
Depths == {Cardinality(disk)} \cup (IF HistoryMayFail THEN {0} ELSE {})

UserMessage == [kind |-> "user_message", text |-> 0, escaped |-> 0]

EngineEvents ==
    {[kind |-> k, text |-> 0, escaped |-> 0] : k \in {"text_delta", "tool_use"}}

\* Clients::send_many: a client whose sink is gone is passed over.
Deliver(to, frame) ==
    got' = [c \in Clients |->
        IF c \in to \cap connected THEN Append(got[c], frame) ELSE got[c]]

-----------------------------------------------------------------------------
(* The turn loop and the frames it sends *)

\* A send whose call came over a connection makes its client a watcher.
WatchOnSend(s) ==
    /\ SendWatch(s)
    /\ \/ UNCHANGED watchers
       \/ \E c \in Clients : watchers' = watchers \cup {c}
    /\ UNCHANGED <<seq, replay, subscribed, before, driving, log,
                   clients, mishaps>>

\* open_turn and settle_turn read the transcript depth before they lock.
ReadDepth(d) ==
    /\ pc[d] \in {"opening", "returned"}
    /\ total[d] = None
    /\ \E n \in Depths : total' = [total EXCEPT ![d] = n]
    /\ UNCHANGED <<vars, session, out, log, clients, mishaps>>

\* Mutant: the turn opens before its depth was read.
OpenNumberedUnread(d) ==
    /\ OpenTurn(d)
    /\ before' = total[d]
    /\ total' = [total EXCEPT ![d] = None]
    /\ seq' = seq + 1
    /\ replay' = Push(Empty, seq', cur[d], UserMessage)
    /\ out' = [out EXCEPT ![d] = [seq |-> seq', to |-> watchers]]
    /\ UNCHANGED <<watchers, subscribed, log, clients, mishaps>>

\* Mutant: the buffer of the turn before is left in place.
OpenNumberedKeeps(d) ==
    /\ OpenTurn(d)
    /\ total[d] # None
    /\ before' = total[d]
    /\ total' = [total EXCEPT ![d] = None]
    /\ seq' = seq + 1
    /\ replay' = Push(replay, seq', cur[d], UserMessage)
    /\ out' = [out EXCEPT ![d] = [seq |-> seq', to |-> watchers]]
    /\ UNCHANGED <<watchers, subscribed, log, clients, mishaps>>

OpenNumbered(d) ==
    /\ OpenTurn(d)
    /\ total[d] # None
    /\ before' = total[d]
    /\ total' = [total EXCEPT ![d] = None]
    /\ seq' = seq + 1
    /\ replay' = Push(Empty, seq', cur[d], UserMessage)
    /\ out' = [out EXCEPT ![d] = [seq |-> seq', to |-> watchers]]
    /\ UNCHANGED <<watchers, subscribed, log, clients, mishaps>>

\* fan_out: the opening goes to the watchers there were, under a new lock.
FanOutOpening(d) ==
    /\ AnnounceOpened(d)
    /\ Deliver(out[d].to, [seq |-> out[d].seq, kind |-> "user_message"])
    /\ out' = [out EXCEPT ![d] = NoFrame]
    /\ UNCHANGED <<session, total, log, connected, at, seen, base, mishaps>>

TakeTurn(d) ==
    /\ RunTurn(d)
    /\ loaded' = TRUE
    /\ begun' = begun \cup {cur[d]}
    /\ UNCHANGED <<session, driving, listening, disk, clients, mishaps>>

\* The buffer goes once the transcript has grown.
SettleBuffer(d) ==
    /\ SettleTurn(d)
    /\ total[d] # None
    /\ total' = [total EXCEPT ![d] = None]
    /\ replay' = IF total[d] > before THEN Empty ELSE replay
    /\ UNCHANGED <<seq, watchers, subscribed, before, out, log,
                   clients, mishaps>>

\* Mutant: an event is buffered only while nobody watches.
RouteEventEither(event) ==
    /\ engine # None /\ listening /\ seq < MaxSeq
    /\ seq' = seq + 1
    /\ replay' = IF watchers = {} THEN Push(replay, seq', engine, event) ELSE replay
    /\ Deliver(watchers, [seq |-> seq', kind |-> "event"])
    /\ UNCHANGED <<vars, watchers, subscribed, before, driving, log,
                   connected, at, seen, base, mishaps>>

\* route_event: one critical section numbers, buffers and fans out.
RouteEvent(event) ==
    /\ engine # None /\ listening /\ seq < MaxSeq
    /\ seq' = seq + 1
    /\ replay' = Push(replay, seq', engine, event)
    /\ Deliver(watchers, [seq |-> seq', kind |-> "event"])
    /\ UNCHANGED <<vars, watchers, subscribed, before, driving, log,
                   connected, at, seen, base, mishaps>>

\* The engine writes a turn to its log, once.
WriteLog(m) ==
    /\ m \in begun \ disk
    /\ onDisk
    /\ disk' = disk \cup {m}
    /\ UNCHANGED <<vars, session, driving, loaded, listening, begun,
                   clients, mishaps>>

\* Clients whose attach is past its subscribe, or found that none was needed.
Subscribed == {c \in Clients : at[c] \in {"marking", "counting", "registering"}}

\* A closed session leaves the engine's memory, a deleted one its disk too.
CloseInEngine(k) ==
    /\ CloseEngine(k)
    /\ \/ pc'[k] = "failed" /\ UNCHANGED log
       \/ /\ pc'[k] = "removing"
          /\ loaded' = FALSE
          /\ listening' = FALSE
          /\ disk' = IF onDisk' THEN disk ELSE {}
          /\ begun' = IF onDisk' THEN begun ELSE {}
    /\ crossed' = IF pc'[k] = "removing" THEN crossed \cup Subscribed ELSE crossed
    /\ UNCHANGED <<session, driving, clients, deaf>>

\* A send dropped between numbering its opening and sending it leaves watchers
\* without that frame; a close dropped between its halves leaves the hub with
\* the state of a session the engine has closed.
DropCall(t) ==
    /\ CallDropped(t)
    /\ IF t \in Sends
       THEN /\ total' = [total EXCEPT ![t] = None]
            /\ out' = [out EXCEPT ![t] = NoFrame]
       ELSE UNCHANGED driving
    /\ deaf' = (deaf \/ pc[t] = "removing")
    /\ UNCHANGED <<session, log, clients, crossed>>

\* Mutant: the state that is made next takes over that the hub subscribed.
ForgetAllButSubscribed(k) ==
    /\ CloseRemove(k)
    /\ seq' = 0
    /\ replay' = Empty
    /\ watchers' = {}
    /\ before' = 0
    /\ base' = [c \in Clients |-> None]
    /\ crossed' = crossed \cup Subscribed
    /\ deaf' = FALSE
    /\ UNCHANGED <<driving, log, subscribed, connected, at, seen, got>>

\* The whole SessionState goes, and with it the attachment of every client.
ForgetSession(k) ==
    /\ CloseRemove(k)
    /\ seq' = 0
    /\ replay' = Empty
    /\ watchers' = {}
    /\ subscribed' = FALSE
    /\ before' = 0
    /\ base' = [c \in Clients |-> None]
    /\ crossed' = crossed \cup Subscribed
    /\ deaf' = FALSE
    /\ UNCHANGED <<driving, log, connected, at, seen, got>>

-----------------------------------------------------------------------------
(* nest.attach, nest.detach and the end of a connection *)

GoAttach(c, label) == at' = [at EXCEPT ![c] = label]

\* session.get answers for a session on disk.
AttachGet(c) ==
    /\ at[c] = "away"
    /\ c \in connected
    /\ onDisk
    /\ GoAttach(c, "known")
    /\ UNCHANGED <<vars, session, driving, log, connected, seen, base,
                   got, mishaps>>

AttachReadSubscribed(c) ==
    /\ at[c] = "known"
    /\ GoAttach(c, IF subscribed THEN "counting" ELSE "subscribing")
    /\ UNCHANGED <<vars, session, driving, log, connected, seen, base,
                   got, mishaps>>

\* Only a session in memory has subscribers.
AttachSubscribe(c) ==
    /\ at[c] \in {"subscribing", "resubscribing"}
    /\ \/ loaded /\ listening' = TRUE /\ deaf' = FALSE /\ GoAttach(c, "marking")
       \/ /\ ~loaded
          /\ GoAttach(c, IF at[c] = "subscribing" THEN "resuming" ELSE "away")
          /\ UNCHANGED <<listening, deaf>>
    /\ UNCHANGED <<vars, session, driving, loaded, begun, disk,
                   connected, seen, base, got, crossed>>

AttachResume(c) ==
    /\ at[c] = "resuming"
    /\ onDisk
    /\ loaded' = TRUE
    /\ GoAttach(c, "resubscribing")
    /\ UNCHANGED <<vars, session, driving, listening, begun, disk,
                   connected, seen, base, got, mishaps>>

\* An engine call that fails ends the attach.  An attach that is an HTTP request
\* ends at any of its awaits when the request is dropped.
AttachFails(c) ==
    /\ \/ at[c] \in {"subscribing", "resuming", "resubscribing"}
       \/ c \in HttpClients /\ at[c] # "away"
    /\ GoAttach(c, "away")
    /\ crossed' = crossed \ {c}
    /\ UNCHANGED <<vars, session, driving, log, connected, seen, base,
                   got, deaf>>

AttachMark(c) ==
    /\ at[c] = "marking"
    /\ subscribed' = TRUE
    /\ deaf' = (deaf \/ c \in crossed)
    /\ GoAttach(c, "counting")
    /\ UNCHANGED <<vars, seq, replay, watchers, before, driving, log,
                   connected, seen, base, got, crossed>>

\* history_total is read with no lock held.
AttachCount(c) ==
    /\ at[c] = "counting"
    /\ \/ seen' = [seen EXCEPT ![c] = disk]
       \/ HistoryMayFail /\ seen' = [seen EXCEPT ![c] = {}]
    /\ GoAttach(c, "registering")
    /\ UNCHANGED <<vars, session, driving, log, connected, base, got, mishaps>>

\* serve_replay
ServesReplay(c) == running # None \/ Cardinality(seen[c]) <= before

\* Mutant: the watcher is not registered with the reply.
AttachReplyOnly(c) ==
    /\ at[c] = "registering"
    /\ base' = [base EXCEPT ![c] = seq]
    /\ got' = [got EXCEPT ![c] = <<>>]
    /\ seen' = [seen EXCEPT ![c] = {}]
    /\ GoAttach(c, "away")
    /\ UNCHANGED <<vars, session, driving, log, connected, mishaps>>

\* The watcher is registered and the reply made up in one critical section.
AttachRegister(c) ==
    /\ at[c] = "registering"
    /\ watchers' = watchers \cup {c}
    /\ base' = [base EXCEPT ![c] = seq]
    /\ got' = [got EXCEPT ![c] = <<>>]
    /\ seen' = [seen EXCEPT ![c] = {}]
    /\ deaf' = (deaf \/ c \in crossed)
    /\ crossed' = crossed \ {c}
    /\ GoAttach(c, "away")
    /\ UNCHANGED <<vars, seq, replay, subscribed, before, driving,
                   log, connected>>

Detach(c) ==
    /\ c \in connected
    /\ watchers' = watchers \ {c}
    /\ base' = [base EXCEPT ![c] = None]
    /\ got' = [got EXCEPT ![c] = <<>>]
    /\ UNCHANGED <<vars, seq, replay, subscribed, before, driving, log,
                   connected, at, seen, mishaps>>

\* remove_client: calls of the client that are under way go on.
Disconnect(c) ==
    /\ c \in connected
    /\ connected' = connected \ {c}
    /\ watchers' = watchers \ {c}
    /\ base' = [base EXCEPT ![c] = None]
    /\ got' = [got EXCEPT ![c] = <<>>]
    /\ UNCHANGED <<vars, seq, replay, subscribed, before, driving, log, at,
                   seen, mishaps>>

-----------------------------------------------------------------------------

\* Steps of the turn loop that touch nothing but the state of HubTurns.
TurnsOnly ==
    /\ \/ \E s \in Sends :
            \/ SendGet(s) \/ SendReadBusy(s) \/ SendEnqueue(s)
            \/ RunTurnBusy(s) \/ EngineReturns(s)
            \/ AnnounceSettled(s) \/ ReadQueue(s) \/ PushAndGoOn(s)
       \/ \E i \in Stops : InterruptEngine(i) \/ InterruptClear(i)
       \/ \E r \in Removals : QueueRemove(r)
       \/ \E t \in Tasks : PushQueue(t)
    /\ UNCHANGED frames

TurnsAndFrames(d) ==
    \/ WatchOnSend(d) \/ ReadDepth(d) \/ OpenNumbered(d) \/ FanOutOpening(d)
    \/ TakeTurn(d) \/ SettleBuffer(d) \/ WriteLog(d)

Attach(c) ==
    \/ AttachGet(c) \/ AttachReadSubscribed(c) \/ AttachSubscribe(c)
    \/ AttachResume(c) \/ AttachFails(c) \/ AttachMark(c)
    \/ AttachCount(c) \/ AttachRegister(c)

FramesNext ==
    \/ TurnsOnly
    \/ \E d \in Sends : TurnsAndFrames(d)
    \/ \E event \in EngineEvents : RouteEvent(event)
    \/ \E k \in Closes : CloseInEngine(k) \/ ForgetSession(k)
    \/ \E t \in Tasks : DropCall(t)
    \/ \E c \in Clients : Attach(c) \/ Detach(c) \/ Disconnect(c)

FramesSpec == FramesInit /\ [][FramesNext]_<<vars, frames>>

-----------------------------------------------------------------------------
(* Properties *)

\* "Never both, never neither": since its reply, an attached client has
\* received, or has under way to it, every number the hub assigned after the
\* reply's, each once. Engine events come in order and none that the reply
\* covered comes again.
Numbers(c) == [i \in DOMAIN got[c] |-> got[c][i].seq]

UnderWay(c) == {out[d].seq : d \in {d \in Sends : c \in out[d].to}}

FramesFollowTheReply ==
    \A c \in connected : base[c] # None =>
        LET number == Numbers(c)
            after == {i \in DOMAIN number : number[i] > base[c]}
            events == {i \in DOMAIN number : got[c][i].kind = "event"}
        IN  /\ \A i, j \in after : number[i] = number[j] => i = j
            /\ \A i \in after : number[i] \notin UnderWay(c)
            /\ {number[i] : i \in after} \cup {n \in UnderWay(c) : n > base[c]}
                    = (base[c] + 1) .. seq
            /\ events \subseteq after
            /\ \A i, j \in events : i < j => number[i] < number[j]

\* "Refreshing loses nothing": while a turn runs, the buffer accounts for every
\* number from that turn's opening on, or says that it was cut. A client that
\* attaches in the middle of a turn can draw all of it.
RunningTurnIsBuffered ==
    LET held == replay.frames IN
    /\ held # <<>> => Last(held).seq = seq
    /\ \A i \in 1 .. Len(held) - 1 : held[i + 1].from = held[i].seq + 1
    /\ running # None /\ ~replay.truncated =>
        /\ held # <<>>
        /\ held[1].turn = running
        /\ held[1].event.kind = "user_message"

\* replay.rs: once the hub subscribed, "from then on nothing in it goes
\* unobserved". Only two things leave the hub deaf to a session that someone is
\* attached to or that is marked subscribed: a close that falls between the
\* subscribe of an attach and that attach's end, and a close dropped when the
\* engine has closed the session and the hub has not let go of it yet.
DeafOnlyThroughAClose ==
    /\ subscribed \/ \E c \in Clients : base[c] # None
    /\ \A k \in Closes : pc[k] # "removing"
    => listening \/ deaf

-----------------------------------------------------------------------------
(* What the comments and tests say and the interleavings do not keep. *)

\* replay.rs: "from then on nothing in it goes unobserved". The same with no
\* close excepted.
AttachedMeansListening ==
    (\A k \in Closes : pc[k] # "removing") =>
        \A c \in connected : base[c] # None => subscribed /\ listening

\* Turns whose opening has a number.
OpenedTurns ==
    settled \cup
    {cur[d] : d \in {d \in Sends : pc[d] \in (Driving \ {"opening"}) \cup {"settling"}}}

Replayed(c) ==
    IF ServesReplay(c) THEN {f.turn : f \in ToSet(replay.frames)} ELSE {}

\* 04-hub.mjs: "What must never happen is both — a client rendering history and
\* replay would draw the turn twice."
CaughtUpAtMostOnce ==
    [][\A c \in Clients : AttachRegister(c) =>
        seen[c] \cap Replayed(c) = {}]_<<vars, frames>>

\* lib.rs: "Refreshing loses nothing"; 04-hub.mjs: "the late client caught up on
\* nothing" is a failure.
CaughtUpAtLeastOnce ==
    [][\A c \in Clients : AttachRegister(c) =>
        OpenedTurns \subseteq seen[c] \cup Replayed(c)]_<<vars, frames>>

\* turns.rs, settle_turn: the buffer goes only once the transcript has grown,
\* since "a turn that finished but is not yet on disk would otherwise be in
\* neither place".
FinishedTurnIsSomewhere ==
    \A m \in settled \ refused :
        m \in disk \cup {f.turn : f \in ToSet(replay.frames)}

\* 04-hub.mjs: "seq is assigned by the hub and never goes backwards".
SeqNeverGoesBack ==
    \A c \in Clients : \A i \in 1 .. Len(got[c]) - 1 :
        got[c][i].seq < got[c][i + 1].seq

\* docs/concept_and_architecture.md, 3.3.3: seq is the one anchor of catching up,
\* so no client is shown two frames under one number.
NumbersAreNotReused == \A c \in Clients : IsInjective(Numbers(c))

\* lib.rs: "The hub subscribes before any client does."
WatchedTurnsAreObserved == engine # None /\ watchers # {} => listening
=============================================================================
