------------------------------ MODULE Channels ------------------------------
(***************************************************************************)
(* From a handshake to the end of its channels: crates/transport/src       *)
(* admission.rs, session.rs, ws.rs and split.rs on a reachable listener.   *)
(*                                                                         *)
(* A websocket does its handshake in its read loop, spawns its calls and   *)
(* ends its credential when the loop ends.  With split streams handshake,  *)
(* calls and event streams are HTTP requests, each of which may be dropped *)
(* at an await; their credentials are never ended.  Each action is what    *)
(* happens between two awaits.                                             *)
(*                                                                         *)
(* A credential, and the hub's client behind it, is named by the handshake *)
(* that made it.  The paired devices are those of DeviceBook, which module *)
(* Pairing implements.                                                     *)
(***************************************************************************)
EXTENDS Integers, FiniteSets

CONSTANTS
    Sockets,        \* websocket connections
    Posts,          \* POST /handshake requests
    Streams,        \* GET /events/session and /events/host requests
    Calls,          \* rpc calls
    Devices,
    Challenges,
    MaxInFlight,    \* MAX_IN_FLIGHT
    None

Handshakes == Sockets \cup Posts
Faces == Posts \X {"session", "host"}

ASSUME ChannelsAreDistinct ==
    /\ Sockets \cap (Posts \cup Streams \cup Calls) = {}
    /\ Posts \cap (Streams \cup Calls) = {}
    /\ Streams \cap Calls = {}
    /\ None \notin Handshakes \cup Devices \cup Challenges \cup Faces
    /\ MaxInFlight \in Nat

VARIABLES
    enrolled, revoked,  \* the devices: see DeviceBook
    minted,         \* challenges handed out
    open,           \* Challenges.open
    past,           \* challenges whose time is over
    pc,             \* where each connection and request stands
    dev,            \* the device a handshake names
    chal,           \* the challenge it answers
    inTime,         \* whether that was still good when it looked at the clock
    of,             \* whose credential a call carries, and which face a stream reads
    clients,        \* Hub: the clients whose sink is registered
    watchers,       \* Hub: the clients that watch a session
    byCredential, sinks,    \* Sessions
    wanted,         \* the faces whose frames are queued
    taken,          \* the faces whose receiver was given to a reader
    late            \* calls that began to watch after their connection had ended

devices == <<enrolled, revoked>>
challenges == <<minted, open, past>>
handshakes == <<dev, chal, inTime>>
hub == <<clients, watchers>>
sessions == <<byCredential, sinks>>
faces == <<wanted, taken>>
history == <<late>>
vars == <<devices, challenges, pc, handshakes, of, hub, sessions, faces, history>>

Book == INSTANCE DeviceBook

PC == {"new", "redeeming", "joining", "joined", "recorded", "established",
       "ending", "leaving", "ended", "subscribing", "taking", "reading",
       "inCall", "watched", "answered", "ignored", "refused", "dropped"}

TypeOK ==
    /\ enrolled \subseteq Devices /\ revoked \subseteq Devices
    /\ open \subseteq minted /\ minted \subseteq Challenges
    /\ past \subseteq minted
    /\ pc \in [Handshakes \cup Streams \cup Calls -> PC]
    /\ dev \in [Handshakes -> Devices \cup {None}]
    /\ chal \in [Handshakes -> Challenges \cup {None}]
    /\ inTime \in [Handshakes -> BOOLEAN]
    /\ of \in [Streams \cup Calls -> Handshakes \cup Faces \cup {None}]
    /\ clients \subseteq Handshakes
    /\ watchers \subseteq Handshakes
    /\ byCredential \subseteq Handshakes /\ sinks \subseteq Handshakes
    /\ wanted \subseteq Faces /\ taken \subseteq Faces
    /\ late \subseteq Calls

Init ==
    /\ Book!Init
    /\ minted = {} /\ open = {} /\ past = {}
    /\ pc = [r \in Handshakes \cup Streams \cup Calls |-> "new"]
    /\ dev = [h \in Handshakes |-> None]
    /\ chal = [h \in Handshakes |-> None]
    /\ inTime = [h \in Handshakes |-> FALSE]
    /\ of = [r \in Streams \cup Calls |-> None]
    /\ clients = {} /\ watchers = {}
    /\ byCredential = {} /\ sinks = {}
    /\ wanted = {} /\ taken = {}
    /\ late = {}

Goto(r, label) == pc' = [pc EXCEPT ![r] = label]

-----------------------------------------------------------------------------
(* Devices and challenges *)

\* A device is paired or revoked.  Revoking hands the device to a closure that
\* writes a log line and ends no channel.
DeviceStep ==
    /\ Book!Next
    /\ UNCHANGED <<challenges, pc, handshakes, of, hub, sessions, faces, history>>

\* issue: expired challenges go, those that expired by the time it read.
Issue(ch) ==
    /\ ch \notin minted
    /\ minted' = minted \cup {ch}
    /\ \E gone \in SUBSET (open \cap past) : open' = (open \ gone) \cup {ch}
    /\ UNCHANGED <<devices, past, pc, handshakes, of, hub, sessions, faces, history>>

Expire(ch) ==
    /\ ch \in minted \ past
    /\ past' = past \cup {ch}
    /\ UNCHANGED <<devices, minted, open, pc, handshakes, of, hub, sessions, faces, history>>

-----------------------------------------------------------------------------
(* The handshake *)

\* A refused websocket may try again; a refused request is over.
Refused(h) == Goto(h, IF h \in Sockets THEN "new" ELSE "refused")

\* admit, up to the lock of the challenges: the device is looked up, and the
\* clock is read.
AdmitDevice(h) ==
    /\ pc[h] = "new"
    /\ \E d \in Devices, ch \in minted :
        \/ /\ d \in enrolled
           /\ dev' = [dev EXCEPT ![h] = d]
           /\ chal' = [chal EXCEPT ![h] = ch]
           /\ inTime' = [inTime EXCEPT ![h] = ch \notin past]
           /\ Goto(h, "redeeming")
        \/ /\ d \notin enrolled
           /\ Refused(h)
           /\ UNCHANGED handshakes
    /\ UNCHANGED <<devices, challenges, of, hub, sessions, faces, history>>

\* Mutant: the time of the challenge is not looked at.
RedeemLate(h) ==
    /\ pc[h] = "redeeming"
    /\ open' = open \ {chal[h]}
    /\ \/ chal[h] \in open /\ Goto(h, "joining")
       \/ Refused(h)
    /\ UNCHANGED <<devices, minted, past, handshakes, of, hub, sessions, faces, history>>

\* redeem takes the challenge out, good or not; a wrong signature or a handshake
\* that is not understood is refused after that.
Redeem(h) ==
    /\ pc[h] = "redeeming"
    /\ open' = open \ {chal[h]}
    /\ \/ chal[h] \in open /\ inTime[h] /\ Goto(h, "joining")
       \/ Refused(h)
    /\ UNCHANGED <<devices, minted, past, handshakes, of, hub, sessions, faces, history>>

\* establish: a client of the hub, then the credential, then the sink.
AddClient(h) ==
    /\ pc[h] = "joining"
    /\ clients' = clients \cup {h}
    /\ Goto(h, "joined")
    /\ UNCHANGED <<devices, challenges, handshakes, of, watchers, sessions, faces, history>>

RecordCredential(h) ==
    /\ pc[h] = "joined"
    /\ byCredential' = byCredential \cup {h}
    /\ Goto(h, "recorded")
    /\ UNCHANGED <<devices, challenges, handshakes, of, hub, sinks, faces, history>>

RecordSink(h) ==
    /\ pc[h] = "recorded"
    /\ sinks' = sinks \cup {h}
    /\ Goto(h, "established")
    /\ UNCHANGED <<devices, challenges, handshakes, of, hub, byCredential, faces, history>>

Handshake(h) ==
    \/ AdmitDevice(h) \/ Redeem(h)
    \/ AddClient(h) \/ RecordCredential(h) \/ RecordSink(h)

-----------------------------------------------------------------------------
(* The end of a websocket *)

\* The read loop ends: end takes the sink out first.
EndSinks(h) ==
    /\ h \in Sockets
    /\ \/ pc[h] = "established" /\ sinks' = sinks \ {h} /\ Goto(h, "ending")
       \/ pc[h] = "new" /\ UNCHANGED sinks /\ Goto(h, "ended")
    /\ UNCHANGED <<devices, challenges, handshakes, of, hub, byCredential, faces, history>>

\* Mutant: the hub is not told.
EndCredentialAlone(h) ==
    /\ pc[h] = "ending"
    /\ byCredential' = byCredential \ {h}
    /\ Goto(h, "ended")
    /\ UNCHANGED <<devices, challenges, handshakes, of, hub, sinks, faces, history>>

EndCredential(h) ==
    /\ pc[h] = "ending"
    /\ byCredential' = byCredential \ {h}
    /\ Goto(h, "leaving")
    /\ UNCHANGED <<devices, challenges, handshakes, of, hub, sinks, faces, history>>

\* Mutant: the client is taken out of the hub's sinks but goes on watching.
RemoveClientOnly(h) ==
    /\ pc[h] = "leaving"
    /\ clients' = clients \ {h}
    /\ UNCHANGED watchers
    /\ Goto(h, "ended")
    /\ UNCHANGED <<devices, challenges, handshakes, of, sessions, faces, history>>

\* remove_client
RemoveClient(h) ==
    /\ pc[h] = "leaving"
    /\ clients' = clients \ {h}
    /\ watchers' = watchers \ {h}
    /\ Goto(h, "ended")
    /\ UNCHANGED <<devices, challenges, handshakes, of, sessions, faces, history>>

-----------------------------------------------------------------------------
(* Event streams *)

\* A client knows its credential from the reply of its handshake.
StreamGet(s) ==
    /\ pc[s] = "new"
    /\ \E f \in Faces :
        /\ pc[f[1]] = "established"
        /\ of' = [of EXCEPT ![s] = f]
        /\ Goto(s, IF f[1] \in byCredential THEN "subscribing" ELSE "refused")
    /\ UNCHANGED <<devices, challenges, handshakes, hub, sessions, faces, history>>

\* Mutant: the client is subscribed, not the face.
StreamSubscribeClient(s) ==
    /\ pc[s] = "subscribing"
    /\ wanted' = IF of[s][1] \in sinks THEN wanted \cup {of[s][1]} ELSE wanted
    /\ Goto(s, "taking")
    /\ UNCHANGED <<devices, challenges, handshakes, of, hub, sessions, taken, history>>

StreamSubscribe(s) ==
    /\ pc[s] = "subscribing"
    /\ wanted' = IF of[s][1] \in sinks THEN wanted \cup {of[s]} ELSE wanted
    /\ Goto(s, "taking")
    /\ UNCHANGED <<devices, challenges, handshakes, of, hub, sessions, taken, history>>

\* Mutant: the receiver is looked at and left for the next reader.
StreamTakeShared(s) ==
    /\ pc[s] = "taking"
    /\ Goto(s, IF of[s] \in taken THEN "refused" ELSE "reading")
    /\ UNCHANGED <<devices, challenges, handshakes, of, hub, sessions, faces, history>>

\* One reader per face: the receiver goes to the first and is never given back.
StreamTake(s) ==
    /\ pc[s] = "taking"
    /\ taken' = taken \cup {of[s]}
    /\ Goto(s, IF of[s] \in taken THEN "refused" ELSE "reading")
    /\ UNCHANGED <<devices, challenges, handshakes, of, hub, sessions, wanted, history>>

Stream(s) == StreamGet(s) \/ StreamSubscribe(s) \/ StreamTake(s)

-----------------------------------------------------------------------------
(* Calls *)

InFlight(h) == Cardinality({c \in Calls : of[c] = h /\ pc[c] \in {"inCall", "watched"}})

\* A call is carried by an established connection or credential. A websocket
\* over its in-flight limit drops the frame; split streams have no limit.
CallArrives(c) ==
    /\ pc[c] = "new"
    /\ \E h \in Handshakes :
        /\ pc[h] = "established"
        /\ of' = [of EXCEPT ![c] = h]
        /\ Goto(c, IF h \in Sockets /\ InFlight(h) >= MaxInFlight
                   THEN "ignored" ELSE "inCall")
    /\ UNCHANGED <<devices, challenges, handshakes, hub, sessions, faces, history>>

\* nest.attach or nest.send registers the client that the credential names.
CallWatches(c) ==
    /\ pc[c] = "inCall"
    /\ watchers' = watchers \cup {of[c]}
    /\ late' = IF pc[of[c]] = "ended" THEN late \cup {c} ELSE late
    /\ Goto(c, "watched")
    /\ UNCHANGED <<devices, challenges, handshakes, of, clients, sessions, faces>>

CallReplies(c) ==
    /\ pc[c] \in {"inCall", "watched"}
    /\ Goto(c, "answered")
    /\ UNCHANGED <<devices, challenges, handshakes, of, hub, sessions, faces, history>>

Call(c) == CallArrives(c) \/ CallWatches(c) \/ CallReplies(c)

\* An HTTP request is dropped with its client: a handshake or a stream at any of
\* its awaits, a stream that is being read, a call of split streams.
RequestDropped(r) ==
    /\ \/ r \in Posts /\ pc[r] \in {"redeeming", "joining", "joined", "recorded"}
       \/ r \in Streams /\ pc[r] \in {"subscribing", "taking", "reading"}
       \/ r \in Calls /\ pc[r] \in {"inCall", "watched"} /\ of[r] \in Posts
    /\ Goto(r, "dropped")
    /\ UNCHANGED <<devices, challenges, handshakes, of, hub, sessions, faces, history>>

-----------------------------------------------------------------------------

Next ==
    \/ DeviceStep
    \/ \E ch \in Challenges : Issue(ch) \/ Expire(ch)
    \/ \E h \in Handshakes :
        Handshake(h) \/ EndSinks(h) \/ EndCredential(h) \/ RemoveClient(h)
    \/ \E s \in Streams : Stream(s)
    \/ \E c \in Calls : Call(c)
    \/ \E r \in Posts \cup Streams \cup Calls : RequestDropped(r)

Spec == Init /\ [][Next]_vars

\* Handshakes and calls that have begun, and the end of a connection, are
\* carried through.  Nothing says that a client connects, calls or leaves.
Fairness ==
    /\ \A h \in Handshakes :
        /\ WF_vars(Redeem(h) \/ AddClient(h) \/ RecordCredential(h) \/ RecordSink(h))
        /\ WF_vars(EndCredential(h) \/ RemoveClient(h))
    /\ \A s \in Streams : WF_vars(StreamSubscribe(s) \/ StreamTake(s))
    /\ \A c \in Calls : WF_vars(CallWatches(c) \/ CallReplies(c))

FairSpec == Spec /\ Fairness

-----------------------------------------------------------------------------
(* Properties *)

\* "The challenge is single-use": however handshakes race for it, are dropped
\* and are tried again, at most one comes to be a client with it; this process
\* minted it, and its time was not over when that handshake looked at the clock
\* (it may run out while the handshake waits for the challenges).
Admitted == clients \cup byCredential \cup {h \in Handshakes : pc[h] = "joining"}

ChallengesAdmitOnce ==
    \A g, h \in Admitted :
        /\ chal[g] \in minted \ open
        /\ inTime[g]
        /\ g # h => chal[g] # chal[h]

\* One reader per face, and it reads a face whose frames are queued: no two
\* streams that raced share the frames, and none waits on a queue nobody fills.
FacesHaveOneReader ==
    \A s \in Streams : pc[s] = "reading" =>
        /\ of[s] \in wanted
        /\ \A t \in Streams \ {s} : pc[t] = "reading" => of[t] # of[s]

\* What a connection leaves behind. Once it ended, no credential, sink or client
\* of it is left, and a watcher of it only by a call that was in flight then.
EndedLeavesNothing ==
    \A h \in Handshakes : pc[h] = "ended" =>
        /\ h \notin clients \cup byCredential \cup sinks
        /\ h \in watchers => \E c \in late : of[c] = h

\* A client of the hub can be reached by its credential, unless its handshake is
\* under way or was dropped there, or it is being ended.
ClientsHaveCredentials ==
    \A h \in clients : h \in byCredential \/ pc[h] \in {"joined", "leaving", "dropped"}

-----------------------------------------------------------------------------
(* What the comments of the code say and its steps do not keep. *)

\* devices.rs: "revoking a device ends **all** of its channels at once"; session.rs:
\* "Revoking a device is this, for each credential it holds."
RevokedDevicesLoseTheirChannels ==
    \A h \in Handshakes :
        (h \in byCredential /\ dev[h] \in revoked) ~> h \notin byCredential

\* session.rs, end: "Drop one, and everything it was watching with it."
EndedWatchesNothing == \A h \in Handshakes : pc[h] = "ended" => h \notin watchers
=============================================================================
