--------------------------- MODULE ChannelsProofs ---------------------------
(***************************************************************************)
(* Proofs about Channels, for any number of connections, requests, devices *)
(* and challenges.                                                         *)
(***************************************************************************)
EXTENDS Channels, TLAPS

Requests == Handshakes \cup Streams \cup Calls

\* What a request names from its first step on.
Carried ==
    /\ \A s \in Streams : pc[s] # "new" => of[s] \in Faces
    /\ \A c \in Calls : pc[c] # "new" => of[c] \in Handshakes

\* A client or a credential is of a handshake that is past its challenge and
\* looks at no other.
Settled ==
    \A h \in clients \cup byCredential :
        pc[h] \in {"joined", "recorded", "established", "ending", "leaving",
                   "ended", "dropped"}

\* A handshake that is to redeem a challenge answers one this process minted.
Redeeming == \A h \in Handshakes : pc[h] = "redeeming" => chal[h] \in minted

\* A handshake whose credential is being recorded has its client.
Recording == \A h \in Handshakes : pc[h] \in {"joined", "recorded"} => h \in clients

Guarded == Settled /\ Redeeming /\ Recording /\ ChallengesAdmitOnce

IInv == TypeOK /\ Carried /\ Guarded

LEMMA InitIInv == Init => IInv
  <1> SUFFICES ASSUME Init PROVE IInv
    OBVIOUS
  <1> USE DEF Init
  <1>1. TypeOK
    BY DEF TypeOK, Book!Init, PC
  <1>2. Carried /\ Redeeming /\ Recording
    BY DEF Carried, Redeeming, Recording
  <1>3. Settled
    BY DEF Settled
  <1>4. ChallengesAdmitOnce
    BY DEF ChallengesAdmitOnce, Admitted
  <1> QED
    BY <1>1, <1>2, <1>3, <1>4 DEF IInv, Guarded

\* Each step keeps the types.
LEMMA TypeStep ==
    ASSUME IInv, Next
    PROVE  TypeOK' /\ Carried'
  <1> USE ChannelsAreDistinct
  <1>1. TypeOK /\ Carried
    BY DEF IInv
  <1>2. CASE DeviceStep
    <2>1. \E d \in Devices : Book!Enroll(d) \/ Book!Revoke(d)
      BY <1>2 DEF DeviceStep, Book!Next
    <2>2. enrolled' \subseteq Devices /\ revoked' \subseteq Devices
      BY <2>1, <1>1 DEF TypeOK, Book!Enroll, Book!Revoke
    <2> QED
      BY <2>2, <1>1, <1>2 DEF DeviceStep, TypeOK, Carried, challenges, handshakes,
                              hub, sessions, faces, history
  <1>3. ASSUME NEW ch \in Challenges, Issue(ch) \/ Expire(ch)
        PROVE  TypeOK' /\ Carried'
    BY <1>1, <1>3 DEF Issue, Expire, TypeOK, Carried, devices, handshakes,
                      hub, sessions, faces, history
  <1>4. ASSUME NEW h \in Handshakes, AdmitDevice(h)
        PROVE  TypeOK' /\ Carried'
    <2>1. \E label \in {"new", "refused", "redeeming"} : pc' = [pc EXCEPT ![h] = label]
      BY <1>4 DEF AdmitDevice, Refused, Goto
    <2>2. /\ dev' \in [Handshakes -> Devices \cup {None}]
          /\ chal' \in [Handshakes -> Challenges \cup {None}]
          /\ inTime' \in [Handshakes -> BOOLEAN]
      <3>1. CASE UNCHANGED handshakes
        BY <3>1, <1>1 DEF handshakes, TypeOK
      <3>2. CASE \E d \in Devices, ch \in minted :
                    /\ dev' = [dev EXCEPT ![h] = d]
                    /\ chal' = [chal EXCEPT ![h] = ch]
                    /\ inTime' = [inTime EXCEPT ![h] = ch \notin past]
        BY <3>2, <1>1 DEF TypeOK
      <3> QED
        BY <3>1, <3>2, <1>4 DEF AdmitDevice
    <2>3. UNCHANGED <<devices, challenges, of, hub, sessions, faces, history>>
      BY <1>4 DEF AdmitDevice
    <2>4. /\ pc' \in [Handshakes \cup Streams \cup Calls -> PC]
          /\ \A r \in Streams \cup Calls : pc'[r] = pc[r]
      BY <2>1, <1>1 DEF TypeOK, PC, Handshakes
    <2>5. TypeOK'
      BY <2>2, <2>3, <2>4, <1>1
      DEF TypeOK, devices, challenges, hub, sessions, faces, history
    <2>6. Carried'
      BY <2>3, <2>4, <1>1 DEF Carried
    <2> QED
      BY <2>5, <2>6
  <1>5. ASSUME NEW h \in Handshakes, Redeem(h)
        PROVE  TypeOK' /\ Carried'
    BY <1>1, <1>5 DEF Redeem, Refused, Goto, TypeOK, Carried, PC, devices,
                      handshakes, hub, sessions, faces, history, Handshakes
  <1>6. ASSUME NEW h \in Handshakes,
               AddClient(h) \/ RecordCredential(h) \/ RecordSink(h)
        PROVE  TypeOK' /\ Carried'
    BY <1>1, <1>6 DEF AddClient, RecordCredential, RecordSink, Goto, TypeOK, Carried,
                      PC, devices, challenges, handshakes, hub, sessions, faces,
                      history, Handshakes
  <1>7. ASSUME NEW h \in Handshakes,
               EndSinks(h) \/ EndCredential(h) \/ RemoveClient(h)
        PROVE  TypeOK' /\ Carried'
    BY <1>1, <1>7 DEF EndSinks, EndCredential, RemoveClient, Goto, TypeOK, Carried,
                      PC, devices, challenges, handshakes, hub, sessions, faces,
                      history, Handshakes
  <1>8. ASSUME NEW s \in Streams, StreamGet(s)
        PROVE  TypeOK' /\ Carried'
    BY <1>1, <1>8 DEF StreamGet, Goto, TypeOK, Carried, PC, devices, challenges,
                      handshakes, hub, sessions, faces, history, Handshakes
  <1>9. ASSUME NEW s \in Streams, StreamSubscribe(s) \/ StreamTake(s)
        PROVE  TypeOK' /\ Carried'
    <2>1. of[s] \in Faces
      BY <1>1, <1>9 DEF StreamSubscribe, StreamTake, Carried
    <2> QED
      BY <2>1, <1>1, <1>9 DEF StreamSubscribe, StreamTake, Goto, TypeOK, Carried, PC,
                      devices, challenges, handshakes, hub, sessions, faces, history
  <1>10. ASSUME NEW c \in Calls, CallArrives(c)
         PROVE  TypeOK' /\ Carried'
    BY <1>1, <1>10 DEF CallArrives, Goto, TypeOK, Carried, PC, devices, challenges,
                       handshakes, hub, sessions, faces, history
  <1>11. ASSUME NEW c \in Calls, CallWatches(c) \/ CallReplies(c)
         PROVE  TypeOK' /\ Carried'
    <2>1. of[c] \in Handshakes
      BY <1>1, <1>11 DEF CallWatches, CallReplies, Carried
    <2> QED
      BY <2>1, <1>1, <1>11 DEF CallWatches, CallReplies, Goto, TypeOK, Carried, PC,
                      devices, challenges, handshakes, hub, sessions, faces, history
  <1>12. ASSUME NEW r \in Posts \cup Streams \cup Calls, RequestDropped(r)
         PROVE  TypeOK' /\ Carried'
    BY <1>1, <1>12 DEF RequestDropped, Goto, TypeOK, Carried, PC, devices, challenges,
                       handshakes, hub, sessions, faces, history, Handshakes
  <1> QED
    BY <1>2, <1>3, <1>4, <1>5, <1>6, <1>7, <1>8, <1>9, <1>10, <1>11, <1>12
    DEF Next, Handshake, Stream, Call

\* A step that leaves challenges, handshakes, clients and credentials alone keeps
\* what is said of them.
Aside == <<minted, open, chal, inTime, clients, byCredential>>

LEMMA AsideStep ==
    ASSUME IInv, UNCHANGED Aside, \A h \in Handshakes : pc'[h] = pc[h]
    PROVE  Guarded'
  <1>1. clients \cup byCredential \subseteq Handshakes
    BY DEF IInv, TypeOK
  <1>2. Settled' /\ Redeeming' /\ Recording'
    BY <1>1 DEF IInv, Guarded, Aside, Settled, Redeeming, Recording
  <1>3. Admitted' = Admitted
    BY DEF Aside, Admitted
  <1>4. ChallengesAdmitOnce'
    BY <1>3 DEF IInv, Guarded, Aside, ChallengesAdmitOnce
  <1> QED
    BY <1>2, <1>4 DEF Guarded

After == {"joined", "recorded", "established", "ending", "leaving", "ended", "dropped"}

\* A handshake that goes on without admitting anyone new.
LEMMA GoingOn ==
    ASSUME IInv, NEW h \in Handshakes,
           UNCHANGED <<minted, open, chal, inTime>>,
           \A g \in Handshakes : g # h => pc'[g] = pc[g],
           pc'[h] \in After,
           pc'[h] \in {"joined", "recorded"} => h \in clients',
           \A g \in Handshakes : g # h =>
                (g \in clients' <=> g \in clients) /\ (g \in byCredential' <=> g \in byCredential),
           clients' \cup byCredential' \subseteq Handshakes,
           h \in clients' \cup byCredential' => h \in Admitted
    PROVE  Guarded'
  <1>1. Settled' /\ Redeeming' /\ Recording'
    BY DEF IInv, Guarded, Settled, Redeeming, Recording, After
  <1>2. Admitted' \subseteq Admitted
    BY DEF Admitted, After
  <1>3. ChallengesAdmitOnce'
    BY <1>2 DEF IInv, Guarded, ChallengesAdmitOnce
  <1> QED
    BY <1>1, <1>3 DEF Guarded

\* What each step does to the challenges and those admitted.
LEMMA ChallengeStep ==
    ASSUME IInv, Next
    PROVE  Guarded'
  <1> USE ChannelsAreDistinct
  <1>1. /\ TypeOK /\ Settled /\ Redeeming /\ Recording /\ ChallengesAdmitOnce
        /\ clients \cup byCredential \subseteq Handshakes
        /\ Admitted \subseteq Handshakes
    BY DEF IInv, Guarded, TypeOK, Admitted
  <1>2. \A h \in Admitted : pc[h] \notin {"new", "redeeming", "refused"}
    BY <1>1 DEF Settled, Admitted
  <1>3. CASE DeviceStep
    BY <1>3, AsideStep DEF DeviceStep, Aside, challenges, handshakes, hub, sessions
  <1>4. ASSUME NEW ch \in Challenges, Expire(ch)
        PROVE  Guarded'
    BY <1>4, AsideStep DEF Expire, Aside, handshakes, hub, sessions
  <1>5. ASSUME NEW ch \in Challenges, Issue(ch)
        PROVE  Guarded'
    <2>1. /\ ch \notin minted /\ minted' = minted \cup {ch}
          /\ open' \subseteq open \cup {ch}
          /\ UNCHANGED <<pc, chal, inTime, clients, byCredential>>
      BY <1>5 DEF Issue, handshakes, hub, sessions
    <2>2. Admitted' = Admitted
      BY <2>1 DEF Admitted
    <2>3. Settled' /\ Redeeming' /\ Recording'
      BY <2>1, <1>1 DEF Settled, Redeeming, Recording
    <2>4. ChallengesAdmitOnce'
      BY <2>1, <2>2, <1>1 DEF ChallengesAdmitOnce
    <2> QED
      BY <2>3, <2>4 DEF Guarded
  <1>6. ASSUME NEW h \in Handshakes, AdmitDevice(h)
        PROVE  Guarded'
    <2>1. /\ pc[h] = "new" /\ pc'[h] \in {"new", "refused", "redeeming"}
          /\ pc'[h] = "redeeming" => chal'[h] \in minted
          /\ \A g \in Handshakes : g # h =>
                pc'[g] = pc[g] /\ chal'[g] = chal[g] /\ inTime'[g] = inTime[g]
          /\ UNCHANGED <<minted, open, clients, byCredential>>
      BY <1>1, <1>6 DEF AdmitDevice, Refused, Goto, TypeOK, challenges, hub,
                        sessions, handshakes
    <2>2. Admitted' = Admitted /\ h \notin Admitted
      BY <2>1, <1>1, <1>2 DEF Admitted
    <2>3. Settled' /\ Redeeming' /\ Recording'
      BY <2>1, <2>2, <1>1 DEF Settled, Redeeming, Recording, Admitted
    <2>4. ChallengesAdmitOnce'
      BY <2>1, <2>2, <1>1 DEF ChallengesAdmitOnce
    <2> QED
      BY <2>3, <2>4 DEF Guarded
  <1>7. ASSUME NEW h \in Handshakes, Redeem(h)
        PROVE  Guarded'
    <2>1. /\ pc[h] = "redeeming" /\ open' = open \ {chal[h]}
          /\ \A g \in Handshakes : g # h => pc'[g] = pc[g]
          /\ \/ pc'[h] = "joining" /\ chal[h] \in open /\ inTime[h]
             \/ pc'[h] \in {"new", "refused"}
          /\ UNCHANGED <<minted, chal, inTime, clients, byCredential>>
      BY <1>1, <1>7 DEF Redeem, Refused, Goto, TypeOK, hub, sessions, handshakes
    <2>2. h \notin Admitted /\ chal[h] \in minted
      BY <2>1, <1>1, <1>2 DEF Redeeming
    <2>3. Settled' /\ Redeeming' /\ Recording'
      BY <2>1, <2>2, <1>1 DEF Settled, Redeeming, Recording, Admitted
    <2>4. CASE pc'[h] = "joining" /\ chal[h] \in open /\ inTime[h]
      <3>1. Admitted' = Admitted \cup {h}
        BY <2>1, <2>4, <1>1 DEF Admitted
      <3>2. \A g \in Admitted : chal[g] # chal[h]
        BY <2>4, <1>1 DEF ChallengesAdmitOnce
      <3>3. ChallengesAdmitOnce'
        BY <2>1, <2>2, <2>4, <3>1, <3>2, <1>1 DEF ChallengesAdmitOnce
      <3> QED
        BY <2>3, <3>3 DEF Guarded
    <2>5. CASE pc'[h] \in {"new", "refused"}
      <3>1. Admitted' = Admitted
        BY <2>1, <2>2, <2>5, <1>1 DEF Admitted
      <3>2. ChallengesAdmitOnce'
        BY <2>1, <3>1, <1>1 DEF ChallengesAdmitOnce
      <3> QED
        BY <2>3, <3>2 DEF Guarded
    <2> QED
      BY <2>1, <2>4, <2>5
  <1>8. ASSUME NEW h \in Handshakes,
               AddClient(h) \/ RecordCredential(h) \/ RecordSink(h)
        PROVE  Guarded'
    <2>1. h \in Admitted
      BY <1>1, <1>8 DEF AddClient, RecordCredential, RecordSink, Admitted, Recording
    <2>2. /\ UNCHANGED <<minted, open, chal, inTime>>
          /\ \A g \in Handshakes : g # h => pc'[g] = pc[g]
          /\ pc'[h] \in After
      BY <1>1, <1>8 DEF AddClient, RecordCredential, RecordSink, Goto, TypeOK, After,
                        challenges, handshakes
    <2>3. /\ h \in clients'
          /\ clients' = clients \cup {h} /\ byCredential' \in {byCredential, byCredential \cup {h}}
      BY <1>1, <1>8 DEF AddClient, RecordCredential, RecordSink, Recording, sessions, hub
    <2> QED
      BY <2>1, <2>2, <2>3, <1>1, GoingOn
  <1>9. ASSUME NEW h \in Handshakes,
               EndSinks(h) \/ EndCredential(h) \/ RemoveClient(h)
        PROVE  Guarded'
    <2>1. /\ UNCHANGED <<minted, open, chal, inTime>>
          /\ \A g \in Handshakes : g # h => pc'[g] = pc[g]
          /\ pc'[h] \in {"ending", "leaving", "ended"}
      BY <1>1, <1>9 DEF EndSinks, EndCredential, RemoveClient, Goto, TypeOK,
                        challenges, handshakes
    <2>2. /\ clients' \in {clients, clients \ {h}}
          /\ byCredential' \in {byCredential, byCredential \ {h}}
      BY <1>9 DEF EndSinks, EndCredential, RemoveClient, sessions, hub
    <2>3. h \in clients \cup byCredential => h \in Admitted
      BY DEF Admitted
    <2> QED
      BY <2>1, <2>2, <2>3, <1>1, GoingOn DEF After
  <1>10. ASSUME NEW r \in Posts \cup Streams \cup Calls, RequestDropped(r)
         PROVE  Guarded'
    <2>1. /\ UNCHANGED <<minted, open, chal, inTime, clients, byCredential>>
          /\ \A g \in Requests : g # r => pc'[g] = pc[g]
          /\ pc'[r] = "dropped"
      BY <1>1, <1>10 DEF RequestDropped, Goto, TypeOK, Requests, Handshakes,
                         challenges, handshakes, hub, sessions
    <2>2. CASE r \in Posts
      BY <2>1, <2>2, <1>1, GoingOn DEF After, Requests, Handshakes, Admitted
    <2>3. CASE r \notin Posts
      <3>1. r \notin Handshakes
        BY <1>10, <2>3 DEF Handshakes
      <3> QED
        BY <2>1, <3>1, AsideStep DEF Aside, Requests
    <2> QED
      BY <2>2, <2>3
  <1>11. ASSUME NEW r \in Streams \cup Calls,
                \/ r \in Streams /\ Stream(r)
                \/ r \in Calls /\ Call(r)
         PROVE  Guarded'
    <2>1. UNCHANGED Aside
      BY <1>11 DEF Stream, StreamGet, StreamSubscribe, StreamTake, Call, CallArrives,
                   CallWatches, CallReplies, Aside, challenges, handshakes, hub, sessions
    <2>2. \A h \in Handshakes : h # r
      BY <1>11 DEF Handshakes
    <2>3. \A h \in Handshakes : pc'[h] = pc[h]
      BY <1>1, <1>11, <2>2
      DEF Stream, StreamGet, StreamSubscribe, StreamTake, Call, CallArrives,
          CallWatches, CallReplies, Goto, TypeOK
    <2> QED
      BY <2>1, <2>3, AsideStep
  <1> QED
    BY <1>3, <1>4, <1>5, <1>6, <1>7, <1>8, <1>9, <1>10, <1>11 DEF Next, Handshake

LEMMA InvStep == IInv /\ [Next]_vars => IInv'
  <1>1. ASSUME IInv, UNCHANGED vars PROVE IInv'
    BY <1>1 DEF vars, devices, challenges, handshakes, hub, sessions, faces, history,
                IInv, Guarded, TypeOK, Carried, Settled, Redeeming, Recording,
                ChallengesAdmitOnce, Admitted
  <1>2. ASSUME IInv, Next PROVE IInv'
    BY <1>2, TypeStep, ChallengeStep DEF IInv
  <1> QED
    BY <1>1, <1>2

THEOREM Invariant == Spec => []IInv
  BY InitIInv, InvStep, PTL DEF Spec

\* Every variable keeps its type, for any number of connections and requests.
THEOREM TypeCorrect == Spec => []TypeOK
  <1>1. IInv => TypeOK
    BY DEF IInv
  <1> QED
    BY <1>1, Invariant, PTL

\* A challenge lets in at most one client, and only one that looked at the clock
\* in its time, however the handshakes that answer it race, are dropped and are
\* tried again (transport/src/admission.rs, redeem).
THEOREM ChallengesAreSpentOnce == Spec => []ChallengesAdmitOnce
  <1>1. IInv => ChallengesAdmitOnce
    BY DEF IInv, Guarded
  <1> QED
    BY <1>1, Invariant, PTL

-----------------------------------------------------------------------------
(* Where a connection stands says what is registered for it *)

Standing == {"established", "ending", "leaving", "ended"}

\* What the hub and the sessions hold of one handshake.
PlacedAt(h) ==
    /\ h \in clients =>
         pc[h] \in {"joined", "recorded", "established", "ending", "leaving", "dropped"}
    /\ h \in byCredential => pc[h] \in {"recorded", "established", "ending", "dropped"}
    /\ h \in sinks <=> pc[h] = "established"
    /\ pc[h] \in {"recorded", "established", "ending"} => h \in byCredential
    /\ h \in watchers => pc[h] \in Standing
    /\ h \in watchers /\ pc[h] = "ended" => \E c \in late : of[c] = h

\* A call is carried by a handshake that was established.
CarriedAt(c) ==
    /\ pc[c] # "new" => pc[of[c]] \in Standing
    /\ c \in late => pc[c] # "new"

\* A stream subscribes a face that has a sink, reads one that it subscribed,
\* and took its receiver before any other.
ReadAt(s) ==
    /\ pc[s] = "subscribing" => of[s][1] \in sinks
    /\ pc[s] \in {"taking", "reading"} => of[s] \in wanted
    /\ pc[s] = "reading" => of[s] \in taken

ReadAlone ==
    \A s, t \in Streams :
        pc[s] = "reading" /\ pc[t] = "reading" /\ of[s] = of[t] => s = t

Places ==
    /\ \A h \in Handshakes : PlacedAt(h)
    /\ \A c \in Calls : CarriedAt(c)
    /\ \A s \in Streams : ReadAt(s)
    /\ ReadAlone

LEMMA PlacesKept ==
    ASSUME Places, UNCHANGED <<pc, of, hub, sessions, faces, history>>
    PROVE  Places'
  BY DEF Places, PlacedAt, CarriedAt, ReadAt, ReadAlone, hub, sessions, faces, history

\* A step of one handshake.
LEMMA HandshakeMoves ==
    ASSUME IInv, Places, NEW h \in Handshakes,
           UNCHANGED <<of, wanted, taken, late>>,
           \A r \in Requests : r # h => pc'[r] = pc[r],
           pc[h] \in Standing => pc'[h] \in Standing,
           \A g \in Handshakes : g # h =>
                /\ g \in clients' <=> g \in clients
                /\ g \in byCredential' <=> g \in byCredential
                /\ g \in sinks' <=> g \in sinks
                /\ g \in watchers' <=> g \in watchers,
           h \in Posts /\ h \in sinks => h \in sinks',
           PlacedAt(h)'
    PROVE  Places'
  <1> USE ChannelsAreDistinct
  <1>1. Carried /\ Handshakes \subseteq Requests
    BY DEF IInv, Requests
  <1>2. ASSUME NEW g \in Handshakes PROVE PlacedAt(g)'
    BY <1>1 DEF Places, PlacedAt
  <1>3. ASSUME NEW c \in Calls PROVE CarriedAt(c)'
    <2>1. c # h /\ pc'[c] = pc[c]
      BY DEF Requests, Handshakes
    <2>2. CASE pc[c] = "new"
      BY <2>1, <2>2 DEF Places, CarriedAt
    <2>3. CASE pc[c] # "new"
      <3>1. of[c] \in Handshakes /\ pc[of[c]] \in Standing
        BY <1>1, <2>3 DEF Places, CarriedAt, Carried
      <3>2. pc'[of[c]] \in Standing
        BY <1>1, <3>1
      <3> QED
        BY <2>1, <2>3, <3>2 DEF CarriedAt
    <2> QED
      BY <2>2, <2>3
  <1>4. ASSUME NEW s \in Streams PROVE ReadAt(s)' /\ pc'[s] = pc[s]
    <2>1. s # h /\ pc'[s] = pc[s]
      BY DEF Requests, Handshakes
    <2>2. pc[s] = "subscribing" => of[s][1] \in sinks'
      <3> SUFFICES ASSUME pc[s] = "subscribing" PROVE of[s][1] \in sinks'
        OBVIOUS
      <3>1. of[s] \in Faces /\ of[s][1] \in sinks
        BY <1>1 DEF Carried, Places, ReadAt
      <3>2. of[s][1] \in Posts
        BY <3>1 DEF Faces
      <3> QED
        BY <3>1, <3>2 DEF Handshakes
    <2> QED
      BY <2>1, <2>2 DEF Places, ReadAt
  <1>5. ReadAlone'
    BY <1>4 DEF Places, ReadAlone
  <1> QED
    BY <1>2, <1>3, <1>4, <1>5 DEF Places

\* A step of one stream or call, which touches no connection.
LEMMA OthersStand ==
    ASSUME TypeOK, NEW r \in Streams \cup Calls, NEW label, Goto(r, label)
    PROVE  /\ \A q \in Requests : q # r => pc'[q] = pc[q]
           /\ \A h \in Handshakes : pc'[h] = pc[h]
           /\ pc'[r] = label
  BY ChannelsAreDistinct DEF TypeOK, Goto, Requests, Handshakes

LEMMA StreamMoves ==
    ASSUME IInv, Places, NEW s \in Streams, Stream(s)
    PROVE  Places'
  <1> USE ChannelsAreDistinct
  <1>1. /\ TypeOK /\ Carried /\ \A h \in Handshakes : h \in Requests
        /\ Calls \cup Streams \subseteq Requests
    BY DEF IInv, Requests
  <1>2. \E label : Goto(s, label)
    BY DEF Stream, StreamGet, StreamSubscribe, StreamTake
  <1>3. /\ \A q \in Requests : q # s => pc'[q] = pc[q]
        /\ \A h \in Handshakes : pc'[h] = pc[h]
    BY <1>1, <1>2, OthersStand
  <1>4. /\ UNCHANGED <<hub, sessions, history>>
        /\ \A r \in Streams \cup Calls : r # s => of'[r] = of[r]
        /\ wanted \subseteq wanted' /\ taken \subseteq taken'
    BY <1>1 DEF Stream, StreamGet, StreamSubscribe, StreamTake, TypeOK, faces
  <1>5. late \subseteq Calls /\ \A c \in Calls : c # s
    BY <1>1 DEF TypeOK
  <1>6. ASSUME NEW h \in Handshakes PROVE PlacedAt(h)'
    BY <1>3, <1>4, <1>5 DEF Places, PlacedAt, hub, sessions, history
  <1>7. ASSUME NEW c \in Calls PROVE CarriedAt(c)'
    <2>1. pc'[c] = pc[c] /\ of'[c] = of[c] /\ late' = late
      BY <1>1, <1>3, <1>4, <1>5 DEF history
    <2>2. pc[c] # "new" => pc'[of[c]] = pc[of[c]]
      BY <1>1, <1>3 DEF Carried
    <2> QED
      BY <2>1, <2>2 DEF Places, CarriedAt
  <1>8. ASSUME NEW t \in Streams, t # s PROVE ReadAt(t)' /\ pc'[t] = pc[t] /\ of'[t] = of[t]
    BY <1>1, <1>3, <1>4, <1>8 DEF Places, ReadAt, sessions
  <1>9. ReadAt(s)' /\ (pc'[s] = "reading" => of'[s] \notin taken)
    <2>1. CASE StreamGet(s)
      <3>1. PICK f \in Faces :
              /\ pc[f[1]] = "established"
              /\ of' = [of EXCEPT ![s] = f]
              /\ Goto(s, IF f[1] \in byCredential THEN "subscribing" ELSE "refused")
        BY <2>1 DEF StreamGet
      <3>2. of'[s] = f /\ pc'[s] \in {"subscribing", "refused"}
        BY <1>1, <3>1, OthersStand DEF TypeOK
      <3>3. f[1] \in sinks
        <4>1. f[1] \in Handshakes
          BY <3>1 DEF Faces, Handshakes
        <4> QED
          BY <3>1, <4>1 DEF Places, PlacedAt
      <3> QED
        BY <1>4, <3>2, <3>3 DEF ReadAt, sessions
    <2>2. CASE StreamSubscribe(s)
      <3>1. of[s][1] \in sinks
        BY <2>2 DEF StreamSubscribe, Places, ReadAt
      <3>2. wanted' = wanted \cup {of[s]} /\ of' = of /\ Goto(s, "taking")
        BY <2>2, <3>1 DEF StreamSubscribe
      <3>3. pc'[s] = "taking"
        BY <1>1, <3>2, OthersStand
      <3> QED
        BY <3>2, <3>3 DEF ReadAt
    <2>3. CASE StreamTake(s)
      <3>1. /\ taken' = taken \cup {of[s]} /\ of' = of /\ wanted' = wanted
            /\ Goto(s, IF of[s] \in taken THEN "refused" ELSE "reading")
            /\ of[s] \in wanted
        BY <2>3 DEF StreamTake, Places, ReadAt
      <3>2. pc'[s] = IF of[s] \in taken THEN "refused" ELSE "reading"
        BY <1>1, <3>1, OthersStand
      <3> QED
        BY <3>1, <3>2 DEF ReadAt
    <2> QED
      BY <2>1, <2>2, <2>3 DEF Stream
  <1>10. ReadAlone'
    <2>1. \A t \in Streams : t # s /\ pc'[t] = "reading" => of'[t] \in taken
      BY <1>8 DEF Places, ReadAt
    <2> QED
      BY <1>8, <1>9, <2>1 DEF Places, ReadAlone
  <1> QED
    BY <1>6, <1>7, <1>8, <1>9, <1>10 DEF Places

LEMMA CallMoves ==
    ASSUME IInv, Places, NEW c \in Calls, Call(c)
    PROVE  Places'
  <1> USE ChannelsAreDistinct
  <1>1. /\ TypeOK /\ Carried /\ \A h \in Handshakes : h \in Requests
        /\ Calls \cup Streams \subseteq Requests /\ late \subseteq Calls
    BY DEF IInv, Requests, TypeOK
  <1>2. \E label \in {"ignored", "inCall", "watched", "answered"} : Goto(c, label)
    BY DEF Call, CallArrives, CallWatches, CallReplies
  <1>3. /\ \A q \in Requests : q # c => pc'[q] = pc[q]
        /\ \A h \in Handshakes : pc'[h] = pc[h]
        /\ pc'[c] # "new"
    BY <1>1, <1>2, OthersStand
  <1>4. /\ UNCHANGED <<clients, sessions, faces>> /\ late \subseteq late'
        /\ \A r \in Streams \cup Calls : r # c => of'[r] = of[r]
        /\ pc[c] # "new" => of'[c] = of[c]
        /\ late' \subseteq late \cup {c}
    BY <1>1 DEF Call, CallArrives, CallWatches, CallReplies, TypeOK, hub, history
  <1>5. /\ of'[c] \in Handshakes /\ pc[of'[c]] \in Standing
        /\ pc[c] = "new" => c \notin late
    <2>1. CASE CallArrives(c)
      BY <1>1, <2>1 DEF CallArrives, TypeOK, Standing, Places, CarriedAt
    <2>2. CASE CallWatches(c) \/ CallReplies(c)
      BY <1>1, <1>4, <2>2 DEF CallWatches, CallReplies, Carried, Places, CarriedAt
    <2> QED
      BY <2>1, <2>2 DEF Call
  <1>6. \A d \in late : of'[d] = of[d]
    BY <1>1, <1>4, <1>5
  <1>7. ASSUME NEW h \in Handshakes PROVE PlacedAt(h)'
    <2>1. CASE UNCHANGED watchers
      BY <1>3, <1>4, <1>6, <2>1 DEF Places, PlacedAt, sessions
    <2>2. CASE CallWatches(c)
      <3>1. /\ watchers' = watchers \cup {of[c]} /\ of' = of
            /\ late' = IF pc[of[c]] = "ended" THEN late \cup {c} ELSE late
        BY <2>2 DEF CallWatches
      <3> QED
        BY <1>3, <1>4, <1>5, <1>6, <3>1 DEF Places, PlacedAt, sessions
    <2> QED
      BY <2>1, <2>2 DEF Call, CallArrives, CallReplies, hub
  <1>8. ASSUME NEW d \in Calls PROVE CarriedAt(d)'
    <2>1. CASE d = c
      BY <1>3, <1>5, <2>1 DEF CarriedAt
    <2>2. CASE d # c
      <3>1. pc'[d] = pc[d] /\ of'[d] = of[d] /\ (d \in late' => d \in late)
        BY <1>1, <1>3, <1>4, <2>2
      <3>2. pc[d] # "new" => pc'[of[d]] = pc[of[d]]
        BY <1>1, <1>3 DEF Carried
      <3> QED
        BY <3>1, <3>2 DEF Places, CarriedAt
    <2> QED
      BY <2>1, <2>2
  <1>9. ASSUME NEW s \in Streams PROVE ReadAt(s)' /\ pc'[s] = pc[s] /\ of'[s] = of[s]
    BY <1>1, <1>3, <1>4 DEF Places, ReadAt, sessions, faces
  <1>10. ReadAlone'
    BY <1>9 DEF Places, ReadAlone
  <1> QED
    BY <1>7, <1>8, <1>9, <1>10 DEF Places

LEMMA DropMoves ==
    ASSUME IInv, Places, NEW r \in Posts \cup Streams \cup Calls, RequestDropped(r)
    PROVE  Places'
  <1> USE ChannelsAreDistinct
  <1>1. /\ TypeOK /\ Carried /\ pc' = [pc EXCEPT ![r] = "dropped"]
        /\ UNCHANGED <<of, hub, sessions, faces, history>>
    BY DEF IInv, RequestDropped, Goto
  <1>2. \A q \in Requests : q # r => pc'[q] = pc[q]
    BY <1>1 DEF TypeOK, Requests
  <1>3. pc'[r] = "dropped"
    BY <1>1 DEF TypeOK, Handshakes
  <1>4. CASE r \in Posts
    <2>1. r \in Handshakes /\ pc[r] \in {"redeeming", "joining", "joined", "recorded"}
      BY <1>4 DEF RequestDropped, Handshakes
    <2>2. PlacedAt(r)'
      BY <1>1, <1>3, <2>1 DEF Places, PlacedAt, Standing, hub, sessions, history
    <2> QED
      BY <1>1, <1>2, <1>3, <2>1, <2>2, HandshakeMoves
      DEF Standing, hub, sessions, faces, history
  <1>5. CASE r \in Streams \cup Calls
    <2>1. pc[r] # "new" /\ \A h \in Handshakes : pc'[h] = pc[h]
      BY <1>2, <1>5 DEF RequestDropped, Handshakes, Requests
    <2>2. ASSUME NEW h \in Handshakes PROVE PlacedAt(h)'
      BY <1>1, <2>1 DEF Places, PlacedAt, hub, sessions, history
    <2>3. ASSUME NEW c \in Calls PROVE CarriedAt(c)'
      <3>1. pc[c] # "new" <=> pc'[c] # "new"
        BY <1>2, <1>3, <2>1 DEF Requests
      <3>2. pc[c] # "new" => pc'[of[c]] = pc[of[c]]
        BY <1>1, <2>1 DEF Carried
      <3> QED
        BY <1>1, <3>1, <3>2 DEF Places, CarriedAt, history
    <2>4. ASSUME NEW s \in Streams PROVE pc'[s] = pc[s] \/ pc'[s] = "dropped"
      BY <1>2, <1>3 DEF Requests
    <2>5. (\A s \in Streams : ReadAt(s)') /\ ReadAlone'
      BY <1>1, <2>4 DEF Places, ReadAt, ReadAlone, sessions, faces
    <2> QED
      BY <2>2, <2>3, <2>5 DEF Places
  <1> QED
    BY <1>4, <1>5

\* The end of a websocket, and each step of a handshake, is a step of one.
LEMMA ConnectionMoves ==
    ASSUME IInv, Places, NEW h \in Handshakes,
           Handshake(h) \/ EndSinks(h) \/ EndCredential(h) \/ RemoveClient(h)
    PROVE  Places'
  <1> USE ChannelsAreDistinct
  <1>1. TypeOK /\ PlacedAt(h) /\ Handshakes \subseteq Requests
    BY DEF IInv, Places, Requests
  <1>2. \E label : Goto(h, label)
    BY DEF Handshake, AdmitDevice, Redeem, Refused, AddClient, RecordCredential,
           RecordSink, EndSinks, EndCredential, RemoveClient
  <1>3. \A r \in Requests : r # h => pc'[r] = pc[r]
    BY <1>1, <1>2 DEF Goto, TypeOK, Requests
  <1>4. UNCHANGED <<of, wanted, taken, late>>
    BY DEF Handshake, AdmitDevice, Redeem, AddClient, RecordCredential,
           RecordSink, EndSinks, EndCredential, RemoveClient, faces, history
  <1>5. CASE AdmitDevice(h) \/ Redeem(h)
    <2>1. /\ pc[h] \in {"new", "redeeming"}
          /\ pc'[h] \in {"new", "refused", "redeeming", "joining"}
          /\ UNCHANGED <<clients, watchers, byCredential, sinks>>
      BY <1>1, <1>5 DEF AdmitDevice, Redeem, Refused, Goto, TypeOK, hub, sessions
    <2>2. PlacedAt(h)'
      BY <1>1, <2>1 DEF PlacedAt, Standing
    <2> QED
      BY <1>3, <1>4, <2>1, <2>2, HandshakeMoves DEF Standing
  <1>6. CASE AddClient(h)
    <2>1. /\ pc[h] = "joining" /\ pc'[h] = "joined" /\ clients' = clients \cup {h}
          /\ UNCHANGED <<watchers, byCredential, sinks>>
      BY <1>1, <1>6 DEF AddClient, Goto, TypeOK, sessions
    <2>2. PlacedAt(h)'
      BY <1>1, <2>1 DEF PlacedAt, Standing
    <2> QED
      BY <1>3, <1>4, <2>1, <2>2, HandshakeMoves DEF Standing
  <1>7. CASE RecordCredential(h)
    <2>1. /\ pc[h] = "joined" /\ pc'[h] = "recorded"
          /\ byCredential' = byCredential \cup {h}
          /\ UNCHANGED <<clients, watchers, sinks>>
      BY <1>1, <1>7 DEF RecordCredential, Goto, TypeOK, hub
    <2>2. PlacedAt(h)'
      BY <1>1, <2>1 DEF PlacedAt, Standing
    <2> QED
      BY <1>3, <1>4, <2>1, <2>2, HandshakeMoves DEF Standing
  <1>8. CASE RecordSink(h)
    <2>1. /\ pc[h] = "recorded" /\ pc'[h] = "established" /\ sinks' = sinks \cup {h}
          /\ UNCHANGED <<clients, watchers, byCredential>>
      BY <1>1, <1>8 DEF RecordSink, Goto, TypeOK, hub
    <2>2. PlacedAt(h)'
      BY <1>1, <2>1 DEF PlacedAt, Standing
    <2> QED
      BY <1>3, <1>4, <2>1, <2>2, HandshakeMoves DEF Standing
  <1>9. CASE EndSinks(h)
    <2>1. /\ h \in Sockets /\ h \notin Posts
          /\ UNCHANGED <<clients, watchers, byCredential>>
          /\ \/ pc[h] = "established" /\ sinks' = sinks \ {h} /\ pc'[h] = "ending"
             \/ pc[h] = "new" /\ UNCHANGED sinks /\ pc'[h] = "ended"
      BY <1>1, <1>9 DEF EndSinks, Goto, TypeOK, hub
    <2>2. PlacedAt(h)'
      BY <1>1, <2>1 DEF PlacedAt, Standing
    <2> QED
      BY <1>3, <1>4, <2>1, <2>2, HandshakeMoves DEF Standing
  <1>10. CASE EndCredential(h)
    <2>1. /\ pc[h] = "ending" /\ pc'[h] = "leaving"
          /\ byCredential' = byCredential \ {h}
          /\ UNCHANGED <<clients, watchers, sinks>>
      BY <1>1, <1>10 DEF EndCredential, Goto, TypeOK, hub
    <2>2. PlacedAt(h)'
      BY <1>1, <2>1 DEF PlacedAt, Standing
    <2> QED
      BY <1>3, <1>4, <2>1, <2>2, HandshakeMoves DEF Standing
  <1>11. CASE RemoveClient(h)
    <2>1. /\ pc[h] = "leaving" /\ pc'[h] = "ended"
          /\ clients' = clients \ {h} /\ watchers' = watchers \ {h}
          /\ UNCHANGED <<byCredential, sinks>>
      BY <1>1, <1>11 DEF RemoveClient, Goto, TypeOK, sessions
    <2>2. PlacedAt(h)'
      BY <1>1, <2>1 DEF PlacedAt, Standing
    <2> QED
      BY <1>3, <1>4, <2>1, <2>2, HandshakeMoves DEF Standing
  <1> QED
    BY <1>5, <1>6, <1>7, <1>8, <1>9, <1>10, <1>11 DEF Handshake

LEMMA PlacesStep ==
    ASSUME IInv, Places, [Next]_vars
    PROVE  Places'
  <1>1. CASE DeviceStep
    BY <1>1, PlacesKept DEF DeviceStep
  <1>2. ASSUME NEW ch \in Challenges, Issue(ch) \/ Expire(ch) PROVE Places'
    BY <1>2, PlacesKept DEF Issue, Expire
  <1>3. CASE UNCHANGED vars
    BY <1>3, PlacesKept DEF vars
  <1> QED
    BY <1>1, <1>2, <1>3, ConnectionMoves, StreamMoves, CallMoves, DropMoves DEF Next

THEOREM PlacesInvariant == Spec => []Places
  <1>1. Init => Places
    <2> SUFFICES ASSUME Init PROVE Places
      OBVIOUS
    <2>1. /\ \A r \in Requests : pc[r] = "new"
          /\ clients = {} /\ watchers = {} /\ byCredential = {} /\ sinks = {} /\ late = {}
      BY DEF Init, Requests
    <2> QED
      BY <2>1 DEF Places, PlacedAt, CarriedAt, ReadAt, ReadAlone, Requests
  <1> QED
    BY <1>1, PlacesStep, Invariant, PTL DEF Spec

\* Two streams never read one face, and none reads a face whose frames nobody
\* queues, however they race (split.rs, events; session.rs, subscribe and take).
THEOREM OneReaderPerFace == Spec => []FacesHaveOneReader
  <1>1. Places => FacesHaveOneReader
    BY DEF Places, ReadAt, ReadAlone, FacesHaveOneReader
  <1> QED
    BY <1>1, PlacesInvariant, PTL

\* Of a connection that ended no client, credential or sink is left, and a
\* watcher only by a call that was in flight (ws.rs and session.rs, end).
THEOREM EndsAreClean == Spec => []EndedLeavesNothing
  <1>1. Places => EndedLeavesNothing
    BY DEF Places, PlacedAt, EndedLeavesNothing
  <1> QED
    BY <1>1, PlacesInvariant, PTL

\* A client of the hub has its credential but for the awaits of its handshake
\* and of its end (session.rs, establish and end).
THEOREM ClientsAreReachable == Spec => []ClientsHaveCredentials
  <1>1. IInv /\ Places => ClientsHaveCredentials
    BY DEF IInv, TypeOK, Places, PlacedAt, ClientsHaveCredentials
  <1> QED
    BY <1>1, Invariant, PlacesInvariant, PTL
=============================================================================
