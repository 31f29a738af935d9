----------------------------- MODULE ProcessProofs ----------------------------
(***************************************************************************)
(* Theorems about Startup and Process, for any profiles, flags, numbers of *)
(* starts and calls: who is reachable from the network is guarded, the     *)
(* names that are let through are those that have an answer, and nothing   *)
(* runs or is refused without a record.                                    *)
(***************************************************************************)
EXTENDS Process, SequenceTheorems, TLAPS

-----------------------------------------------------------------------------
(* The table and the dispatch *)

Dispatched == BuiltinMethods \cup DeviceMethods

LEMMA ReachableIsAllowed ==
    /\ Reachable = DOMAIN Table \ ENGINE_REFUSALS
    /\ \A m : Decide(m) = "allow" => m \in Reachable
BY DEF Reachable, Decide, Table

\* No name of the registry is refused, or answered before the registry is asked.
LEMMA NamesAreApart ==
    /\ Dispatched \cap ENGINE_REFUSALS = {}
    /\ Dispatched \cap (HUB_METHODS \cup Intercepted \cup {REACHABLE}) = {}
    /\ REACHABLE \notin Intercepted
<1>1. ASSUME NEW m \in Dispatched  PROVE m \notin ENGINE_REFUSALS
  BY DEF Dispatched, BuiltinMethods, DeviceMethods, ENGINE_REFUSALS
<1>2. ASSUME NEW m \in Dispatched  PROVE m \notin HUB_METHODS \cup Intercepted \cup {REACHABLE}
  BY DEF Dispatched, BuiltinMethods, DeviceMethods, HUB_METHODS, Intercepted, REACHABLE
<1>3. REACHABLE \notin Intercepted
  BY DEF Intercepted, REACHABLE
<1>4. QED
  BY <1>1, <1>2, <1>3

LEMMA TableIsDispatched ==
    ASSUME registered = Dispatched  PROVE TableMatchesDispatch
<1>1. ASSUME NEW m \in Reachable  PROVE Answers(m, registered) # "nobody"
  <2>1. m \in DOMAIN Table \ ENGINE_REFUSALS
    BY ReachableIsAllowed
  <2>2. m \in HUB_METHODS \cup PASSTHROUGH \cup Intercepted \cup Dispatched \cup {REACHABLE}
    BY <2>1 DEF Table, Dispatched
  <2>3. QED
    BY <2>2 DEF Answers
<1>2. registered \subseteq Reachable
  BY ReachableIsAllowed, NamesAreApart DEF Table, Dispatched
<1>3. \A m \in registered : Answers(m, registered) = "registry"
  BY NamesAreApart DEF Answers
<1>4. \A m \in Intercepted : Answers(m, registered) = "hub"
  BY NamesAreApart DEF Answers
<1>5. QED
  BY <1>1, <1>2, <1>3, <1>4 DEF TableMatchesDispatch

-----------------------------------------------------------------------------
(* From the flags to the listeners *)

Up == {"assembled", "serving"}

\* What is left to bind, of a process that listens on host.
Bindings(host) ==
    {<<>>, <<host>>} \cup
        IF host = "127.0.0.1" THEN {<<"127.0.0.1", "::1">>, <<"::1">>} ELSE {}

\* Nothing listens before everything is assembled, and what is assembled is
\* what the address it is to listen on asks for.
Assembled ==
    /\ stage \in {"down", "configured", "built", "opened"} \cup Up
    /\ stage # "down" => config.host \in Hosts
    /\ stage \notin Up => listeners = {}
    /\ stage = "opened" => registered = BuiltinMethods
    /\ stage \in Up =>
        /\ registered = Dispatched
        /\ admission = AdmissionFor(config.host)
        /\ Loopback(config.host) \/ devices # {} \/ code \in {"out", "spent"}
        /\ binding \in Bindings(config.host)
        /\ "remote" \in listeners => config.host = "remote" /\ config.tls

LEMMA LivesAssembled == ASSUME Assembled, Lives  PROVE Assembled'
<1> USE DEF Assembled, Up
<1>1. CASE Starts
  <2>1. PICK profile \in Profiles, flags \in Flags : config' = Resolved(profile, flags)
    BY <1>1 DEF Starts
  <2>2. config'.host \in Hosts
    BY <2>1, StartupAssumption DEF Resolved
  <2>3. QED
    BY <1>1, <2>2 DEF Starts
<1>2. CASE BuildsEngine
  BY <1>2 DEF BuildsEngine
<1>3. CASE OpensStore
  BY <1>3 DEF OpensStore
<1>4. CASE Assembles
  BY <1>4 DEF Assembles, RegistersDevices, Dispatched, Bindings
<1>5. CASE Binds
  <2>1. /\ stage \in Up /\ binding # <<>> /\ stage' = "serving"
        /\ Loopback(config.host) \/ config.tls
        /\ listeners' \subseteq listeners \cup {Head(binding)}
        /\ binding' = Tail(binding)
        /\ UNCHANGED <<config, registered, admission, devices, code>>
    BY <1>5 DEF Binds, MayServe
  <2>2. binding \in {<<config.host>>, <<"::1">>, <<"127.0.0.1", "::1">>}
    BY <2>1 DEF Bindings
  <2>3. binding \in {<<"::1">>, <<"127.0.0.1", "::1">>} \ {<<config.host>>}
            => config.host = "127.0.0.1"
    BY <2>1 DEF Bindings
  <2>4. binding' \in Bindings(config.host) /\ (Head(binding) = "remote" => config.host = "remote")
    <3>1. CASE binding = <<config.host>>
      BY <2>1, <3>1 DEF Bindings
    <3>2. CASE binding # <<config.host>> /\ binding = <<"::1">>
      BY <2>1, <3>2 DEF Bindings
    <3>3. CASE binding # <<config.host>> /\ binding = <<"127.0.0.1", "::1">>
      BY <2>1, <2>3, <3>3 DEF Bindings
    <3>4. QED
      BY <2>2, <3>1, <3>2, <3>3
  <2>5. "remote" \in listeners' => config.host = "remote" /\ config.tls
    BY <2>1, <2>4 DEF Loopback
  <2>6. QED
    BY <2>1, <2>4, <2>5
<1>6. CASE Pairs
  BY <1>6 DEF Pairs
<1>7. CASE CodeRunsOut
  BY <1>7 DEF CodeRunsOut
<1>8. QED
  BY <1>1, <1>2, <1>3, <1>4, <1>5, <1>6, <1>7 DEF Lives

LEMMA DiesAssembled == ASSUME Assembled, Dies  PROVE Assembled' /\ stage' = "down"
<1>1. stage' = "down" /\ listeners' = {}
  BY DEF Dies, AssemblyFails, ServeFails, Stops, Crashes, Ends
<1>2. QED
  BY <1>1 DEF Assembled, Up

LEMMA AssembledInvariant == Spec => []Assembled
<1>1. Init => Assembled
  BY DEF Init, StartupInit, Assembled, Up
<1>2. Assembled /\ [Next]_vars => Assembled'
  <2> SUFFICES ASSUME Assembled, [Next]_vars  PROVE Assembled'
    OBVIOUS
  <2>1. ASSUME UNCHANGED process  PROVE Assembled'
    BY <2>1 DEF process, Assembled
  <2>2. ASSUME NEW c \in Calls, Call(c)  PROVE UNCHANGED process
    BY <2>2 DEF Call, Asks, Sinks, Rings, Answered, TimelineWrites
  <2>3. QED
    BY <2>1, <2>2, LivesAssembled, DiesAssembled DEF Next, vars
<1>3. QED
  BY <1>1, <1>2, PTL DEF Spec

\* Whatever the profile and the flags say: who can be reached from the network
\* has TLS, asks for a paired device's signature, and has put out the code the
\* first device pairs with.
THEOREM NetworkIsGuarded == Spec => []RemoteIsGuarded
<1>1. Assembled => RemoteIsGuarded
  BY DEF Assembled, RemoteIsGuarded, AdmissionFor, Loopback, Up
<1>2. QED
  BY <1>1, AssembledInvariant, PTL

\* From the first listener on, no name is let through that nobody answers, and
\* none is answered that is not let through.
THEOREM TableIsTheDispatch == Spec => []TableMatchesDispatch
<1>1. Assembled => TableMatchesDispatch
  <2>1. Assembled /\ listeners # {} => registered = Dispatched
    BY DEF Assembled
  <2>2. listeners = {} => TableMatchesDispatch
    BY DEF TableMatchesDispatch
  <2>3. QED
    BY <2>1, <2>2, TableIsDispatched
<1>2. QED
  BY <1>1, AssembledInvariant, PTL

-----------------------------------------------------------------------------
(* The ring and the timeline *)

Labels == {"idle", "asked", "sunk", "running", "answered", "refused", "gone"}

Rung == {"running", "answered", "refused"}

Typed ==
    /\ call \in [Calls -> [pc : Labels, method : Asked \cup {None},
                           session : Sessions \cup {None}]]
    /\ ring \in Seq(Calls) /\ Len(ring) <= RingCapacity
    /\ newer \in [Calls -> Nat]
    /\ writes \subseteq Calls
    /\ timeline \in [Sessions -> Seq(Calls)]

\* A call's entry is as far from the end of the ring as there are newer ones,
\* and what belongs in the timeline is filed, on its way or failed.
Recorded(c) ==
    /\ call[c].pc \notin Rung => newer[c] = 0
    /\ call[c].pc \in {"running", "answered"} => Decision(c) = "allow"
    /\ call[c].pc \in Rung =>
        \/ newer[c] >= RingCapacity
        \/ \E i \in 1 .. Len(ring) : ring[i] = c /\ newer[c] = Len(ring) - i
    /\ call[c].pc \in {"sunk"} \cup Rung /\ history /\ Lands(c) =>
        c \in writes \cup failed \/ InTimeline(c)
    /\ c \in writes => call[c].session \in Sessions /\ call[c].pc \in {"sunk"} \cup Rung

\* No call is under way in a process that does not listen.
CallsInv ==
    /\ Typed
    /\ \A c \in Calls : Recorded(c)
    /\ stage \notin Up => \A c \in Calls : call[c].pc \in {"idle", "gone"}

\* Every entry of r that does not fall off is in p one place further from the end.
Moved(r, p) ==
    \A i \in 1 .. Len(r) : Len(r) - i + 1 < RingCapacity =>
        \E j \in 1 .. Len(p) : p[j] = r[i] /\ Len(r) - i + 1 = Len(p) - j

LEMMA RingFacts ==
    ASSUME NEW r \in Seq(Calls), Len(r) <= RingCapacity, NEW c \in Calls,
           NEW p, p = Append(Drops(r), c)
    PROVE  /\ p \in Seq(Calls) /\ Len(p) \in 1 .. RingCapacity
           /\ p[Len(p)] = c
           /\ Moved(r, p)
<1>1. RingCapacity \in Nat \ {0} /\ Len(r) \in Nat
  BY CallsAssumption
<1>2. CASE Len(r) = RingCapacity
  <2> DEFINE q == Tail(r)
  <2>1. q \in Seq(Calls) /\ Len(q) = Len(r) - 1 /\ \A i \in 1 .. Len(r) - 1 : q[i] = r[i + 1]
    <3>1. r # <<>>
      BY <1>1, <1>2
    <3>2. QED
      BY <1>1, <3>1, HeadTailProperties
  <2>2. p = Append(q, c)
    BY <1>2 DEF Drops
  <2> HIDE DEF q
  <2>3. p \in Seq(Calls) /\ Len(p) = Len(q) + 1 /\ p[Len(q) + 1] = c
        /\ \A i \in 1 .. Len(q) : p[i] = q[i]
    BY <2>1, <2>2, AppendProperties
  <2>4. ASSUME NEW i \in 1 .. Len(r), Len(r) - i + 1 < RingCapacity
        PROVE  \E j \in 1 .. Len(p) : p[j] = r[i] /\ Len(r) - i + 1 = Len(p) - j
    <3>1. i - 1 \in 1 .. Len(r) - 1 /\ (i - 1) + 1 = i
      BY <1>1, <1>2, <2>4
    <3>2. p[i - 1] = r[i]
      BY <2>1, <2>3, <3>1
    <3>3. i - 1 \in 1 .. Len(p) /\ Len(r) - i + 1 = Len(p) - (i - 1)
      BY <1>1, <2>1, <2>3, <3>1
    <3>4. QED
      BY <3>2, <3>3
  <2>5. Len(p) = RingCapacity
    BY <1>1, <1>2, <2>1, <2>3
  <2>6. Moved(r, p)
    BY <2>4 DEF Moved
  <2>7. Len(p) \in 1 .. RingCapacity
    BY <1>1, <2>5
  <2>8. p \in Seq(Calls) /\ p[Len(p)] = c
    BY <2>3
  <2>9. QED
    BY <2>6, <2>7, <2>8
<1>3. CASE Len(r) # RingCapacity
  <2>1. p = Append(r, c)
    BY <1>3 DEF Drops
  <2>2. p \in Seq(Calls) /\ Len(p) = Len(r) + 1 /\ p[Len(r) + 1] = c
        /\ \A i \in 1 .. Len(r) : p[i] = r[i]
    BY <2>1, AppendProperties
  <2>3. \A i \in 1 .. Len(r) : i \in 1 .. Len(p) /\ Len(r) - i + 1 = Len(p) - i
    BY <1>1, <2>2
  <2>4. Moved(r, p)
    BY <2>2, <2>3 DEF Moved
  <2>5. Len(p) \in 1 .. RingCapacity
    BY <1>1, <1>3, <2>2
  <2>6. p \in Seq(Calls) /\ p[Len(p)] = c
    BY <2>2
  <2>7. QED
    BY <2>4, <2>5, <2>6
<1>4. QED
  BY <1>2, <1>3

\* A step that leaves a call, and all that is recorded of it, as it was.
LEMMA RecordedStays ==
    ASSUME NEW c \in Calls, Recorded(c),
           call'[c] = call[c] /\ newer'[c] = newer[c] /\ ring' = ring,
           history' <=> history,
           c \in writes' => c \in writes,
           c \in writes \cup failed \/ InTimeline(c)
                => c \in writes' \cup failed' \/ InTimeline(c)'
    PROVE  Recorded(c)'
<1>1. Lands(c)' <=> Lands(c)
  BY DEF Lands, Decision
<1>2. Decision(c)' = Decision(c)
  BY DEF Decision
<1>3. QED
  BY <1>1, <1>2 DEF Recorded

LEMMA AsksRecorded ==
    ASSUME Assembled, CallsInv, NEW c \in Calls, Asks(c)  PROVE CallsInv'
<1>1. PICK m \in Asked, s \in Sessions \cup {None} :
        call' = [call EXCEPT ![c] = [pc |-> "asked", method |-> m, session |-> s]]
  BY DEF Asks
<1>2. /\ call[c].pc = "idle" /\ listeners # {}
      /\ UNCHANGED <<stage, history, ring, writes, failed, timeline, newer>>
  BY DEF Asks, process, audit
<1>3. stage \in Up
  BY <1>2 DEF Assembled
<1>4. Typed'
  BY <1>1, <1>2 DEF CallsInv, Typed, Labels
<1>5. ASSUME NEW d \in Calls  PROVE Recorded(d)'
  <2>1. Recorded(d)
    BY DEF CallsInv
  <2>2. CASE d = c
    <3>1. call'[c].pc = "asked" /\ newer'[c] = 0
      BY <1>1, <1>2, <2>1, <2>2 DEF CallsInv, Typed, Recorded, Rung
    <3>2. c \notin writes
      BY <1>2, <2>1, <2>2 DEF Recorded, Rung
    <3>3. QED
      BY <1>2, <2>2, <3>1, <3>2 DEF Recorded, Rung
  <2>3. CASE d # c
    <3>1. call'[d] = call[d]
      BY <1>1, <2>3 DEF CallsInv, Typed
    <3>2. QED
      BY <1>2, <2>1, <3>1, RecordedStays DEF InTimeline
  <2>4. QED
    BY <2>2, <2>3
<1>6. QED
  BY <1>2, <1>3, <1>4, <1>5 DEF CallsInv

LEMMA SinksRecorded ==
    ASSUME CallsInv, NEW c \in Calls, Sinks(c)  PROVE CallsInv'
<1>1. /\ call[c].pc = "asked" /\ call' = [call EXCEPT ![c].pc = "sunk"]
      /\ writes' = IF history /\ Lands(c) THEN writes \cup {c} ELSE writes
      /\ UNCHANGED <<stage, history, ring, failed, timeline, newer>>
  BY DEF Sinks, Go, process
<1>2. call \in [Calls -> [pc : Labels, method : Asked \cup {None}, session : Sessions \cup {None}]]
  BY DEF CallsInv, Typed
<1>3. call'[c] = [call[c] EXCEPT !.pc = "sunk"] /\ \A d \in Calls \ {c} : call'[d] = call[d]
  BY <1>1, <1>2
<1>4. Typed'
  <2>1. call' \in [Calls -> [pc : Labels, method : Asked \cup {None}, session : Sessions \cup {None}]]
    BY <1>1, <1>2 DEF Labels
  <2>2. QED
    BY <1>1, <2>1 DEF CallsInv, Typed
<1>5. ASSUME NEW d \in Calls  PROVE Recorded(d)'
  <2>1. Recorded(d)
    BY DEF CallsInv
  <2>2. CASE d = c
    <3>1. /\ call'[c].pc = "sunk" /\ call'[c].method = call[c].method
          /\ call'[c].session = call[c].session
      BY <1>2, <1>3
    <3>2. Lands(c)' <=> Lands(c)
      BY <3>1 DEF Lands, Decision
    <3>3. newer'[c] = 0
      BY <1>1, <2>1, <2>2 DEF Recorded, Rung
    <3>4. c \in writes' => call[c].session \in Sessions
      BY <1>1, <1>2, <2>1, <2>2 DEF Recorded, Lands
    <3>5. QED
      BY <1>1, <2>2, <3>1, <3>2, <3>3, <3>4 DEF Recorded, Rung
  <2>3. CASE d # c
    BY <1>1, <1>3, <2>1, <2>3, RecordedStays DEF InTimeline
  <2>4. QED
    BY <2>2, <2>3
<1>6. stage' \notin Up => \A d \in Calls : call'[d].pc \in {"idle", "gone"}
  BY <1>1 DEF CallsInv
<1>7. QED
  BY <1>4, <1>5, <1>6 DEF CallsInv

LEMMA RingsRecorded ==
    ASSUME CallsInv, NEW c \in Calls, Rings(c)  PROVE CallsInv'
<1> DEFINE label == IF Decision(c) = "allow" THEN "running" ELSE "refused"
<1>1. /\ call[c].pc = "sunk" /\ call' = [call EXCEPT ![c].pc = label]
      /\ ring' = Append(Drops(ring), c)
      /\ newer' = [d \in Calls |-> IF call[d].pc \in Rung THEN newer[d] + 1 ELSE newer[d]]
      /\ UNCHANGED <<stage, history, writes, failed, timeline>>
  BY DEF Rings, Go, process, Rung
<1>2. /\ call \in [Calls -> [pc : Labels, method : Asked \cup {None}, session : Sessions \cup {None}]]
      /\ ring \in Seq(Calls) /\ Len(ring) <= RingCapacity /\ newer \in [Calls -> Nat]
  BY DEF CallsInv, Typed
<1>3. label \in {"running", "refused"} /\ (label = "running" => Decision(c) = "allow")
  OBVIOUS
<1> HIDE DEF label
<1>4. call'[c] = [call[c] EXCEPT !.pc = label] /\ \A d \in Calls \ {c} : call'[d] = call[d]
  BY <1>1, <1>2
<1>5. /\ ring' \in Seq(Calls) /\ Len(ring') \in 1 .. RingCapacity
      /\ ring'[Len(ring')] = c
      /\ Moved(ring, ring')
  <2>1. ring \in Seq(Calls)
    BY <1>2
  <2>2. Len(ring) <= RingCapacity
    BY <1>2
  <2>3. ring' = Append(Drops(ring), c)
    BY <1>1
  <2>4. QED
    BY <2>1, <2>2, <2>3, RingFacts
<1>6. Typed'
  <2>1. call' \in [Calls -> [pc : Labels, method : Asked \cup {None}, session : Sessions \cup {None}]]
    BY <1>1, <1>2, <1>3 DEF Labels
  <2>2. newer' \in [Calls -> Nat]
    BY <1>1, <1>2
  <2>3. Len(ring') <= RingCapacity
    BY <1>5, CallsAssumption
  <2>4. QED
    BY <1>1, <1>5, <2>1, <2>2, <2>3 DEF CallsInv, Typed
<1>7. ASSUME NEW d \in Calls  PROVE Recorded(d)'
  <2>1. Recorded(d)
    BY DEF CallsInv
  <2>2. /\ call'[d].method = call[d].method /\ call'[d].session = call[d].session
        /\ call'[d].pc = IF d = c THEN label ELSE call[d].pc
    BY <1>2, <1>4
  <2>3. (Lands(d)' <=> Lands(d)) /\ Decision(d)' = Decision(d)
    BY <2>2 DEF Lands, Decision
  <2>4. InTimeline(d)' <=> InTimeline(d)
    BY <1>1 DEF InTimeline
  <2>5. call'[d].pc \notin Rung => newer'[d] = 0
    BY <1>1, <1>3, <2>1, <2>2 DEF Recorded, Rung
  <2>6. call'[d].pc \in {"running", "answered"} => Decision(d)' = "allow"
    BY <1>3, <2>1, <2>2, <2>3 DEF Recorded
  <2>7. ASSUME call'[d].pc \in Rung
        PROVE  \/ newer'[d] >= RingCapacity
               \/ \E i \in 1 .. Len(ring') : ring'[i] = d /\ newer'[d] = Len(ring') - i
    <3>1. CASE d = c
      <4>1. newer'[c] = 0
        BY <1>1, <2>1, <3>1 DEF Recorded, Rung
      <4>2. Len(ring') \in 1 .. Len(ring') /\ Len(ring') - Len(ring') = 0
        BY <1>5, CallsAssumption
      <4>3. QED
        BY <1>5, <3>1, <4>1, <4>2
    <3>2. CASE d # c
      <4>1. call[d].pc \in Rung /\ newer'[d] = newer[d] + 1
        BY <1>1, <2>2, <2>7, <3>2
      <4>2. newer[d] \in Nat /\ RingCapacity \in Nat
        BY <1>2, CallsAssumption
      <4>3. CASE newer[d] >= RingCapacity
        BY <4>1, <4>3, <4>2
      <4>4. CASE newer[d] < RingCapacity
        <5>1. \/ newer[d] >= RingCapacity
              \/ \E i \in 1 .. Len(ring) : ring[i] = d /\ newer[d] = Len(ring) - i
          BY <2>1, <4>1 DEF Recorded
        <5>2. PICK i \in 1 .. Len(ring) : ring[i] = d /\ newer[d] = Len(ring) - i
          BY <4>4, <4>2, <5>1
        <5>3. newer'[d] = Len(ring) - i + 1
          BY <4>1, <5>2
        <5>4. CASE Len(ring) - i + 1 < RingCapacity
          <6>1. PICK j \in 1 .. Len(ring') :
                    ring'[j] = ring[i] /\ Len(ring) - i + 1 = Len(ring') - j
            BY <1>5, <5>4 DEF Moved
          <6>2. QED
            BY <5>2, <5>3, <6>1
        <5>5. CASE ~(Len(ring) - i + 1 < RingCapacity)
          <6>1. Len(ring) \in Nat
            BY <1>2
          <6>2. newer'[d] >= RingCapacity
            BY <4>2, <5>3, <5>5, <6>1
          <6>3. QED
            BY <6>2
        <5>6. QED
          BY <5>4, <5>5
      <4>5. newer[d] >= RingCapacity \/ newer[d] < RingCapacity
        BY <4>2
      <4>6. QED
        BY <4>3, <4>4, <4>5
    <3>3. QED
      BY <3>1, <3>2
  <2>8. call'[d].pc \in {"sunk"} \cup Rung /\ history' /\ Lands(d)'
            => d \in writes' \cup failed' \/ InTimeline(d)'
    BY <1>1, <1>3, <2>1, <2>2, <2>3, <2>4 DEF Recorded, Rung
  <2>9. d \in writes' => call'[d].session \in Sessions /\ call'[d].pc \in {"sunk"} \cup Rung
    BY <1>1, <1>3, <2>1, <2>2 DEF Recorded, Rung
  <2>10. QED
    BY <2>5, <2>6, <2>7, <2>8, <2>9 DEF Recorded
<1>8. stage' \notin Up => \A d \in Calls : call'[d].pc \in {"idle", "gone"}
  BY <1>1 DEF CallsInv
<1>9. QED
  BY <1>6, <1>7, <1>8 DEF CallsInv

LEMMA AnsweredRecorded ==
    ASSUME CallsInv, NEW c \in Calls, Answered(c)  PROVE CallsInv'
<1>1. /\ call[c].pc = "running" /\ call' = [call EXCEPT ![c].pc = "answered"]
      /\ UNCHANGED <<stage, history, ring, writes, failed, timeline, newer>>
  BY DEF Answered, Go, process, audit
<1>2. call \in [Calls -> [pc : Labels, method : Asked \cup {None}, session : Sessions \cup {None}]]
  BY DEF CallsInv, Typed
<1>3. Typed'
  <2>1. call' \in [Calls -> [pc : Labels, method : Asked \cup {None}, session : Sessions \cup {None}]]
    BY <1>1, <1>2 DEF Labels
  <2>2. QED
    BY <1>1, <2>1 DEF CallsInv, Typed
<1>4. ASSUME NEW d \in Calls  PROVE Recorded(d)'
  <2>1. Recorded(d)
    BY DEF CallsInv
  <2>2. /\ call'[d].method = call[d].method /\ call'[d].session = call[d].session
        /\ call'[d].pc = IF d = c THEN "answered" ELSE call[d].pc
    BY <1>1, <1>2
  <2>3. (Lands(d)' <=> Lands(d)) /\ Decision(d)' = Decision(d) /\ (InTimeline(d)' <=> InTimeline(d))
    BY <1>1, <2>2 DEF Lands, Decision, InTimeline
  <2>4. QED
    BY <1>1, <2>1, <2>2, <2>3 DEF Recorded, Rung
<1>5. stage' \notin Up => \A d \in Calls : call'[d].pc \in {"idle", "gone"}
  BY <1>1 DEF CallsInv
<1>6. QED
  BY <1>3, <1>4, <1>5 DEF CallsInv

LEMMA WritesRecorded ==
    ASSUME CallsInv, NEW c \in Calls, TimelineWrites(c)  PROVE CallsInv'
<1> DEFINE s == call[c].session
<1>1. /\ c \in writes /\ writes' = writes \ {c}
      /\ \/ timeline' = [timeline EXCEPT ![s] = Append(timeline[s], c)] /\ UNCHANGED failed
         \/ failed' = failed \cup {c} /\ UNCHANGED timeline
      /\ UNCHANGED <<stage, history, call, ring, newer>>
  BY DEF TimelineWrites, process
<1>2. s \in Sessions /\ timeline \in [Sessions -> Seq(Calls)]
  BY <1>1 DEF CallsInv, Typed, Recorded
<1> HIDE DEF s
<1>3. /\ timeline' \in [Sessions -> Seq(Calls)]
      /\ \A u \in Sessions : \A i \in DOMAIN timeline[u] :
            i \in DOMAIN timeline'[u] /\ timeline'[u][i] = timeline[u][i]
      /\ c \in failed' \/ InTimeline(c)'
  <2>1. CASE timeline' = [timeline EXCEPT ![s] = Append(timeline[s], c)]
    <3> DEFINE q == timeline[s]
               p == Append(q, c)
    <3>1. q \in Seq(Calls)
      BY <1>2
    <3>2. p \in Seq(Calls) /\ Len(p) = Len(q) + 1 /\ p[Len(q) + 1] = c
          /\ \A i \in 1 .. Len(q) : p[i] = q[i]
      BY <3>1, AppendProperties
    <3>3. timeline'[s] = p /\ \A u \in Sessions \ {s} : timeline'[u] = timeline[u]
      BY <1>2, <2>1
    <3> HIDE DEF p
    <3>4. timeline' \in [Sessions -> Seq(Calls)]
      BY <1>2, <2>1, <3>2 DEF p
    <3>5. DOMAIN q = 1 .. Len(q) /\ DOMAIN p = 1 .. Len(q) + 1 /\ Len(q) \in Nat
      BY <3>1, <3>2
    <3>6. InTimeline(c)'
      BY <1>2, <3>2, <3>3, <3>5 DEF InTimeline
    <3>7. ASSUME NEW u \in Sessions, NEW i \in DOMAIN timeline[u]
          PROVE  i \in DOMAIN timeline'[u] /\ timeline'[u][i] = timeline[u][i]
      <4>1. CASE u = s
        <5>1. i \in 1 .. Len(q)
          BY <3>5, <4>1
        <5>2. i \in DOMAIN p /\ p[i] = q[i]
          BY <3>2, <3>5, <5>1
        <5>3. QED
          BY <3>3, <4>1, <5>2
      <4>2. CASE u # s
        BY <3>3, <4>2
      <4>3. QED
        BY <4>1, <4>2
    <3>8. QED
      BY <3>4, <3>6, <3>7
  <2>2. CASE failed' = failed \cup {c} /\ UNCHANGED timeline
    BY <1>2, <2>2
  <2>3. QED
    BY <1>1, <2>1, <2>2
<1>4. Typed'
  BY <1>1, <1>3 DEF CallsInv, Typed
<1>5. ASSUME NEW d \in Calls  PROVE Recorded(d)'
  <2>1. Recorded(d)
    BY DEF CallsInv
  <2>2. d \in writes \cup failed \/ InTimeline(d) => d \in writes' \cup failed' \/ InTimeline(d)'
    <3>1. ASSUME InTimeline(d)  PROVE InTimeline(d)'
      <4>1. PICK u \in Sessions : \E i \in DOMAIN timeline[u] : timeline[u][i] = d
        BY <3>1 DEF InTimeline
      <4>2. PICK i \in DOMAIN timeline[u] : timeline[u][i] = d
        BY <4>1
      <4>3. \A v \in Sessions : \A j \in DOMAIN timeline[v] :
                j \in DOMAIN timeline'[v] /\ timeline'[v][j] = timeline[v][j]
        BY <1>3, Zenon
      <4>4. i \in DOMAIN timeline'[u] /\ timeline'[u][i] = d
        BY <4>2, <4>3
      <4>5. QED
        BY <4>4 DEF InTimeline
    <3>2. CASE d = c
      <4>1. c \in failed' \/ InTimeline(c)'
        BY <1>3, Zenon
      <4>2. QED
        BY <3>2, <4>1, Zenon
    <3>3. CASE d # c
      BY <1>1, <3>1, <3>3
    <3>4. QED
      BY <3>2, <3>3
  <2>3. QED
    BY <1>1, <2>1, <2>2, RecordedStays
<1>6. stage' \notin Up => \A d \in Calls : call'[d].pc \in {"idle", "gone"}
  BY <1>1 DEF CallsInv
<1>7. QED
  BY <1>4, <1>5, <1>6 DEF CallsInv

\* With the process everything is gone but the logs.
LEMMA EndRecorded ==
    ASSUME CallsInv, CallsEnd  PROVE CallsInv'
<1>1. /\ call' = [c \in Calls |-> IF call[c].pc = "idle" THEN Idle
                                  ELSE [call[c] EXCEPT !.pc = "gone"]]
      /\ ring' = <<>> /\ newer' = [c \in Calls |-> 0] /\ writes' = {}
      /\ UNCHANGED timeline
  BY DEF CallsEnd
<1>2. call \in [Calls -> [pc : Labels, method : Asked \cup {None}, session : Sessions \cup {None}]]
  BY DEF CallsInv, Typed
<1>3. \A c \in Calls : call'[c].pc \in {"idle", "gone"}
  BY <1>1, <1>2 DEF Idle
<1>4. Typed'
  <2>1. call' \in [Calls -> [pc : Labels, method : Asked \cup {None}, session : Sessions \cup {None}]]
    BY <1>1, <1>2 DEF Labels, Idle
  <2>2. Len(ring') <= RingCapacity /\ ring' \in Seq(Calls) /\ newer' \in [Calls -> Nat]
    BY <1>1, CallsAssumption
  <2>3. QED
    BY <1>1, <2>1, <2>2 DEF CallsInv, Typed
<1>5. \A c \in Calls : Recorded(c)'
  BY <1>1, <1>3 DEF Recorded, Rung
<1>6. QED
  BY <1>3, <1>4, <1>5 DEF CallsInv

\* What the process does of its own accord is no call's business: it has a
\* history store from before it listens until it ends.
LEMMA LivesRecorded ==
    ASSUME CallsInv, Assembled, Lives, UNCHANGED calls  PROVE CallsInv'
<1>1. UNCHANGED <<call, ring, writes, failed, timeline, newer>>
  BY DEF calls, audit
<1>2. stage' \notin Up => stage \notin Up
  BY DEF Lives, Starts, BuildsEngine, OpensStore, Assembles, Binds, Pairs, CodeRunsOut, Up
<1>3. (history' <=> history) \/ stage \notin Up
  BY DEF Lives, Starts, BuildsEngine, OpensStore, Assembles, Binds, Pairs, CodeRunsOut, Up
<1>4. ASSUME NEW c \in Calls  PROVE Recorded(c)'
  <2>1. Recorded(c)
    BY DEF CallsInv
  <2>2. CASE history' <=> history
    BY <1>1, <2>1, <2>2, RecordedStays DEF InTimeline
  <2>3. CASE stage \notin Up
    <3>1. call[c].pc \in {"idle", "gone"}
      BY <2>3 DEF CallsInv
    <3>2. QED
      BY <1>1, <2>1, <3>1 DEF Recorded, Rung
  <2>4. QED
    BY <1>3, <2>2, <2>3
<1>5. QED
  BY <1>1, <1>2, <1>4 DEF CallsInv, Typed

LEMMA CallsInvariant == Spec => []CallsInv
<1>1. Init => CallsInv
  <2> SUFFICES ASSUME Init  PROVE CallsInv
    OBVIOUS
  <2>1. \A c \in Calls : call[c] = Idle /\ newer[c] = 0
    BY DEF Init, CallsInit
  <2>2. Typed
    BY CallsAssumption DEF Init, CallsInit, Typed, Idle, Labels
  <2>3. \A c \in Calls : Recorded(c)
    BY <2>1 DEF Init, CallsInit, Recorded, Idle, Rung
  <2>4. QED
    BY <2>1, <2>2, <2>3 DEF CallsInv, Idle
<1>2. Assembled /\ CallsInv /\ [Next]_vars => CallsInv'
  <2> SUFFICES ASSUME Assembled, CallsInv, [Next]_vars  PROVE CallsInv'
    OBVIOUS
  <2>1. CASE Lives /\ UNCHANGED calls
    BY <2>1, LivesRecorded
  <2>2. CASE Dies /\ CallsEnd
    BY <2>2, EndRecorded
  <2>3. ASSUME NEW c \in Calls, Call(c)  PROVE CallsInv'
    BY <2>3, AsksRecorded, SinksRecorded, RingsRecorded, AnsweredRecorded, WritesRecorded
    DEF Call
  <2>4. CASE UNCHANGED vars
    <3>1. UNCHANGED <<stage, history, call, ring, writes, failed, timeline, newer>>
      BY <2>4 DEF vars, process, calls, audit
    <3>2. \A c \in Calls : Recorded(c)'
      BY <3>1, RecordedStays DEF CallsInv, InTimeline
    <3>3. QED
      BY <3>1, <3>2 DEF CallsInv, Typed
  <2>5. QED
    BY <2>1, <2>2, <2>3, <2>4, Zenon DEF Next
<1>3. QED
  BY <1>1, <1>2, AssembledInvariant, PTL DEF Spec

\* Nothing runs that the table did not let through, and of what runs, was
\* answered or was refused the ring has an entry, unless as many came after it
\* as the ring holds; the timeline has what belongs there, or will, or the
\* append failed.
THEOREM EveryCallIsRecorded == Spec => []RunsAreRecorded
<1>1. CallsInv => RunsAreRecorded
  <2> SUFFICES ASSUME CallsInv, NEW c \in Calls
               PROVE  /\ call[c].pc \in {"running", "answered"} => call[c].method \in Reachable
                      /\ call[c].pc \in {"running", "answered", "refused"} =>
                        /\ (\E i \in DOMAIN ring : ring[i] = c) \/ newer[c] >= RingCapacity
                        /\ history /\ call[c].session # None
                                /\ (Decision(c) # "allow" \/ is_consequential(call[c].method))
                            => c \in writes \cup failed \/ InTimeline(c)
    BY DEF RunsAreRecorded
  <2>1. Recorded(c) /\ DOMAIN ring = 1 .. Len(ring)
    BY DEF CallsInv, Typed
  <2>2. call[c].pc \in {"running", "answered"} => call[c].method \in Reachable
    BY <2>1, ReachableIsAllowed DEF Recorded, Decision
  <2>3. QED
    BY <2>1, <2>2 DEF Recorded, Rung, Lands
<1>2. QED
  BY <1>1, CallsInvariant, PTL
=============================================================================
