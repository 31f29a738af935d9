------------------------------- MODULE Process -------------------------------
(***************************************************************************)
(* A process and the calls it takes: the lifecycle of Startup, and the     *)
(* gate of crates/authz/src/lib.rs with the audit of                       *)
(* crates/authz/src/audit.rs and crates/app/src/audit_log.rs in front of   *)
(* the hub's dispatch.                                                     *)
(*                                                                         *)
(* A decision is recorded before the call runs: handed to the sink under   *)
(* one lock, pushed on the ring under another.  The sink spawns a task for *)
(* what belongs in a session's timeline; nobody waits for it.              *)
(***************************************************************************)
EXTENDS Startup

CONSTANTS
    Calls,
    Asked,          \* the names clients call
    Sessions,
    RingCapacity

ASSUME CallsAssumption == RingCapacity \in Nat \ {0} /\ None \notin Sessions

VARIABLES
    call,           \* each call: where it is, its method, the session it names
    ring,           \* Audit.ring, oldest first
    writes,         \* spawned appends to a timeline
    failed,         \* appends that failed or died with the process
    timeline,       \* the audit entries in each session's log
    newer           \* for each call in the ring or dropped: the records after it

audit == <<ring, writes, failed, timeline, newer>>
calls == <<call, audit>>
vars == <<process, startup, calls>>

Idle == [pc |-> "idle", method |-> None, session |-> None]

CallsInit ==
    /\ call = [c \in Calls |-> Idle]
    /\ ring = <<>> /\ writes = {} /\ failed = {}
    /\ timeline = [s \in Sessions |-> <<>>]
    /\ newer = [c \in Calls |-> 0]

Init == StartupInit /\ CallsInit

Decision(c) == Decide(call[c].method)

Go(c, label) == call' = [call EXCEPT ![c].pc = label]

-----------------------------------------------------------------------------
(* Authorizer::call *)

Asks(c) ==
    /\ listeners # {} /\ call[c].pc = "idle"
    /\ \E m \in Asked, s \in Sessions \cup {None} :
        call' = [call EXCEPT ![c] = [pc |-> "asked", method |-> m, session |-> s]]
    /\ UNCHANGED <<process, startup, audit>>

\* Mutant: refusals only.
RefusedOnly(c) == Decision(c) # "allow" /\ call[c].session # None

\* TimelineAudit::append: what someone would come looking for, if the call names
\* a session to file it under.
Lands(c) ==
    /\ Decision(c) # "allow" \/ is_consequential(call[c].method)
    /\ call[c].session # None

\* The first half of Audit::record, under the lock of the sink.
Sinks(c) ==
    /\ call[c].pc = "asked"
    /\ writes' = IF history /\ Lands(c) THEN writes \cup {c} ELSE writes
    /\ Go(c, "sunk")
    /\ UNCHANGED <<process, startup, ring, failed, timeline, newer>>

\* Mutant: full is one too few.
DropsEarly(r) == IF Len(r) + 1 >= RingCapacity THEN Tail(r) ELSE r

\* The oldest goes when the ring is full.
Drops(r) == IF Len(r) = RingCapacity THEN Tail(r) ELSE r

\* The second half, under the lock of the ring: an allowed call goes on to the
\* hub, which is where its answer comes from.
Rings(c) ==
    /\ call[c].pc = "sunk"
    /\ ring' = Append(Drops(ring), c)
    /\ newer' = [d \in Calls |->
            IF call[d].pc \in {"running", "answered", "refused"} THEN newer[d] + 1 ELSE newer[d]]
    /\ Go(c, IF Decision(c) = "allow" THEN "running" ELSE "refused")
    /\ UNCHANGED <<process, startup, writes, failed, timeline>>

Answered(c) ==
    /\ call[c].pc = "running"
    /\ Go(c, "answered")
    /\ UNCHANGED <<process, startup, audit>>

\* A spawned append, whenever the runtime gets to it; a failure is only told.
TimelineWrites(c) ==
    /\ c \in writes
    /\ writes' = writes \ {c}
    /\ \/ /\ timeline' = [timeline EXCEPT ![call[c].session] = Append(@, c)]
          /\ UNCHANGED failed
       \/ failed' = failed \cup {c} /\ UNCHANGED timeline
    /\ UNCHANGED <<process, startup, call, ring, newer>>

Call(c) == Asks(c) \/ Sinks(c) \/ Rings(c) \/ Answered(c) \/ TimelineWrites(c)

\* The ring and the appends under way die with the process; logs stay.
CallsEnd ==
    /\ call' = [c \in Calls |-> IF call[c].pc = "idle" THEN Idle ELSE [call[c] EXCEPT !.pc = "gone"]]
    /\ ring' = <<>> /\ newer' = [c \in Calls |-> 0]
    /\ writes' = {} /\ failed' = failed \cup writes
    /\ UNCHANGED timeline

Next ==
    \/ Lives /\ UNCHANGED calls
    \/ Dies /\ CallsEnd
    \/ \E c \in Calls : Call(c)

Spec == Init /\ [][Next]_vars

-----------------------------------------------------------------------------
(* Properties *)

InTimeline(c) == \E s \in Sessions : \E i \in DOMAIN timeline[s] : timeline[s][i] = c

\* "Lets nothing past that the table did not name", and nothing unrecorded: of
\* every call that runs, or was refused, the ring has the entry unless as many
\* came after it as the ring holds, and the timeline has it if it belongs there,
\* or will, or the append failed.
RunsAreRecorded ==
    \A c \in Calls :
        /\ call[c].pc \in {"running", "answered"} => call[c].method \in Reachable
        /\ call[c].pc \in {"running", "answered", "refused"} =>
            /\ (\E i \in DOMAIN ring : ring[i] = c) \/ newer[c] >= RingCapacity
            /\ history /\ call[c].session # None
                    /\ (Decision(c) # "allow" \/ is_consequential(call[c].method))
                => c \in writes \cup failed \/ InTimeline(c)

\* "A refusal, a device paired or revoked, an extension installed": what lands
\* in the timeline.
ConsequentialLands ==
    \A c \in Calls \ failed :
        call[c].pc = "answered" /\ history /\ is_consequential(call[c].method)
            => c \in writes \/ InTimeline(c)

\* "In order with every other entry": two entries of one session stand in its
\* timeline as they do in the ring.
TimelineKeepsTheOrder ==
    \A s \in Sessions, i, j \in DOMAIN ring :
        \A k, l \in DOMAIN timeline[s] :
            i < j /\ timeline[s][k] = ring[i] /\ timeline[s][l] = ring[j] => k < l
=============================================================================
