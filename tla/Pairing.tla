------------------------------ MODULE Pairing -------------------------------
(***************************************************************************)
(* Pairing and revoking devices: crates/authz/src/devices.rs as the calls  *)
(* of crates/app/src/devices.rs and the pair endpoint of                   *)
(* crates/transport/src/admission.rs use it.                               *)
(*                                                                         *)
(* Pending windows and paired devices are behind a mutex each, and a call  *)
(* takes them one after the other: every action is one critical section.   *)
(* The calls hold no await, so none is dropped half way, but they run on   *)
(* several threads, and each goes by a time it read before it locked.      *)
(* SystemTime is not monotonic: that time may be any.                      *)
(*                                                                         *)
(* pair.begin mints a fresh code, so a code is named by the call that      *)
(* minted it; the device's id is a hash of the code, so a device is named  *)
(* by it as well.                                                          *)
(***************************************************************************)
EXTENDS Integers, FiniteSets

CONSTANTS
    Begins,     \* nest.devices.pair.begin calls, and the code of bootstrap
    Guesses,    \* nest.devices.pair.complete calls and POST /pair requests
    Revokes,    \* nest.devices.revoke calls
    Times,      \* what SystemTime::now may answer
    TTL,        \* PAIRING_TTL
    MaxAttempts,
    None

Calls == Begins \cup Guesses \cup Revokes

ASSUME CallsAreDistinct ==
    /\ Begins \cap (Guesses \cup Revokes) = {}
    /\ Guesses \cap Revokes = {}
    /\ None \notin Begins

ASSUME PairingNumbers ==
    /\ Times \subseteq Nat
    /\ TTL \in Nat
    /\ MaxAttempts \in Nat \ {0}

VARIABLES
    pending,    \* Devices.pending: the open windows, each under its handle
    paired,     \* Devices.paired
    pc,         \* where each call stands
    now,        \* the time each call read
    guess,      \* the code each completing call brought; None is no code at all
    wrong,      \* wrong guesses since a code was shown and until it paired
    revoked     \* devices whose revocation was answered with true

vars == <<pending, paired, pc, now, guess, wrong, revoked>>

Window == [handle : Times, code : Begins, expires : Nat, attempts : Nat]

TypeOK ==
    /\ pending \subseteq Window
    /\ paired \subseteq Begins
    /\ pc \in [Calls -> {"new", "swept", "matched", "paired", "done"}]
    /\ now \in [Calls -> Times \cup {None}]
    /\ \A t \in Calls : pc[t] # "new" => now[t] \in Times
    /\ guess \in [Guesses -> Begins \cup {None}]
    /\ wrong \in [Begins -> Nat]
    /\ revoked \subseteq Begins

Init ==
    /\ pending = {}
    /\ paired = {}
    /\ pc = [t \in Calls |-> "new"]
    /\ now = [t \in Calls |-> None]
    /\ guess = [g \in Guesses |-> None]
    /\ wrong = [b \in Begins |-> 0]
    /\ revoked = {}

Goto(t, label) == pc' = [pc EXCEPT ![t] = label]

\* The codes a window was opened for.
Shown == {b \in Begins : pc[b] = "done"}

\* The codes a window was given up for to a completing call.
Spent == {guess[g] : g \in {g \in Guesses : pc[g] \in {"matched", "paired"}}}

-----------------------------------------------------------------------------

\* Mutant: a window is closed the moment it expires.
UnexpiredBefore(time) == {w \in pending : time < w.expires}

\* A window is good up to and including the moment it expires.
Unexpired(time) == {w \in pending : time <= w.expires}

\* Every call reads the clock and drops the windows nobody used in time.
Sweep(t) ==
    /\ pc[t] = "new"
    /\ \E time \in Times :
        /\ now' = [now EXCEPT ![t] = time]
        /\ pending' = Unexpired(time)
    /\ Goto(t, "swept")
    /\ UNCHANGED <<paired, guess, wrong, revoked>>

\* begin_pairing. The handle is derived from the time: a window opened at the
\* same moment is replaced.
BeginPairing(b) ==
    /\ pc[b] = "swept"
    /\ pending' =
        {w \in pending : w.handle # now[b]} \cup
        {[handle |-> now[b], code |-> b, expires |-> now[b] + TTL, attempts |-> 0]}
    /\ Goto(b, "done")
    /\ UNCHANGED <<paired, now, guess, wrong, revoked>>

Matching(g, code) == {w \in Unexpired(now[g]) : w.code = code}

\* Mutant: the window stays open for a second device.
CompleteMatchesOpen(g, code) ==
    /\ pc[g] = "swept"
    /\ guess' = [guess EXCEPT ![g] = code]
    /\ Matching(g, code) # {}
    /\ pending' = Unexpired(now[g])
    /\ Goto(g, "matched")
    /\ UNCHANGED <<paired, now, wrong, revoked>>

\* complete_pairing, first lock: a guess that is an open window's code takes
\* that window out.
CompleteMatches(g, code) ==
    /\ pc[g] = "swept"
    /\ guess' = [guess EXCEPT ![g] = code]
    /\ \E w \in Matching(g, code) : pending' = Unexpired(now[g]) \ {w}
    /\ Goto(g, "matched")
    /\ UNCHANGED <<paired, now, wrong, revoked>>

Charged(w) == [w EXCEPT !.attempts = @ + 1]

\* Mutant: only a guess at a code that was once shown is charged.
CompleteRefusedKnown(g, code) ==
    /\ pc[g] = "swept"
    /\ guess' = [guess EXCEPT ![g] = code]
    /\ Matching(g, code) = {}
    /\ pending' = IF code = None THEN Unexpired(now[g])
                  ELSE {w \in {Charged(x) : x \in Unexpired(now[g])} :
                            w.attempts < MaxAttempts}
    /\ wrong' = [b \in Begins |->
                    IF b \in Shown \ Spent THEN wrong[b] + 1 ELSE wrong[b]]
    /\ Goto(g, "done")
    /\ UNCHANGED <<paired, now, revoked>>

\* A guess that is no open window's code is charged to every open window, and
\* those that were guessed at too often are burned.
CompleteRefused(g, code) ==
    /\ pc[g] = "swept"
    /\ guess' = [guess EXCEPT ![g] = code]
    /\ Matching(g, code) = {}
    /\ pending' = {w \in {Charged(x) : x \in Unexpired(now[g])} :
                        w.attempts < MaxAttempts}
    /\ wrong' = [b \in Begins |->
                    IF b \in Shown \ Spent THEN wrong[b] + 1 ELSE wrong[b]]
    /\ Goto(g, "done")
    /\ UNCHANGED <<paired, now, revoked>>

\* complete_pairing, second lock.
CompletePairs(g) ==
    /\ pc[g] = "matched"
    /\ paired' = paired \cup {guess[g]}
    /\ Goto(g, "paired")
    /\ UNCHANGED <<pending, now, guess, wrong, revoked>>

\* revoke answers whether there was such a device; without a device_id the call
\* ends in an error.
Revoke(r) ==
    /\ pc[r] = "swept"
    /\ \/ \E d \in paired : paired' = paired \ {d} /\ revoked' = revoked \cup {d}
       \/ UNCHANGED <<paired, revoked>>
    /\ Goto(r, "done")
    /\ UNCHANGED <<pending, now, guess, wrong>>

Next ==
    \/ \E t \in Calls : Sweep(t)
    \/ \E b \in Begins : BeginPairing(b)
    \/ \E g \in Guesses :
        \/ \E code \in Begins \cup {None} :
            CompleteMatches(g, code) \/ CompleteRefused(g, code)
        \/ CompletePairs(g)
    \/ \E r \in Revokes : Revoke(r)

Spec == Init /\ [][Next]_vars

-----------------------------------------------------------------------------
(* Properties *)

\* "A pairing code is short-lived and single-use": whatever the calls
\* interleave in, no two of them get a device for the same code, and none gets
\* one for a code whose window was over by the time the call went by.
CodesPairOnceAndInTime ==
    \A g \in Guesses : pc[g] \in {"matched", "paired"} =>
        /\ guess[g] \in Shown
        /\ now[g] <= now[guess[g]] + TTL
        /\ \A h \in Guesses \ {g} :
            pc[h] \in {"matched", "paired"} => guess[h] # guess[g]

\* "Guessing is not a strategy": a code that was wrongly guessed at MaxAttempts
\* times since it was shown never pairs, whichever windows the guesses were
\* aimed at and whatever they were.
GuessedAtCodesAreBurned == \A b \in Spent : wrong[b] < MaxAttempts

\* And it is not closed for less: a code that was shown, is not spent and was not
\* guessed at too often can be typed in, until some call read a time past its
\* expiry, unless a window opened at the very same moment took its handle.
GoodCodesStay ==
    \A b \in Shown \ Spent :
        \/ wrong[b] >= MaxAttempts
        \/ \E t \in Calls : pc[t] # "new" /\ now[t] > now[b] + TTL
        \/ \E c \in Shown \ {b} : now[c] = now[b]
        \/ \E w \in pending : w.code = b

\* A device is enrolled once, and a revocation that found it is final: no
\* completing call that was under way brings it back.
Book == INSTANCE DeviceBook WITH Devices <- Begins, enrolled <- paired

RevocationIsFinal == Book!Spec
=============================================================================
