--------------------------- MODULE PairingProofs ----------------------------
(***************************************************************************)
(* Proofs about Pairing, for any number of calls, any times and any limit. *)
(***************************************************************************)
EXTENDS Pairing, TLAPS

\* An open window belongs to a code that was shown and is not spent, carries the
\* time it was opened at, and has as many attempts as the code saw wrong guesses.
WindowsTellTheTruth ==
    \A w \in pending :
        /\ w.code \in Shown \ Spent
        /\ w.handle = now[w.code]
        /\ w.expires = now[w.code] + TTL
        /\ w.attempts = wrong[w.code]
        /\ w.attempts < MaxAttempts

\* Guesses count from the moment a code is shown.
FreshCodesAreUnguessed == \A b \in Begins \ Shown : wrong[b] = 0

\* Only a code whose completing call went through both locks has a device.
DevicesHavePaired ==
    /\ \A d \in paired \cup revoked :
        \E g \in Guesses : pc[g] = "paired" /\ guess[g] = d
    /\ paired \cap revoked = {}

IInv ==
    /\ TypeOK
    /\ WindowsTellTheTruth
    /\ CodesPairOnceAndInTime
    /\ GuessedAtCodesAreBurned
    /\ GoodCodesStay
    /\ FreshCodesAreUnguessed
    /\ DevicesHavePaired

LEMMA InitIInv == Init => IInv
  <1> SUFFICES ASSUME Init PROVE IInv
    OBVIOUS
  <1> USE DEF Init
  <1>1. TypeOK
    BY DEF TypeOK, Window
  <1>2. Shown = {} /\ Spent = {}
    BY CallsAreDistinct DEF Shown, Spent, Calls
  <1>3. WindowsTellTheTruth /\ GuessedAtCodesAreBurned /\ GoodCodesStay
    BY <1>2 DEF WindowsTellTheTruth, GuessedAtCodesAreBurned, GoodCodesStay
  <1>4. CodesPairOnceAndInTime
    BY DEF CodesPairOnceAndInTime, Calls
  <1>5. DevicesHavePaired
    BY DEF DevicesHavePaired
  <1>6. FreshCodesAreUnguessed
    BY DEF FreshCodesAreUnguessed
  <1> QED
    BY <1>1, <1>3, <1>4, <1>5, <1>6 DEF IInv

\* Reading the clock once more closes only windows that time is past.
LEMMA SweepStep ==
    ASSUME IInv, NEW t \in Calls, Sweep(t)
    PROVE  IInv'
  <1> USE CallsAreDistinct, PairingNumbers
  <1>1. PICK time \in Times :
            /\ now' = [now EXCEPT ![t] = time]
            /\ pending' = Unexpired(time)
    BY DEF Sweep
  <1>2. /\ pc[t] = "new" /\ pc' = [pc EXCEPT ![t] = "swept"]
        /\ UNCHANGED <<paired, guess, wrong, revoked>>
    BY DEF Sweep, Goto
  <1>3. TypeOK
    BY DEF IInv
  <1>4. /\ pending' \subseteq pending
        /\ \A w \in pending : w \notin pending' => ~(time <= w.expires)
    BY <1>1 DEF Unexpired
  <1>5. \A u \in Calls : u # t => pc'[u] = pc[u] /\ now'[u] = now[u]
    BY <1>1, <1>2, <1>3 DEF TypeOK
  <1>6. pc'[t] = "swept" /\ now'[t] = time
    BY <1>1, <1>2, <1>3 DEF TypeOK
  <1>7. Shown' = Shown /\ Spent' = Spent /\ t \notin Shown
    BY <1>2, <1>3, <1>5, <1>6 DEF Shown, Spent, Calls
  <1>8. TypeOK'
    BY <1>1, <1>2, <1>3, <1>4 DEF TypeOK
  <1>9. \A b \in Shown : b # t /\ b \in Calls /\ now'[b] = now[b]
    BY <1>5, <1>7 DEF Shown, Calls
  <1>10. WindowsTellTheTruth'
    BY <1>2, <1>4, <1>7, <1>9 DEF IInv, WindowsTellTheTruth
  <1>11. CodesPairOnceAndInTime'
    BY <1>2, <1>5, <1>6, <1>7, <1>9 DEF IInv, CodesPairOnceAndInTime, Calls
  <1>12. GuessedAtCodesAreBurned'
    BY <1>2, <1>7 DEF IInv, GuessedAtCodesAreBurned
  <1>13. GoodCodesStay'
    <2> SUFFICES ASSUME NEW b \in Shown \ Spent,
                        wrong[b] < MaxAttempts,
                        ~ \E c \in Shown \ {b} : now[c] = now[b]
                 PROVE  \/ \E u \in Calls : pc'[u] # "new" /\ now'[u] > now[b] + TTL
                        \/ \E w \in pending' : w.code = b
      BY <1>2, <1>3, <1>7, <1>9 DEF GoodCodesStay, TypeOK, Shown
    <2>1. now[b] \in Nat
      BY <1>3 DEF TypeOK, Shown, Calls
    <2>2. CASE \E u \in Calls : pc[u] # "new" /\ now[u] > now[b] + TTL
      BY <2>2, <1>2, <1>5
    <2>3. CASE \E w \in pending : w.code = b
      <3>1. PICK w \in pending : w.code = b
        BY <2>3
      <3>2. w.expires = now[b] + TTL
        BY <3>1 DEF IInv, WindowsTellTheTruth
      <3>3. CASE w \in pending'
        BY <3>1, <3>3
      <3>4. CASE w \notin pending'
        BY <3>2, <3>4, <2>1, <1>4, <1>6
      <3> QED
        BY <3>3, <3>4
    <2>4. wrong[b] \in Nat
      BY <1>3 DEF TypeOK, Shown
    <2> QED
      BY <2>2, <2>3, <2>4 DEF IInv, GoodCodesStay
  <1>14. DevicesHavePaired'
    BY <1>2, <1>5 DEF IInv, DevicesHavePaired, Calls
  <1>15. FreshCodesAreUnguessed'
    BY <1>2, <1>7 DEF IInv, FreshCodesAreUnguessed
  <1> QED
    BY <1>8, <1>10, <1>11, <1>12, <1>13, <1>14, <1>15 DEF IInv

LEMMA BeginStep ==
    ASSUME IInv, NEW b \in Begins, BeginPairing(b)
    PROVE  IInv'
  <1> USE CallsAreDistinct, PairingNumbers
  <1> DEFINE new == [handle |-> now[b], code |-> b,
                     expires |-> now[b] + TTL, attempts |-> 0]
  <1>1. /\ pc[b] = "swept" /\ pc' = [pc EXCEPT ![b] = "done"]
        /\ pending' = {w \in pending : w.handle # now[b]} \cup {new}
        /\ UNCHANGED <<paired, now, guess, wrong, revoked>>
    BY DEF BeginPairing, Goto
  <1>2. TypeOK
    BY DEF IInv
  <1>3. now[b] \in Times /\ now[b] \in Nat
    BY <1>1, <1>2 DEF TypeOK, Calls
  <1>4. \A u \in Calls : u # b => pc'[u] = pc[u]
    BY <1>1, <1>2 DEF TypeOK
  <1>5. pc'[b] = "done"
    BY <1>1, <1>2 DEF TypeOK, Calls
  <1>6. Shown' = Shown \cup {b} /\ b \notin Shown
    BY <1>1, <1>4, <1>5 DEF Shown, Calls
  <1>7. Spent' = Spent
    BY <1>1, <1>4 DEF Spent, Calls
  <1>8. Spent \subseteq Shown
    BY DEF IInv, CodesPairOnceAndInTime, Spent
  <1>9. wrong[b] = 0
    BY <1>6 DEF IInv, FreshCodesAreUnguessed
  <1>10. TypeOK'
    <2>1. new \in Window
      BY <1>3 DEF Window
    <2> QED
      BY <1>1, <1>2, <1>4, <1>5, <2>1 DEF TypeOK
  <1>11. WindowsTellTheTruth'
    <2> SUFFICES ASSUME NEW w \in pending'
                 PROVE  /\ w.code \in (Shown \cup {b}) \ Spent
                        /\ w.handle = now[w.code]
                        /\ w.expires = now[w.code] + TTL
                        /\ w.attempts = wrong[w.code]
                        /\ w.attempts < MaxAttempts
      BY <1>1, <1>6, <1>7 DEF WindowsTellTheTruth
    <2>1. CASE w \in pending
      BY <2>1 DEF IInv, WindowsTellTheTruth
    <2>2. CASE w = new
      BY <2>2, <1>6, <1>8, <1>9
    <2> QED
      BY <2>1, <2>2, <1>1
  <1>12. CodesPairOnceAndInTime'
    BY <1>1, <1>4, <1>6 DEF IInv, CodesPairOnceAndInTime, Calls
  <1>13. GuessedAtCodesAreBurned'
    BY <1>1, <1>7 DEF IInv, GuessedAtCodesAreBurned
  <1>14. GoodCodesStay'
    <2> SUFFICES ASSUME NEW c \in (Shown \cup {b}) \ Spent
                 PROVE  \/ wrong[c] >= MaxAttempts
                        \/ \E t \in Calls : pc'[t] # "new" /\ now[t] > now[c] + TTL
                        \/ \E d \in (Shown \cup {b}) \ {c} : now[d] = now[c]
                        \/ \E w \in pending' : w.code = c
      BY <1>1, <1>6, <1>7 DEF GoodCodesStay
    <2>1. CASE c = b
      <3>1. new \in pending' /\ new.code = b
        BY <1>1
      <3> QED
        BY <3>1, <2>1
    <2>2. CASE c # b /\ wrong[c] >= MaxAttempts
      BY <2>2
    <2>3. CASE c # b /\ \E t \in Calls : pc[t] # "new" /\ now[t] > now[c] + TTL
      BY <2>3, <1>4, <1>5
    <2>4. CASE c # b /\ \E d \in Shown \ {c} : now[d] = now[c]
      BY <2>4
    <2>5. CASE c # b /\ \E w \in pending : w.code = c
      <3>1. PICK w \in pending : w.code = c
        BY <2>5
      <3>2. w.handle = now[c]
        BY <3>1 DEF IInv, WindowsTellTheTruth
      <3> QED
        BY <3>1, <3>2, <2>5, <1>1
    <2> QED
      BY <2>1, <2>2, <2>3, <2>4, <2>5 DEF IInv, GoodCodesStay
  <1>15. DevicesHavePaired'
    BY <1>1, <1>4 DEF IInv, DevicesHavePaired, Calls
  <1>16. FreshCodesAreUnguessed'
    BY <1>1, <1>6 DEF IInv, FreshCodesAreUnguessed
  <1> QED
    BY <1>10, <1>11, <1>12, <1>13, <1>14, <1>15, <1>16 DEF IInv

\* A matching guess spends its code, and every other window that goes was over.
LEMMA MatchStep ==
    ASSUME IInv, NEW g \in Guesses, NEW code \in Begins \cup {None},
           CompleteMatches(g, code)
    PROVE  IInv'
  <1> USE CallsAreDistinct, PairingNumbers
  <1>1. PICK m \in Matching(g, code) : pending' = Unexpired(now[g]) \ {m}
    BY DEF CompleteMatches
  <1>2. /\ pc[g] = "swept" /\ pc' = [pc EXCEPT ![g] = "matched"]
        /\ guess' = [guess EXCEPT ![g] = code]
        /\ UNCHANGED <<paired, now, wrong, revoked>>
    BY DEF CompleteMatches, Goto
  <1>3. TypeOK
    BY DEF IInv
  <1>4. m \in pending /\ now[g] <= m.expires /\ m.code = code
    BY <1>1 DEF Matching, Unexpired
  <1>5. /\ code \in Shown \ Spent /\ m.expires = now[code] + TTL
        /\ m.handle = now[code] /\ m.attempts = wrong[code] /\ wrong[code] < MaxAttempts
    BY <1>4 DEF IInv, WindowsTellTheTruth
  <1>6. \A u \in Calls : u # g => pc'[u] = pc[u]
    BY <1>2, <1>3 DEF TypeOK
  <1>7. \A h \in Guesses : h # g => guess'[h] = guess[h]
    BY <1>2, <1>3 DEF TypeOK
  <1>8. pc'[g] = "matched" /\ guess'[g] = code
    BY <1>2, <1>3 DEF TypeOK, Calls
  <1>9. Shown' = Shown
    BY <1>2, <1>6 DEF Shown, Calls
  <1>10. Spent' = Spent \cup {code}
    BY <1>2, <1>6, <1>7, <1>8 DEF Spent, Calls
  <1>11. \A w \in pending : w.code = code => w = m
    <2> TAKE w \in pending
    <2> HAVE w.code = code
    <2>1. w.handle = m.handle /\ w.expires = m.expires /\ w.attempts = m.attempts
      BY <1>4, <1>5 DEF IInv, WindowsTellTheTruth
    <2>2. w \in Window /\ m \in Window
      BY <1>3, <1>4 DEF TypeOK
    <2> QED
      BY <2>1, <2>2, <1>4 DEF Window
  <1>12. pending' \subseteq pending /\ \A w \in pending' : w.code # code
    BY <1>1, <1>11 DEF Unexpired
  <1>13. TypeOK'
    BY <1>2, <1>3, <1>6, <1>12 DEF TypeOK
  <1>14. WindowsTellTheTruth'
    BY <1>2, <1>9, <1>10, <1>12 DEF IInv, WindowsTellTheTruth
  <1>15. CodesPairOnceAndInTime'
    <2> SUFFICES ASSUME NEW h \in Guesses, pc'[h] \in {"matched", "paired"}
                 PROVE  /\ guess'[h] \in Shown
                        /\ now[h] <= now[guess'[h]] + TTL
                        /\ \A k \in Guesses \ {h} :
                            pc'[k] \in {"matched", "paired"} => guess'[k] # guess'[h]
      BY <1>2, <1>9 DEF CodesPairOnceAndInTime
    <2>1. \A k \in Guesses : k # g /\ pc'[k] \in {"matched", "paired"} =>
                /\ pc[k] \in {"matched", "paired"}
                /\ guess'[k] = guess[k] /\ guess[k] \in Spent
      BY <1>6, <1>7 DEF Spent, Calls
    <2>2. CASE h = g
      BY <2>1, <2>2, <1>4, <1>5, <1>8
    <2>3. CASE h # g
      <3>1. guess'[h] \in Spent /\ guess'[h] # code
        BY <2>1, <2>3, <1>5
      <3> QED
        BY <2>1, <2>3, <3>1, <1>8 DEF IInv, CodesPairOnceAndInTime
    <2> QED
      BY <2>2, <2>3
  <1>16. GuessedAtCodesAreBurned'
    BY <1>2, <1>5, <1>10 DEF IInv, GuessedAtCodesAreBurned
  <1>17. GoodCodesStay'
    <2> SUFFICES ASSUME NEW c \in Shown \ (Spent \cup {code})
                 PROVE  \/ wrong[c] >= MaxAttempts
                        \/ \E t \in Calls : pc'[t] # "new" /\ now[t] > now[c] + TTL
                        \/ \E d \in Shown \ {c} : now[d] = now[c]
                        \/ \E w \in pending' : w.code = c
      BY <1>2, <1>9, <1>10 DEF GoodCodesStay
    <2>1. CASE \E t \in Calls : pc[t] # "new" /\ now[t] > now[c] + TTL
      BY <2>1, <1>6, <1>8
    <2>2. CASE \E w \in pending : w.code = c
      <3>1. PICK w \in pending : w.code = c
        BY <2>2
      <3>2. w # m /\ w.expires = now[c] + TTL
        BY <3>1, <1>4 DEF IInv, WindowsTellTheTruth
      <3>3. CASE now[g] <= w.expires
        BY <3>1, <3>2, <3>3, <1>1 DEF Unexpired
      <3>4. CASE ~(now[g] <= w.expires)
        <4>1. now[g] \in Nat /\ now[c] \in Nat /\ g \in Calls
          BY <1>2, <1>3 DEF TypeOK, Shown, Calls
        <4> QED
          BY <4>1, <3>2, <3>4, <1>8
      <3> QED
        BY <3>3, <3>4
    <2> QED
      BY <2>1, <2>2 DEF IInv, GoodCodesStay
  <1>18. DevicesHavePaired'
    BY <1>2, <1>6, <1>7 DEF IInv, DevicesHavePaired, Calls
  <1>19. FreshCodesAreUnguessed'
    BY <1>2, <1>9 DEF IInv, FreshCodesAreUnguessed
  <1> QED
    BY <1>13, <1>14, <1>15, <1>16, <1>17, <1>18, <1>19 DEF IInv

\* A refused guess is charged to the windows and counted on the codes alike.
LEMMA RefuseStep ==
    ASSUME IInv, NEW g \in Guesses, NEW code \in Begins \cup {None},
           CompleteRefused(g, code)
    PROVE  IInv'
  <1> USE CallsAreDistinct, PairingNumbers
  <1>1. /\ pc[g] = "swept" /\ pc' = [pc EXCEPT ![g] = "done"]
        /\ guess' = [guess EXCEPT ![g] = code]
        /\ pending' = {w \in {Charged(x) : x \in Unexpired(now[g])} :
                            w.attempts < MaxAttempts}
        /\ wrong' = [b \in Begins |->
                        IF b \in Shown \ Spent THEN wrong[b] + 1 ELSE wrong[b]]
        /\ UNCHANGED <<paired, now, revoked>>
    BY DEF CompleteRefused, Goto
  <1>2. TypeOK
    BY DEF IInv
  <1>3. \A u \in Calls : u # g => pc'[u] = pc[u]
    BY <1>1, <1>2 DEF TypeOK
  <1>4. \A h \in Guesses : h # g => guess'[h] = guess[h]
    BY <1>1, <1>2 DEF TypeOK
  <1>5. pc'[g] = "done"
    BY <1>1, <1>2 DEF TypeOK, Calls
  <1>6. Shown' = Shown
    BY <1>1, <1>3 DEF Shown, Calls
  <1>7. Spent' = Spent
    BY <1>1, <1>3, <1>4, <1>5 DEF Spent, Calls
  <1>8. \A x \in pending :
            /\ Charged(x) \in Window
            /\ Charged(x).handle = x.handle /\ Charged(x).code = x.code
            /\ Charged(x).expires = x.expires
            /\ Charged(x).attempts = x.attempts + 1
    <2> TAKE x \in pending
    <2>1. x \in Window
      BY <1>2 DEF TypeOK
    <2> QED
      BY <2>1 DEF Charged, Window
  <1>9. \A w \in pending' : \E x \in pending :
            w = Charged(x) /\ w.attempts < MaxAttempts
    BY <1>1 DEF Unexpired
  <1>10. \A b \in Shown \ Spent : wrong'[b] = wrong[b] + 1
    BY <1>1 DEF Shown
  <1>11. \A b \in Begins : b \notin Shown \ Spent => wrong'[b] = wrong[b]
    BY <1>1
  <1>12. TypeOK'
    <2>1. pending' \subseteq Window
      BY <1>8, <1>9
    <2>2. wrong' \in [Begins -> Nat]
      BY <1>1, <1>2 DEF TypeOK
    <2> QED
      BY <2>1, <2>2, <1>1, <1>2, <1>3, <1>5 DEF TypeOK
  <1>13. WindowsTellTheTruth'
    <2> SUFFICES ASSUME NEW w \in pending'
                 PROVE  /\ w.code \in Shown \ Spent
                        /\ w.handle = now[w.code]
                        /\ w.expires = now[w.code] + TTL
                        /\ w.attempts = wrong'[w.code]
                        /\ w.attempts < MaxAttempts
      BY <1>1, <1>6, <1>7 DEF WindowsTellTheTruth
    <2>1. PICK x \in pending : w = Charged(x) /\ w.attempts < MaxAttempts
      BY <1>9
    <2>2. /\ x.code \in Shown \ Spent /\ x.handle = now[x.code]
          /\ x.expires = now[x.code] + TTL /\ x.attempts = wrong[x.code]
      BY DEF IInv, WindowsTellTheTruth
    <2> QED
      BY <2>1, <2>2, <1>8, <1>10
  <1>14. CodesPairOnceAndInTime'
    BY <1>1, <1>3, <1>4, <1>5, <1>6 DEF IInv, CodesPairOnceAndInTime, Calls
  <1>15. GuessedAtCodesAreBurned'
    <2>1. Spent \subseteq Begins
      BY DEF IInv, CodesPairOnceAndInTime, Spent, Shown
    <2> QED
      BY <2>1, <1>7, <1>11 DEF IInv, GuessedAtCodesAreBurned
  <1>16. GoodCodesStay'
    <2> SUFFICES ASSUME NEW c \in Shown \ Spent
                 PROVE  \/ wrong'[c] >= MaxAttempts
                        \/ \E t \in Calls : pc'[t] # "new" /\ now[t] > now[c] + TTL
                        \/ \E d \in Shown \ {c} : now[d] = now[c]
                        \/ \E w \in pending' : w.code = c
      BY <1>1, <1>6, <1>7 DEF GoodCodesStay
    <2>1. wrong[c] \in Nat /\ wrong'[c] = wrong[c] + 1
      BY <1>2, <1>10 DEF TypeOK, Shown
    <2>2. CASE wrong[c] >= MaxAttempts
      BY <2>1, <2>2
    <2>3. CASE \E t \in Calls : pc[t] # "new" /\ now[t] > now[c] + TTL
      BY <2>3, <1>3, <1>5
    <2>4. CASE \E w \in pending : w.code = c
      <3>1. PICK w \in pending : w.code = c
        BY <2>4
      <3>2. w.expires = now[c] + TTL /\ w.attempts = wrong[c]
        BY <3>1 DEF IInv, WindowsTellTheTruth
      <3>3. CASE ~(now[g] <= w.expires)
        <4>1. now[g] \in Nat /\ now[c] \in Nat /\ g \in Calls
          BY <1>1, <1>2 DEF TypeOK, Shown, Calls
        <4> QED
          BY <4>1, <3>2, <3>3, <1>5
      <3>4. CASE now[g] <= w.expires /\ wrong[c] + 1 < MaxAttempts
        <4>1. Charged(w).attempts < MaxAttempts
          BY <3>1, <3>2, <3>4, <1>8
        <4>2. Charged(w) \in pending'
          BY <4>1, <3>1, <3>4, <1>1 DEF Unexpired
        <4> QED
          BY <4>2, <3>1, <1>8
      <3>5. CASE ~(wrong[c] + 1 < MaxAttempts)
        BY <3>5, <2>1
      <3> QED
        BY <3>3, <3>4, <3>5
    <2> QED
      BY <2>2, <2>3, <2>4 DEF IInv, GoodCodesStay
  <1>17. DevicesHavePaired'
    BY <1>1, <1>3, <1>4 DEF IInv, DevicesHavePaired, Calls
  <1>18. FreshCodesAreUnguessed'
    BY <1>6, <1>11 DEF IInv, FreshCodesAreUnguessed
  <1> QED
    BY <1>12, <1>13, <1>14, <1>15, <1>16, <1>17, <1>18 DEF IInv

\* The second lock of a completing call, and a revocation: the windows are left
\* alone.
LEMMA PairStep ==
    ASSUME IInv, NEW g \in Guesses, CompletePairs(g)
    PROVE  IInv'
  <1> USE CallsAreDistinct, PairingNumbers
  <1>1. /\ pc[g] = "matched" /\ pc' = [pc EXCEPT ![g] = "paired"]
        /\ paired' = paired \cup {guess[g]}
        /\ UNCHANGED <<pending, now, guess, wrong, revoked>>
    BY DEF CompletePairs, Goto
  <1>2. TypeOK
    BY DEF IInv
  <1>3. \A u \in Calls : u # g => pc'[u] = pc[u]
    BY <1>1, <1>2 DEF TypeOK
  <1>4. pc'[g] = "paired"
    BY <1>1, <1>2 DEF TypeOK, Calls
  <1>5. Shown' = Shown /\ Spent' = Spent
    BY <1>1, <1>3, <1>4 DEF Shown, Spent, Calls
  <1>6. guess[g] \in Begins /\ guess[g] \notin paired \cup revoked
    BY <1>1 DEF IInv, CodesPairOnceAndInTime, DevicesHavePaired, Shown
  <1>7. TypeOK'
    BY <1>1, <1>2, <1>3, <1>4, <1>6 DEF TypeOK
  <1>8. WindowsTellTheTruth' /\ GuessedAtCodesAreBurned' /\ FreshCodesAreUnguessed'
    BY <1>1, <1>5
    DEF IInv, WindowsTellTheTruth, GuessedAtCodesAreBurned, FreshCodesAreUnguessed
  <1>9. CodesPairOnceAndInTime'
    BY <1>1, <1>3, <1>5 DEF IInv, CodesPairOnceAndInTime, Calls
  <1>10. GoodCodesStay'
    <2>1. \A t \in Calls : pc[t] # "new" => pc'[t] # "new"
      BY <1>3, <1>4
    <2> QED
      BY <2>1, <1>1, <1>5 DEF IInv, GoodCodesStay
  <1>11. DevicesHavePaired'
    BY <1>1, <1>3, <1>4, <1>6 DEF IInv, DevicesHavePaired, Calls
  <1> QED
    BY <1>7, <1>8, <1>9, <1>10, <1>11 DEF IInv

LEMMA RevokeStep ==
    ASSUME IInv, NEW r \in Revokes, Revoke(r)
    PROVE  IInv'
  <1> USE CallsAreDistinct, PairingNumbers
  <1>1. /\ pc[r] = "swept" /\ pc' = [pc EXCEPT ![r] = "done"]
        /\ UNCHANGED <<pending, now, guess, wrong>>
    BY DEF Revoke, Goto
  <1>2. \/ \E d \in paired : paired' = paired \ {d} /\ revoked' = revoked \cup {d}
        \/ UNCHANGED <<paired, revoked>>
    BY DEF Revoke
  <1>3. TypeOK
    BY DEF IInv
  <1>4. \A u \in Calls : u # r => pc'[u] = pc[u]
    BY <1>1, <1>3 DEF TypeOK
  <1>5. pc'[r] = "done"
    BY <1>1, <1>3 DEF TypeOK, Calls
  <1>6. Shown' = Shown /\ Spent' = Spent
    BY <1>1, <1>4, <1>5 DEF Shown, Spent, Calls
  <1>7. /\ paired' \cup revoked' = paired \cup revoked
        /\ paired' \cap revoked' = {}
    BY <1>2 DEF IInv, DevicesHavePaired
  <1>8. TypeOK'
    BY <1>1, <1>3, <1>4, <1>5, <1>7 DEF TypeOK
  <1>9. WindowsTellTheTruth' /\ GuessedAtCodesAreBurned' /\ FreshCodesAreUnguessed'
    BY <1>1, <1>6
    DEF IInv, WindowsTellTheTruth, GuessedAtCodesAreBurned, FreshCodesAreUnguessed
  <1>10. CodesPairOnceAndInTime'
    BY <1>1, <1>4, <1>6 DEF IInv, CodesPairOnceAndInTime, Calls
  <1>11. GoodCodesStay'
    <2>1. \A t \in Calls : pc[t] # "new" => pc'[t] # "new"
      BY <1>4, <1>5
    <2> QED
      BY <2>1, <1>1, <1>6 DEF IInv, GoodCodesStay
  <1>12. DevicesHavePaired'
    BY <1>1, <1>4, <1>7 DEF IInv, DevicesHavePaired, Calls
  <1> QED
    BY <1>8, <1>9, <1>10, <1>11, <1>12 DEF IInv

LEMMA Stutter == ASSUME IInv, UNCHANGED vars PROVE IInv'
  BY DEF vars, IInv, TypeOK, WindowsTellTheTruth, CodesPairOnceAndInTime,
         GuessedAtCodesAreBurned, GoodCodesStay, FreshCodesAreUnguessed,
         DevicesHavePaired, Shown, Spent

LEMMA InvStep == IInv /\ [Next]_vars => IInv'
  <1> SUFFICES ASSUME IInv, [Next]_vars PROVE IInv'
    OBVIOUS
  <1>1. CASE UNCHANGED vars
    BY <1>1, Stutter
  <1>2. CASE \E t \in Calls : Sweep(t)
    BY <1>2, SweepStep
  <1>3. CASE \E b \in Begins : BeginPairing(b)
    BY <1>3, BeginStep
  <1>4. CASE \E g \in Guesses, code \in Begins \cup {None} : CompleteMatches(g, code)
    BY <1>4, MatchStep
  <1>5. CASE \E g \in Guesses, code \in Begins \cup {None} : CompleteRefused(g, code)
    BY <1>5, RefuseStep
  <1>6. CASE \E g \in Guesses : CompletePairs(g)
    BY <1>6, PairStep
  <1>7. CASE \E r \in Revokes : Revoke(r)
    BY <1>7, RevokeStep
  <1> QED
    BY <1>1, <1>2, <1>3, <1>4, <1>5, <1>6, <1>7 DEF Next

THEOREM Invariant == Spec => []IInv
  BY InitIInv, InvStep, PTL DEF Spec

\* Every variable keeps its type, for any number of calls.
THEOREM TypeCorrect == Spec => []TypeOK
  <1>1. IInv => TypeOK
    BY DEF IInv
  <1> QED
    BY <1>1, Invariant, PTL

\* Whatever the calls interleave in, one code pairs one device, and only for a
\* call that came in time (authz/src/devices.rs, complete_pairing).
THEOREM CodesPairOnce == Spec => []CodesPairOnceAndInTime
  <1>1. IInv => CodesPairOnceAndInTime
    BY DEF IInv
  <1> QED
    BY <1>1, Invariant, PTL

\* The attempt limit holds for every code, however the guesses are spread over
\* calls and windows (authz/src/devices.rs, MAX_ATTEMPTS).
THEOREM GuessesBurn == Spec => []GuessedAtCodesAreBurned
  <1>1. IInv => GuessedAtCodesAreBurned
    BY DEF IInv
  <1> QED
    BY <1>1, Invariant, PTL

\* No code is closed before its time but by guesses, by its own use, or by a
\* window that was opened at the same moment.
THEOREM GoodCodesAreKept == Spec => []GoodCodesStay
  <1>1. IInv => GoodCodesStay
    BY DEF IInv
  <1> QED
    BY <1>1, Invariant, PTL

LEMMA BookStep == ASSUME IInv, [Next]_vars PROVE [Book!Next]_(Book!book)
  <1> USE CallsAreDistinct
  <1>1. CASE UNCHANGED <<paired, revoked>>
    BY <1>1 DEF Book!book
  <1>2. CASE \E g \in Guesses : CompletePairs(g)
    <2>1. PICK g \in Guesses : CompletePairs(g)
      BY <1>2
    <2>2. /\ pc[g] = "matched" /\ paired' = paired \cup {guess[g]}
          /\ UNCHANGED revoked
      BY <2>1 DEF CompletePairs
    <2>3. guess[g] \in Begins /\ guess[g] \notin paired \cup revoked
      BY <2>2 DEF IInv, CodesPairOnceAndInTime, DevicesHavePaired, Shown
    <2>4. Book!Enroll(guess[g])
      BY <2>2, <2>3 DEF Book!Enroll
    <2> QED
      BY <2>3, <2>4 DEF Book!Next
  <1>3. CASE \E r \in Revokes : Revoke(r)
    <2>1. \/ UNCHANGED <<paired, revoked>>
          \/ \E d \in paired : paired' = paired \ {d} /\ revoked' = revoked \cup {d}
      BY <1>3 DEF Revoke
    <2>2. paired \subseteq Begins
      BY DEF IInv, TypeOK
    <2> QED
      BY <2>1, <2>2, <1>1 DEF Book!Next, Book!Revoke
  <1> QED
    BY <1>1, <1>2, <1>3
    DEF Next, vars, Sweep, BeginPairing, CompleteMatches, CompleteRefused

\* A device is enrolled once, and no completing call that was under way brings
\* a revoked one back.
THEOREM RevokedStaysRevoked == Spec => RevocationIsFinal
  <1>1. Init => Book!Init
    BY DEF Init, Book!Init
  <1>2. IInv /\ [Next]_vars => [Book!Next]_(Book!book)
    BY BookStep
  <1> QED
    BY <1>1, <1>2, Invariant, PTL DEF Spec, RevocationIsFinal, Book!Spec
=============================================================================
