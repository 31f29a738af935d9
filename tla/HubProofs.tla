------------------------------- MODULE HubProofs ------------------------------
(***************************************************************************)
(* Theorems about the hub's sessions, in three parts.  ReplayPushes:       *)
(* whatever is pushed, a snapshot of the catch-up buffer has no hole that  *)
(* it does not report.  HubTurns, for any number of sends, interrupts,     *)
(* removals and closes: no message is lost, run twice or run after it was  *)
(* dropped.  HubFrames: what holds of the turn loop holds with the frames  *)
(* added; the catch-up buffer holds the running turn; and as long as       *)
(* nothing closes the session, an attached client is served by one the hub *)
(* listens to and misses no frame.                                         *)
(*                                                                         *)
(* The induction the buffer's sums and the trimming need goes over sets of *)
(* numbers: every such set that is not empty has a least member.           *)
(***************************************************************************)
EXTENDS HubFrames, ReplayPushes, SequenceTheorems, FiniteSetTheorems,
        WellFoundedInduction, TLAPS

-----------------------------------------------------------------------------
(* Numbers and sums *)

LEMMA LeastNumber ==
    ASSUME NEW S \in SUBSET Nat, S # {}
    PROVE  \E n \in S : \A m \in S : n <= m
<1> DEFINE R == {p \in Nat \X Nat : p[1] < p[2]}
<1>1. R = OpToRel(<, Nat)
  BY DEF OpToRel
<1>2. IsWellFoundedOn(R, Nat)
  BY <1>1, NatLessThanWellFounded
<1>3. PICK n \in S : \A m \in S : ~ (<<m, n>> \in R)
  BY <1>2, WFMin
<1>4. ASSUME NEW m \in S  PROVE n <= m
  <2>1. <<m, n>> \in R <=> m < n
    OBVIOUS
  <2>2. ~(m < n)
    BY <1>3, <2>1
  <2>3. m \in Nat /\ n \in Nat
    OBVIOUS
  <2>4. QED
    BY <2>2, <2>3
<1>5. QED
  BY <1>4

LEMMA NumberInduction ==
    ASSUME NEW S, 0 \in S, \A n \in Nat : n \in S => n + 1 \in S
    PROVE  Nat \subseteq S
<1> SUFFICES ASSUME Nat \ S # {}  PROVE FALSE
  OBVIOUS
<1>1. PICK n \in Nat \ S : \A m \in Nat \ S : n <= m
  BY LeastNumber
<1>2. n - 1 \in Nat /\ n - 1 \in S
  BY <1>1
<1>3. QED
  BY <1>1, <1>2

\* The sums of the first numbers of a sequence.
IsSum(sum, N, weights) ==
    sum = [n \in 0 .. N |-> IF n = 0 THEN 0 ELSE sum[n - 1] + weights[n]]

LEMMA SumExists ==
    ASSUME NEW N \in Nat, NEW w \in [1 .. N -> Nat]
    PROVE  \E sum \in [0 .. N -> Nat] : IsSum(sum, N, w)
<1> DEFINE S == {n \in Nat : n <= N => \E sum \in [0 .. n -> Nat] : IsSum(sum, n, w)}
<1>1. 0 \in S
  <2>1. [i \in 0 .. 0 |-> 0] \in [0 .. 0 -> Nat] /\ IsSum([i \in 0 .. 0 |-> 0], 0, w)
    BY DEF IsSum
  <2>2. QED
    BY <2>1
<1>2. ASSUME NEW n \in Nat, n \in S  PROVE n + 1 \in S
  <2> SUFFICES ASSUME n + 1 <= N
               PROVE  \E sum \in [0 .. n + 1 -> Nat] : IsSum(sum, n + 1, w)
    OBVIOUS
  <2>1. PICK sum \in [0 .. n -> Nat] : IsSum(sum, n, w)
    BY <1>2
  <2> DEFINE next == [i \in 0 .. n + 1 |->
                         IF i = n + 1 THEN sum[n] + w[n + 1] ELSE sum[i]]
  <2>2. next \in [0 .. n + 1 -> Nat]
    OBVIOUS
  <2>3. \A i \in 0 .. n + 1 : next[i] = IF i = 0 THEN 0 ELSE next[i - 1] + w[i]
    <3>1. \A i \in 0 .. n : sum[i] = IF i = 0 THEN 0 ELSE sum[i - 1] + w[i]
      BY <2>1 DEF IsSum
    <3>2. \A i \in 0 .. n : next[i] = sum[i]
      OBVIOUS
    <3>3. next[n + 1] = sum[n] + w[n + 1]
      OBVIOUS
    <3> HIDE DEF next
    <3>4. ASSUME NEW i \in 0 .. n + 1
          PROVE  next[i] = IF i = 0 THEN 0 ELSE next[i - 1] + w[i]
      <4>1. CASE i = 0
        BY <3>1, <3>2, <4>1
      <4>2. CASE i \in 1 .. n
        <5>1. i - 1 \in 0 .. n /\ i \in 0 .. n /\ i # 0
          BY <4>2
        <5>2. QED
          BY <3>1, <3>2, <5>1
      <4>3. CASE i = n + 1
        <5>1. n \in 0 .. n /\ (n + 1) - 1 = n /\ n + 1 # 0
          OBVIOUS
        <5>2. next[n] = sum[n]
          BY <3>2, <5>1
        <5>3. QED
          BY <3>3, <4>3, <5>1, <5>2
      <4>4. QED
        BY <4>1, <4>2, <4>3
    <3>5. QED
      BY <3>4
  <2>4. next = [i \in 0 .. n + 1 |-> IF i = 0 THEN 0 ELSE next[i - 1] + w[i]]
    BY <2>3
  <2>5. QED
    BY <2>2, <2>4 DEF IsSum
<1>3. N \in S
  BY <1>1, <1>2, NumberInduction
<1>4. QED
  BY <1>3

\* Total is the last of the sums.
LEMMA TotalIsASum ==
    ASSUME NEW w \in Seq(Nat)
    PROVE  \E sum \in [0 .. Len(w) -> Nat] :
              IsSum(sum, Len(w), w) /\ Total(w) = sum[Len(w)]
<1> DEFINE N == Len(w)
           P(sum) == sum = [n \in 0 .. N |-> IF n = 0 THEN 0 ELSE sum[n - 1] + w[n]]
<1>1. N \in Nat /\ w \in [1 .. N -> Nat]
  OBVIOUS
<1>2. PICK sum0 \in [0 .. N -> Nat] : IsSum(sum0, N, w)
  BY <1>1, SumExists
<1>3. P(CHOOSE sum : P(sum))
  <2>1. P(sum0)
    BY <1>2 DEF IsSum
  <2>2. QED
    BY <2>1, Zenon
<1>4. Total(w) = (CHOOSE sum : P(sum))[N]
  BY Zenon DEF Total
<1>5. ASSUME NEW sum, P(sum)  PROVE sum = sum0
  <2> DEFINE S == {n \in Nat : n <= N => sum[n] = sum0[n]}
  <2>1. \A n \in 0 .. N : sum[n] = IF n = 0 THEN 0 ELSE sum[n - 1] + w[n]
    BY <1>5
  <2>2. \A n \in 0 .. N : sum0[n] = IF n = 0 THEN 0 ELSE sum0[n - 1] + w[n]
    BY <1>2 DEF IsSum
  <2>3. 0 \in S
    BY <1>1, <2>1, <2>2
  <2>4. ASSUME NEW n \in Nat, n \in S  PROVE n + 1 \in S
    BY <1>1, <2>1, <2>2, <2>4
  <2>5. Nat \subseteq S
    BY <2>3, <2>4, NumberInduction
  <2>6. \A n \in 0 .. N : sum[n] = sum0[n]
    BY <1>1, <2>5
  <2>7. DOMAIN sum = 0 .. N
    BY <1>5
  <2>8. sum = [n \in 0 .. N |-> sum[n]]
    BY <1>5
  <2>9. QED
    BY <2>6, <2>8
<1>6. QED
  BY <1>2, <1>3, <1>4, <1>5

LEMMA TotalEmpty == Total(<<>>) = 0
<1>1. <<>> \in Seq(Nat) /\ Len(<<>>) = 0
  OBVIOUS
<1>2. PICK sum : IsSum(sum, 0, <<>>) /\ Total(<<>>) = sum[0]
  BY <1>1, TotalIsASum
<1>3. QED
  BY <1>2 DEF IsSum

LEMMA TotalAppend ==
    ASSUME NEW w \in Seq(Nat), NEW x \in Nat
    PROVE  Total(w) \in Nat /\ Total(Append(w, x)) = Total(w) + x
<1> DEFINE N == Len(w)
           v == Append(w, x)
<1>1. /\ N \in Nat
      /\ v \in Seq(Nat) /\ Len(v) = N + 1
      /\ v[N + 1] = x /\ \A i \in 1 .. N : v[i] = w[i]
  OBVIOUS
<1>2. PICK sum \in [0 .. N -> Nat] : IsSum(sum, N, w) /\ Total(w) = sum[N]
  BY TotalIsASum
<1> HIDE DEF v
<1>3. PICK sum1 \in [0 .. N + 1 -> Nat] : IsSum(sum1, N + 1, v) /\ Total(v) = sum1[N + 1]
  BY <1>1, TotalIsASum
<1>4. \A n \in 0 .. N : sum[n] = IF n = 0 THEN 0 ELSE sum[n - 1] + w[n]
  BY <1>2 DEF IsSum
<1>5. \A n \in 0 .. N + 1 : sum1[n] = IF n = 0 THEN 0 ELSE sum1[n - 1] + v[n]
  BY <1>3 DEF IsSum
<1> DEFINE S == {n \in Nat : n <= N => sum[n] = sum1[n]}
<1>6. 0 \in S
  BY <1>1, <1>4, <1>5
<1>7. ASSUME NEW n \in Nat, n \in S  PROVE n + 1 \in S
  <2> SUFFICES ASSUME n + 1 <= N  PROVE sum[n + 1] = sum1[n + 1]
    OBVIOUS
  <2>1. n + 1 \in 0 .. N /\ n + 1 \in 0 .. N + 1 /\ n + 1 # 0 /\ (n + 1) - 1 = n
    BY <1>1
  <2>2. sum[n + 1] = sum[n] + w[n + 1] /\ sum1[n + 1] = sum1[n] + v[n + 1]
    BY <1>4, <1>5, <2>1
  <2>3. QED
    BY <1>1, <1>7, <2>2
<1>8. sum1[N] = sum[N]
  <2> HIDE DEF S
  <2>1. Nat \subseteq S
    BY <1>6, <1>7, NumberInduction
  <2>2. N \in S
    BY <1>1, <2>1
  <2>3. QED
    BY <1>1, <2>2 DEF S
<1>9. sum1[N + 1] = sum1[N] + x
  <2>1. N + 1 \in 0 .. N + 1 /\ N + 1 # 0 /\ (N + 1) - 1 = N
    BY <1>1
  <2>2. sum1[N + 1] = sum1[N] + v[N + 1]
    BY <1>5, <2>1
  <2>3. QED
    BY <1>1, <2>2
<1>10. Total(w) \in Nat /\ Total(v) = Total(w) + x
  BY <1>1, <1>2, <1>3, <1>8, <1>9
<1>11. QED
  BY <1>10 DEF v

\* One more item at the end of a part of a sequence.
LEMMA PartGrows ==
    ASSUME NEW S, NEW w \in Seq(S), NEW a \in Nat \ {0}, NEW b \in Nat,
           a <= b + 1, b + 1 <= Len(w)
    PROVE  /\ SubSeq(w, a, b) \in Seq(S)
           /\ w[b + 1] \in S
           /\ SubSeq(w, a, b + 1) = Append(SubSeq(w, a, b), w[b + 1])
<1> DEFINE u == SubSeq(w, a, b)
           v == SubSeq(w, a, b + 1)
<1>1. /\ u \in Seq(S) /\ Len(u) = b - a + 1
      /\ \A i \in 1 .. b - a + 1 : u[i] = w[a + i - 1]
      /\ w[b + 1] \in S
  OBVIOUS
<1>2. /\ v \in Seq(S) /\ Len(v) = b - a + 2
      /\ \A i \in 1 .. b - a + 2 : v[i] = w[a + i - 1]
  OBVIOUS
<1> HIDE DEF u, v
<1>3. /\ Append(u, w[b + 1]) \in Seq(S)
      /\ Len(Append(u, w[b + 1])) = b - a + 2
      /\ \A i \in 1 .. b - a + 2 : Append(u, w[b + 1])[i] = w[a + i - 1]
  BY <1>1
<1>4. v = Append(u, w[b + 1])
  BY <1>2, <1>3, SeqEqual
<1>5. QED
  BY <1>1, <1>4 DEF u, v

LEMMA TotalSplit ==
    ASSUME NEW w \in Seq(Nat), NEW k \in 0 .. Len(w)
    PROVE  Total(w) = Total(SubSeq(w, 1, k)) + Total(SubSeq(w, k + 1, Len(w)))
<1> DEFINE front == Total(SubSeq(w, 1, k))
           S == {j \in Nat : k + j <= Len(w) =>
                    Total(SubSeq(w, 1, k + j))
                        = front + Total(SubSeq(w, k + 1, k + j))}
<1>1. Len(w) \in Nat /\ k \in Nat /\ SubSeq(w, 1, k) \in Seq(Nat)
  OBVIOUS
<1>2. front \in Nat
  BY <1>1, TotalAppend
<1> HIDE DEF front
<1>3. 0 \in S
  <2>1. SubSeq(w, k + 1, k) = <<>> /\ k + 0 = k
    BY <1>1, SubSeqEmpty
  <2>2. Total(SubSeq(w, 1, k)) = front + Total(SubSeq(w, k + 1, k))
    <3>1. front = front + 0
      BY <1>2
    <3>2. QED
      BY <2>1, <3>1, TotalEmpty DEF front
  <2>3. QED
    BY <2>1, <2>2
<1>4. ASSUME NEW j \in Nat, j \in S  PROVE j + 1 \in S
  <2> SUFFICES ASSUME k + j + 1 <= Len(w)
               PROVE  Total(SubSeq(w, 1, k + j + 1))
                        = front + Total(SubSeq(w, k + 1, k + j + 1))
    <3>1. k + (j + 1) = k + j + 1
      BY <1>1
    <3>2. QED
      BY <3>1
  <2> DEFINE u == SubSeq(w, 1, k + j)
             v == SubSeq(w, k + 1, k + j)
             x == w[k + j + 1]
  <2>1. u \in Seq(Nat) /\ x \in Nat /\ SubSeq(w, 1, k + j + 1) = Append(u, x)
    BY <1>1, PartGrows
  <2>2. v \in Seq(Nat) /\ SubSeq(w, k + 1, k + j + 1) = Append(v, x)
    BY <1>1, PartGrows
  <2>3. Total(u) = front + Total(v)
    BY <1>1, <1>4
  <2> HIDE DEF u, v, x
  <2>4. /\ Total(u) \in Nat /\ Total(Append(u, x)) = Total(u) + x
        /\ Total(v) \in Nat /\ Total(Append(v, x)) = Total(v) + x
    BY <2>1, <2>2, TotalAppend
  <2>5. Total(Append(u, x)) = front + Total(Append(v, x))
    BY <1>2, <2>1, <2>2, <2>3, <2>4
  <2>6. QED
    BY <2>1, <2>2, <2>5
<1>5. Len(w) - k \in S
  <2> HIDE DEF S
  <2>1. Nat \subseteq S
    BY <1>3, <1>4, NumberInduction
  <2>2. QED
    BY <1>1, <2>1
<1>6. k + (Len(w) - k) = Len(w) /\ SubSeq(w, 1, Len(w)) = w
  BY <1>1, SubSeqFull
<1>7. Total(SubSeq(w, 1, Len(w))) = front + Total(SubSeq(w, k + 1, Len(w)))
  BY <1>1, <1>5, <1>6
<1>8. QED
  BY <1>6, <1>7 DEF front

\* Numbers that are all zero add up to zero.
LEMMA TotalZero ==
    ASSUME NEW w \in Seq(Nat), \A i \in 1 .. Len(w) : w[i] = 0
    PROVE  Total(w) = 0
<1> DEFINE S == {j \in Nat : j <= Len(w) => Total(SubSeq(w, 1, j)) = 0}
<1>1. Len(w) \in Nat
  OBVIOUS
<1>2. 0 \in S
  <2>1. SubSeq(w, 1, 0) = <<>>
    OBVIOUS
  <2>2. QED
    BY <2>1, TotalEmpty
<1>3. ASSUME NEW j \in Nat, j \in S  PROVE j + 1 \in S
  <2> SUFFICES ASSUME j + 1 <= Len(w)  PROVE Total(SubSeq(w, 1, j + 1)) = 0
    OBVIOUS
  <2>1. /\ SubSeq(w, 1, j) \in Seq(Nat) /\ w[j + 1] = 0
        /\ SubSeq(w, 1, j + 1) = Append(SubSeq(w, 1, j), w[j + 1])
    BY <1>1, PartGrows
  <2>2. Total(SubSeq(w, 1, j)) = 0
    BY <1>1, <1>3
  <2>3. Total(Append(SubSeq(w, 1, j), w[j + 1])) = Total(SubSeq(w, 1, j)) + 0
    BY <2>1, TotalAppend
  <2>4. Total(Append(SubSeq(w, 1, j), w[j + 1])) = 0
    BY <2>2, <2>3
  <2>5. QED
    BY <2>1, <2>4, Zenon
<1>4. Len(w) \in S
  <2> HIDE DEF S
  <2>1. Nat \subseteq S
    BY <1>2, <1>3, NumberInduction
  <2>2. QED
    BY <1>1, <2>1
<1>5. SubSeq(w, 1, Len(w)) = w
  BY SubSeqFull
<1>6. Total(SubSeq(w, 1, Len(w))) = 0
  BY <1>1, <1>4
<1>7. QED
  BY <1>5, <1>6
-----------------------------------------------------------------------------
(* The steps of the buffer, for any turns T and kinds of event K *)

Happening(K) == [kind : K, text : Nat, escaped : Nat]

Kept(T, K) == [from : Nat, seq : Nat, turn : T, event : Happening(K)]

Buffers(T, K) == [frames : Seq(Kept(T, K)), bytes : Nat, truncated : BOOLEAN]

Weights(kept) == [i \in DOMAIN kept |-> Wire(kept[i].event)]

LEMMA WeightsAreNumbers ==
    ASSUME NEW T, NEW K, NEW kept \in Seq(Kept(T, K))
    PROVE  /\ Weights(kept) \in Seq(Nat)
           /\ Len(Weights(kept)) = Len(kept)
           /\ \A i \in 1 .. Len(kept) : Weights(kept)[i] = Wire(kept[i].event)
           /\ WireSum(kept) = Total(Weights(kept))
           /\ WireSum(kept) \in Nat
<1>1. DOMAIN kept = 1 .. Len(kept) /\ Len(kept) \in Nat
  OBVIOUS
<1>2. \A i \in 1 .. Len(kept) : Wire(kept[i].event) \in Nat
  <2>1. \A i \in 1 .. Len(kept) : kept[i] \in Kept(T, K)
    OBVIOUS
  <2>2. Overhead \in Nat
    BY BufferBounds
  <2>3. ASSUME NEW i \in 1 .. Len(kept)  PROVE Wire(kept[i].event) \in Nat
    <3>1. kept[i].event \in Happening(K)
      BY <2>1 DEF Kept
    <3>2. kept[i].event.escaped \in Nat
      BY <3>1 DEF Happening
    <3>3. QED
      BY <2>2, <3>2 DEF Wire
  <2>4. QED
    BY <2>3
<1>3. Weights(kept) \in Seq(Nat)
  BY <1>1, <1>2, IsASeq DEF Weights
<1>4. Len(Weights(kept)) = Len(kept)
  <2>1. DOMAIN Weights(kept) = 1 .. Len(kept)
    BY <1>1 DEF Weights
  <2>2. QED
    BY <1>1, <1>3, <2>1
<1>5. WireSum(kept) = Total(Weights(kept))
  BY DEF WireSum, Weights
<1>6. WireSum(kept) \in Nat
  BY <1>3, <1>5, TotalAppend
<1>7. QED
  BY <1>1, <1>3, <1>4, <1>5, <1>6 DEF Weights

\* A sequence cut in two behind its k-th item.
LEMMA CutInTwo ==
    ASSUME NEW S, NEW q \in Seq(S), NEW k \in 0 .. Len(q)
    PROVE  /\ SubSeq(q, 1, k) \in Seq(S) /\ Len(SubSeq(q, 1, k)) = k
           /\ \A i \in 1 .. k : SubSeq(q, 1, k)[i] = q[i]
           /\ SubSeq(q, k + 1, Len(q)) \in Seq(S)
           /\ Len(SubSeq(q, k + 1, Len(q))) = Len(q) - k
           /\ \A i \in 1 .. Len(q) - k : SubSeq(q, k + 1, Len(q))[i] = q[k + i]
<1> DEFINE n == Len(q)
           a == SubSeq(q, 1, k)
           b == SubSeq(q, k + 1, n)
<1>1. n \in Nat /\ k \in Nat /\ k <= n /\ \A i \in 1 .. n : q[i] \in S
  OBVIOUS
<1> HIDE DEF n
<1>2. /\ a \in Seq(S) /\ Len(a) = IF 1 <= k THEN k - 1 + 1 ELSE 0
      /\ \A i \in 1 .. k - 1 + 1 : a[i] = q[1 + i - 1]
  <2>1. \A i \in 1 .. k : q[i] \in S
    BY <1>1
  <2>2. QED
    BY <1>1, <2>1, SubSeqProperties
<1>3. /\ b \in Seq(S) /\ Len(b) = IF k + 1 <= n THEN n - (k + 1) + 1 ELSE 0
      /\ \A i \in 1 .. n - (k + 1) + 1 : b[i] = q[k + 1 + i - 1]
  <2>1. k + 1 \in Nat /\ \A i \in k + 1 .. n : q[i] \in S
    BY <1>1
  <2>2. QED
    BY <1>1, <2>1, SubSeqProperties
<1> HIDE DEF a, b
<1>4. Len(a) = k /\ Len(b) = n - k
  BY <1>1, <1>2, <1>3
<1>5. ASSUME NEW i \in 1 .. k  PROVE a[i] = q[i]
  <2>1. i \in 1 .. k - 1 + 1 /\ 1 + i - 1 = i
    BY <1>1
  <2>2. QED
    BY <1>2, <2>1
<1>6. ASSUME NEW i \in 1 .. n - k  PROVE b[i] = q[k + i]
  <2>1. i \in 1 .. n - (k + 1) + 1 /\ k + 1 + i - 1 = k + i
    BY <1>1
  <2>2. b[i] = q[k + 1 + i - 1]
    BY <1>3, <2>1
  <2>3. QED
    BY <2>1, <2>2
<1>7. QED
  BY <1>2, <1>3, <1>4, <1>5, <1>6 DEF a, b, n

\* Popping takes frames from the front and says so.
LEMMA PoppedFacts ==
    ASSUME NEW T, NEW K, NEW b \in Buffers(T, K), NEW k \in 0 .. Len(b.frames)
    PROVE  LET p == Popped(b, k)
           IN  /\ p \in Buffers(T, K)
               /\ Len(p.frames) = Len(b.frames) - k
               /\ \A i \in 1 .. Len(b.frames) - k : p.frames[i] = b.frames[k + i]
               /\ p.truncated <=> (b.truncated \/ k > 0)
               /\ k = 0 => p.frames = b.frames
<1> DEFINE n == Len(b.frames)
           rest == SubSeq(b.frames, k + 1, n)
           front == SubSeq(b.frames, 1, k)
           gone == WireSum(front)
           left == IF gone > b.bytes THEN 0 ELSE b.bytes - gone
<1>1. /\ b.frames \in Seq(Kept(T, K)) /\ n \in Nat /\ b.bytes \in Nat
      /\ b.truncated \in BOOLEAN /\ k \in Nat /\ k <= n
  BY DEF Buffers
<1>2. /\ rest \in Seq(Kept(T, K)) /\ Len(rest) = n - k
      /\ \A i \in 1 .. n - k : rest[i] = b.frames[k + i]
      /\ front \in Seq(Kept(T, K))
  <2> DEFINE q == b.frames
             S == Kept(T, K)
  <2>1. q \in Seq(S) /\ k \in 0 .. Len(q)
    BY <1>1
  <2> HIDE DEF q, S
  <2>2. /\ SubSeq(q, k + 1, Len(q)) \in Seq(S)
        /\ Len(SubSeq(q, k + 1, Len(q))) = Len(q) - k
        /\ \A i \in 1 .. Len(q) - k : SubSeq(q, k + 1, Len(q))[i] = q[k + i]
        /\ SubSeq(q, 1, k) \in Seq(S)
    BY <2>1, CutInTwo
  <2>3. QED
    BY <2>2 DEF q, S
<1>3. gone \in Nat
  BY <1>2, WeightsAreNumbers
<1>4. k = 0 => rest = b.frames
  BY <1>1, SubSeqFull
<1>5. Popped(b, k) = [frames |-> rest, bytes |-> left,
                      truncated |-> b.truncated \/ k > 0]
  BY Zenon DEF Popped
<1>6. left \in Nat
  BY <1>1, <1>3
<1> HIDE DEF left, rest, n
<1> DEFINE cut == b.truncated \/ k > 0
<1>7. cut \in BOOLEAN
  BY Zenon
<1> HIDE DEF cut
<1>8. /\ Popped(b, k).frames = rest
      /\ Popped(b, k).truncated = cut
      /\ Popped(b, k) \in Buffers(T, K)
  BY <1>2, <1>5, <1>6, <1>7 DEF Buffers, cut
<1>9. Popped(b, k).truncated <=> (b.truncated \/ k > 0)
  BY <1>8, Zenon DEF cut
<1>10. QED
  BY <1>2, <1>4, <1>8, <1>9 DEF n

\* The trimming stops at the first point where the rest fits.
LEMMA TrimPops ==
    ASSUME NEW T, NEW K, NEW b \in Buffers(T, K)
    PROVE  \E k \in 0 .. Len(b.frames) :
              /\ Trim(b) = Popped(b, k)
              /\ Fits(Popped(b, k)) \/ k = Len(b.frames)
<1> DEFINE n == Len(b.frames)
           Enough(k) == Fits(Popped(b, k)) \/ k = n
           First(k) == Enough(k) /\ \A j \in 0 .. k - 1 : ~Fits(Popped(b, j))
           S == {k \in 0 .. n : Enough(k)}
<1>1. n \in Nat
  BY DEF Buffers
<1>2. n \in S /\ S \subseteq Nat
  BY <1>1
<1>3. PICK k \in S : \A m \in S : k <= m
  <2> HIDE DEF S
  <2>1. QED
    BY <1>2, LeastNumber
<1>4. k \in 0 .. n /\ Enough(k)
  BY <1>3
<1>5. ASSUME NEW j \in 0 .. k - 1  PROVE ~Fits(Popped(b, j))
  <2>1. j \in 0 .. n /\ ~(k <= j)
    BY <1>1, <1>4
  <2>2. j \notin S
    BY <1>3, <2>1
  <2>3. QED
    BY <2>1, <2>2
<1>6. First(k)
  BY <1>4, <1>5
<1> DEFINE c == CHOOSE i \in 0 .. n : First(i)
<1> HIDE DEF n, First
<1>7. c \in 0 .. n /\ First(c)
  BY <1>4, <1>6, Zenon
<1>8. Trim(b) = Popped(b, c)
  BY Zenon DEF Trim, First, n
<1>9. QED
  BY <1>7, <1>8, Zenon DEF First, n

\* A merge changes the last frame alone.
LEMMA MergeFacts ==
    ASSUME NEW T, NEW K, NEW b \in Buffers(T, K), b.frames # <<>>,
           NEW num \in Nat, NEW event \in Happening(K)
    PROVE  LET n == Len(b.frames)
               m == MergeDelta(b, num, event)
           IN  /\ m \in Buffers(T, K)
               /\ Len(m.frames) = n
               /\ \A i \in 1 .. n - 1 : m.frames[i] = b.frames[i]
               /\ m.frames[n] = Merged(b.frames[n], num, event)
               /\ m.bytes = b.bytes + event.text
               /\ m.truncated <=> b.truncated
<1> DEFINE n == Len(b.frames)
           f == b.frames[n]
           g == Merged(f, num, event)
           m == [frames |-> [b.frames EXCEPT ![n] = g],
                 bytes |-> b.bytes + event.text, truncated |-> b.truncated]
<1>1. n \in Nat \ {0} /\ DOMAIN b.frames = 1 .. n /\ f \in Kept(T, K)
  BY DEF Buffers
<1>2. g \in Kept(T, K)
  BY <1>1 DEF Kept, Happening, Merged
<1> HIDE DEF g
<1>3. /\ m.frames \in Seq(Kept(T, K)) /\ Len(m.frames) = n
      /\ m.frames[n] = g
      /\ \A i \in 1 .. n - 1 : m.frames[i] = b.frames[i]
  BY <1>1, <1>2 DEF Buffers
<1>4. MergeDelta(b, num, event) = m
  BY DEF MergeDelta, ReplaceAt, g
<1>5. b.bytes + event.text \in Nat /\ b.truncated \in BOOLEAN
  BY DEF Buffers, Happening
<1>6. QED
  BY <1>1, <1>3, <1>4, <1>5 DEF Buffers, g

NewFrame(num, turn, event) ==
    [from |-> num, seq |-> num, turn |-> turn, event |-> event]

\* The buffer a is b with one new frame at the end.
AddsFrame(T, K, a, b, num, turn, event) ==
    LET n == Len(b.frames)
    IN  /\ a \in Buffers(T, K)
        /\ Len(a.frames) = n + 1
        /\ \A i \in 1 .. n : a.frames[i] = b.frames[i]
        /\ a.frames[n + 1] = NewFrame(num, turn, event)
        /\ a.bytes = b.bytes + Wire(event)
        /\ a.truncated <=> b.truncated

\* Pushed adds a frame, before the trimming.
LEMMA PushedFacts ==
    ASSUME NEW T, NEW K, NEW b \in Buffers(T, K),
           NEW num \in Nat, NEW turn \in T, NEW event \in Happening(K)
    PROVE  AddsFrame(T, K, Pushed(b, num, turn, event), b, num, turn, event)
<1> DEFINE n == Len(b.frames)
           new == NewFrame(num, turn, event)
           kept == Append(b.frames, new)
<1>1. b.frames \in Seq(Kept(T, K)) /\ new \in Kept(T, K)
  BY DEF Buffers, Kept, NewFrame
<1>2. Pushed(b, num, turn, event) =
        [frames |-> kept, bytes |-> b.bytes + Wire(event),
         truncated |-> b.truncated]
  BY Zenon DEF Pushed, NewFrame
<1>3. b.bytes + Wire(event) \in Nat /\ b.truncated \in BOOLEAN
  BY BufferBounds DEF Buffers, Happening, Wire
<1> HIDE DEF new
<1>4. /\ kept \in Seq(Kept(T, K)) /\ Len(kept) = n + 1
      /\ \A i \in 1 .. n : kept[i] = b.frames[i]
      /\ kept[n + 1] = new
  BY <1>1
<1> HIDE DEF kept
<1> DEFINE a == Pushed(b, num, turn, event)
<1>5. /\ a \in Buffers(T, K) /\ a.frames = kept
      /\ a.bytes = b.bytes + Wire(event) /\ a.truncated = b.truncated
  BY <1>2, <1>3, <1>4 DEF Buffers
<1> HIDE DEF a
<1>6. AddsFrame(T, K, a, b, num, turn, event)
  BY <1>4, <1>5 DEF AddsFrame, new
<1>7. QED
  BY <1>6 DEF a

\* Frames that follow each other up to the number last assigned.
Contiguous(kept, last) ==
    /\ kept # <<>> => Last(kept).seq = last
    /\ \A i \in 1 .. Len(kept) - 1 : kept[i + 1].from = kept[i].seq + 1

\* The push made the buffer p of b: it continues the numbers, and the oldest
\* frame stays what it was unless the buffer says that it was cut.
PushesOn(T, K, p, b, last, turn, event) ==
    /\ p \in Buffers(T, K)
    /\ Contiguous(p.frames, last + 1)
    /\ ~p.truncated =>
         /\ ~b.truncated
         /\ p.frames # <<>>
         /\ b.frames = <<>> =>
              /\ p.frames[1].turn = turn
              /\ p.frames[1].from = last + 1
              /\ p.frames[1].event.kind = event.kind
         /\ b.frames # <<>> =>
              /\ p.frames[1].turn = b.frames[1].turn
              /\ p.frames[1].from = b.frames[1].from
              /\ p.frames[1].event.kind = b.frames[1].event.kind

\* That is what Push does.
LEMMA PushFacts ==
    ASSUME NEW T, NEW K, NEW b \in Buffers(T, K),
           NEW last \in Nat, NEW turn \in T, NEW event \in Happening(K),
           Contiguous(b.frames, last)
    PROVE  PushesOn(T, K, Push(b, last + 1, turn, event), b, last, turn, event)
<1> DEFINE n == Len(b.frames)
<1>1. /\ b.frames \in Seq(Kept(T, K)) /\ n \in Nat
      /\ b.frames = <<>> <=> n = 0
      /\ last + 1 \in Nat
      /\ n # 0 => b.frames[n].seq = last
      /\ \A i \in 1 .. n : b.frames[i] \in Kept(T, K)
  BY DEF Buffers, Contiguous, Last
<1>2. CASE Mergeable(b, turn, event)
  <2> DEFINE m == MergeDelta(b, last + 1, event)
             g == Merged(b.frames[n], last + 1, event)
  <2>1. b.frames # <<>> /\ Push(b, last + 1, turn, event) = m
    BY <1>2 DEF Push, Mergeable
  <2>2. /\ m \in Buffers(T, K) /\ Len(m.frames) = n
        /\ \A i \in 1 .. n - 1 : m.frames[i] = b.frames[i]
        /\ m.frames[n] = g
        /\ m.truncated <=> b.truncated
    BY <1>1, <2>1, MergeFacts
  <2>3. /\ g.seq = last + 1 /\ g.from = b.frames[n].from
        /\ g.turn = b.frames[n].turn
        /\ g.event.kind = b.frames[n].event.kind
    BY DEF Merged
  <2> HIDE DEF m, g
  <2>4. m.frames \in Seq(Kept(T, K)) /\ m.frames # <<>> /\ Last(m.frames) = g
    BY <1>1, <2>1, <2>2 DEF Buffers, Last
  <2>5. ASSUME NEW i \in 1 .. n - 1
        PROVE  m.frames[i + 1].from = m.frames[i].seq + 1
    <3>1. b.frames[i + 1].from = b.frames[i].seq + 1
      BY DEF Contiguous
    <3>2. m.frames[i] = b.frames[i]
      BY <2>2
    <3>3. m.frames[i + 1].from = b.frames[i + 1].from
      <4>1. CASE i + 1 = n
        BY <2>2, <2>3, <4>1
      <4>2. CASE i + 1 # n
        <5>1. i + 1 \in 1 .. n - 1
          BY <1>1, <4>2
        <5>2. m.frames[i + 1] = b.frames[i + 1]
          BY <2>2, <5>1
        <5>3. QED
          BY <5>2
      <4>3. QED
        BY <4>1, <4>2
    <3>4. QED
      BY <3>1, <3>2, <3>3
  <2>6. Contiguous(m.frames, last + 1)
    BY <2>2, <2>3, <2>4, <2>5 DEF Contiguous
  <2>7. /\ m.frames[1].turn = b.frames[1].turn
        /\ m.frames[1].from = b.frames[1].from
        /\ m.frames[1].event.kind = b.frames[1].event.kind
    BY <1>1, <2>1, <2>2, <2>3
  <2>8. b.frames # <<>> /\ m.truncated = b.truncated
    <3>1. m.truncated \in BOOLEAN /\ b.truncated \in BOOLEAN
      BY <2>2 DEF Buffers
    <3>2. QED
      BY <2>1, <2>2, <3>1
  <2>9. PushesOn(T, K, m, b, last, turn, event)
    BY <2>2, <2>4, <2>6, <2>7, <2>8 DEF PushesOn
  <2>10. QED
    BY <2>1, <2>9
<1>3. CASE ~Mergeable(b, turn, event)
  <2> DEFINE a == Pushed(b, last + 1, turn, event)
             new == NewFrame(last + 1, turn, event)
  <2>1. Push(b, last + 1, turn, event) = Trim(a)
    BY <1>3 DEF Push
  <2>2. /\ a \in Buffers(T, K) /\ Len(a.frames) = n + 1
        /\ \A i \in 1 .. n : a.frames[i] = b.frames[i]
        /\ a.frames[n + 1] = new
        /\ a.truncated <=> b.truncated
    <3>1. last + 1 \in Nat
      OBVIOUS
    <3> DEFINE s == last + 1
    <3> HIDE DEF s
    <3>2. s \in Nat
      BY <3>1 DEF s
    <3>3. AddsFrame(T, K, Pushed(b, s, turn, event), b, s, turn, event)
      BY <3>2, PushedFacts
    <3>4. AddsFrame(T, K, a, b, last + 1, turn, event)
      BY <3>3 DEF s
    <3> HIDE DEF a
    <3>5. QED
      BY <3>4 DEF AddsFrame
  <2>3. new.seq = last + 1 /\ new.from = last + 1 /\ new.turn = turn /\ new.event = event
    BY DEF NewFrame
  <2> HIDE DEF a, new
  <2>4. PICK k \in 0 .. n + 1 : Trim(a) = Popped(a, k)
    BY <2>2, TrimPops
  <2> DEFINE p == Popped(a, k)
  <2>5. /\ p \in Buffers(T, K) /\ Len(p.frames) = n + 1 - k
        /\ \A i \in 1 .. n + 1 - k : p.frames[i] = a.frames[k + i]
        /\ p.truncated <=> (a.truncated \/ k > 0)
        /\ k = 0 => p.frames = a.frames
    BY <2>2, PoppedFacts
  <2> HIDE DEF p
  <2>6. p.frames # <<>> => Last(p.frames) = new
    BY <1>1, <2>2, <2>5 DEF Buffers, Last
  <2>7. ASSUME NEW i \in 1 .. n  PROVE a.frames[i + 1].from = a.frames[i].seq + 1
    <3>1. CASE i = n
      <4>1. a.frames[i + 1] = new /\ a.frames[i] = b.frames[n]
        BY <2>2, <3>1
      <4>2. b.frames[n].seq = last
        BY <1>1, <3>1
      <4>3. QED
        BY <2>3, <4>1, <4>2
    <3>2. CASE i # n
      <4>1. i \in 1 .. n - 1 /\ i + 1 \in 1 .. n
        BY <1>1, <3>2
      <4>2. a.frames[i + 1] = b.frames[i + 1] /\ a.frames[i] = b.frames[i]
        BY <2>2, <4>1
      <4>3. QED
        BY <4>1, <4>2 DEF Contiguous
    <3>3. QED
      BY <3>1, <3>2
  <2>8. ASSUME NEW i \in 1 .. n - k
        PROVE  p.frames[i + 1].from = p.frames[i].seq + 1
    <3>1. k + i \in 1 .. n /\ k + (i + 1) = (k + i) + 1
      BY <1>1
    <3>2. p.frames[i] = a.frames[k + i] /\ p.frames[i + 1] = a.frames[(k + i) + 1]
      BY <1>1, <2>5, <3>1
    <3>3. QED
      BY <2>7, <3>1, <3>2
  <2>9. Contiguous(p.frames, last + 1)
    BY <1>1, <2>3, <2>5, <2>6, <2>8 DEF Contiguous
  <2>10. ASSUME ~p.truncated
         PROVE  /\ ~b.truncated /\ p.frames # <<>>
                /\ n = 0 => p.frames[1] = new
                /\ n # 0 => p.frames[1] = b.frames[1]
    <3>1. ~(k > 0) /\ ~a.truncated
      BY <2>5, <2>10, Zenon
    <3>2. k = 0
      BY <1>1, <3>1
    <3>3. QED
      BY <1>1, <2>2, <2>5, <3>1, <3>2 DEF Buffers
  <2>11. /\ n = 0 => /\ new.turn = turn /\ new.from = last + 1
                     /\ new.event.kind = event.kind
         /\ b.frames = <<>> <=> n = 0
    BY <1>1, <2>3
  <2>12. PushesOn(T, K, p, b, last, turn, event)
    BY <2>5, <2>9, <2>10, <2>11 DEF PushesOn
  <2>13. QED
    BY <2>1, <2>4, <2>12 DEF p
<1>4. QED
  BY <1>2, <1>3

-----------------------------------------------------------------------------
(* What the frames weigh *)

LEMMA WireSumAppend ==
    ASSUME NEW T, NEW K, NEW kept \in Seq(Kept(T, K)), NEW f \in Kept(T, K)
    PROVE  WireSum(Append(kept, f)) = WireSum(kept) + Wire(f.event)
<1> DEFINE n == Len(kept)
           longer == Append(kept, f)
<1>1. /\ n \in Nat /\ longer \in Seq(Kept(T, K)) /\ Len(longer) = n + 1
      /\ \A i \in 1 .. n : longer[i] = kept[i]
      /\ longer[n + 1] = f
  OBVIOUS
<1> HIDE DEF longer
<1>2. /\ Weights(longer) \in Seq(Nat) /\ Len(Weights(longer)) = n + 1
      /\ \A i \in 1 .. n + 1 : Weights(longer)[i] = Wire(longer[i].event)
      /\ WireSum(longer) = Total(Weights(longer))
  BY <1>1, WeightsAreNumbers
<1>3. /\ Weights(kept) \in Seq(Nat) /\ Len(Weights(kept)) = n
      /\ \A i \in 1 .. n : Weights(kept)[i] = Wire(kept[i].event)
      /\ WireSum(kept) = Total(Weights(kept))
  BY WeightsAreNumbers
<1>4. Wire(f.event) \in Nat
  <2>1. Wire(f.event) = Weights(longer)[n + 1]
    BY <1>1, <1>2
  <2>2. QED
    BY <1>1, <1>2, <2>1
<1> DEFINE w == Weights(kept)
           v == Weights(longer)
           x == Wire(f.event)
<1>5. v = Append(w, x)
  <2> HIDE DEF w, v, x
  <2>1. /\ Append(w, x) \in Seq(Nat) /\ Len(Append(w, x)) = n + 1
        /\ \A i \in 1 .. n : Append(w, x)[i] = w[i]
        /\ Append(w, x)[n + 1] = x
    BY <1>3, <1>4 DEF w, x
  <2>2. ASSUME NEW i \in 1 .. n  PROVE v[i] = w[i]
    <3>1. i \in 1 .. n + 1 /\ longer[i] = kept[i]
      BY <1>1
    <3>2. QED
      BY <1>2, <1>3, <3>1 DEF v, w
  <2>3. v[n + 1] = x
    BY <1>1, <1>2 DEF v, x
  <2>4. v \in Seq(Nat) /\ Len(v) = n + 1
    BY <1>2 DEF v
  <2>5. \A i \in 1 .. n + 1 : v[i] = Append(w, x)[i]
    BY <1>1, <2>1, <2>2, <2>3
  <2>6. QED
    BY <2>1, <2>4, <2>5, SeqEqual
<1>6. Total(Append(w, x)) = Total(w) + x
  BY <1>3, <1>4, TotalAppend
<1>7. QED
  BY <1>2, <1>3, <1>5, <1>6 DEF longer

LEMMA WireSumSplit ==
    ASSUME NEW T, NEW K, NEW kept \in Seq(Kept(T, K)), NEW k \in 0 .. Len(kept)
    PROVE  WireSum(kept) = WireSum(SubSeq(kept, 1, k))
                             + WireSum(SubSeq(kept, k + 1, Len(kept)))
<1> DEFINE n == Len(kept)
           w == Weights(kept)
           a == SubSeq(kept, 1, k)
           b == SubSeq(kept, k + 1, n)
<1>1. n \in Nat /\ k \in Nat /\ k <= n
  OBVIOUS
<1>2. /\ w \in Seq(Nat) /\ Len(w) = n
      /\ \A i \in 1 .. n : w[i] = Wire(kept[i].event)
      /\ WireSum(kept) = Total(w)
  BY WeightsAreNumbers
<1>3. /\ a \in Seq(Kept(T, K)) /\ Len(a) = k
      /\ \A i \in 1 .. k : a[i] = kept[i]
  BY CutInTwo
<1>4. /\ b \in Seq(Kept(T, K)) /\ Len(b) = n - k
      /\ \A i \in 1 .. n - k : b[i] = kept[k + i]
  BY CutInTwo
<1> HIDE DEF a, b, w
<1>5. /\ Weights(a) \in Seq(Nat) /\ Len(Weights(a)) = k
      /\ \A i \in 1 .. k : Weights(a)[i] = Wire(a[i].event)
      /\ WireSum(a) = Total(Weights(a))
  <2>0. a \in Seq(Kept(T, K))
    BY <1>3
  <2>1. /\ Weights(a) \in Seq(Nat) /\ Len(Weights(a)) = Len(a)
        /\ \A i \in 1 .. Len(a) : Weights(a)[i] = Wire(a[i].event)
        /\ WireSum(a) = Total(Weights(a))
    BY <2>0, WeightsAreNumbers
  <2>2. Len(a) = k
    BY <1>3
  <2>3. QED
    BY <2>1, <2>2
<1>6. /\ Weights(b) \in Seq(Nat) /\ Len(Weights(b)) = n - k
      /\ \A i \in 1 .. n - k : Weights(b)[i] = Wire(b[i].event)
      /\ WireSum(b) = Total(Weights(b))
  <2>0. b \in Seq(Kept(T, K))
    BY <1>4
  <2>1. /\ Weights(b) \in Seq(Nat) /\ Len(Weights(b)) = Len(b)
        /\ \A i \in 1 .. Len(b) : Weights(b)[i] = Wire(b[i].event)
        /\ WireSum(b) = Total(Weights(b))
    BY <2>0, WeightsAreNumbers
  <2>2. Len(b) = n - k
    BY <1>4
  <2>3. QED
    BY <2>1, <2>2
<1>7. /\ SubSeq(w, 1, k) \in Seq(Nat) /\ Len(SubSeq(w, 1, k)) = k
      /\ \A i \in 1 .. k : SubSeq(w, 1, k)[i] = w[i]
      /\ SubSeq(w, k + 1, n) \in Seq(Nat) /\ Len(SubSeq(w, k + 1, n)) = n - k
      /\ \A i \in 1 .. n - k : SubSeq(w, k + 1, n)[i] = w[k + i]
  <2>1. k \in 0 .. Len(w) /\ w \in Seq(Nat) /\ Len(w) = n
    BY <1>1, <1>2
  <2> HIDE DEF w, n
  <2>2. /\ SubSeq(w, 1, k) \in Seq(Nat) /\ Len(SubSeq(w, 1, k)) = k
        /\ \A i \in 1 .. k : SubSeq(w, 1, k)[i] = w[i]
        /\ SubSeq(w, k + 1, Len(w)) \in Seq(Nat)
        /\ Len(SubSeq(w, k + 1, Len(w))) = Len(w) - k
        /\ \A i \in 1 .. Len(w) - k : SubSeq(w, k + 1, Len(w))[i] = w[k + i]
    BY <2>1, CutInTwo
  <2>3. QED
    BY <2>1, <2>2
<1>8. Weights(a) = SubSeq(w, 1, k)
  <2>1. \A i \in 1 .. k : Weights(a)[i] = w[i]
    BY <1>1, <1>2, <1>3, <1>5
  <2>2. QED
    BY <1>5, <1>7, <2>1, SeqEqual
<1>9. Weights(b) = SubSeq(w, k + 1, n)
  <2>1. ASSUME NEW i \in 1 .. n - k  PROVE Weights(b)[i] = w[k + i]
    <3>1. k + i \in 1 .. n /\ b[i] = kept[k + i]
      BY <1>1, <1>4
    <3>2. QED
      BY <1>2, <1>6, <3>1
  <2>2. QED
    BY <1>6, <1>7, <2>1, SeqEqual
<1>10. Total(w) = Total(SubSeq(w, 1, k)) + Total(SubSeq(w, k + 1, n))
  BY <1>1, <1>2, TotalSplit
<1>11. WireSum(kept) = WireSum(a) + WireSum(b)
  BY <1>2, <1>5, <1>6, <1>8, <1>9, <1>10
<1>12. QED
  BY <1>11 DEF a, b

\* The running count stays at or below what the frames weigh: a merge adds the
\* bare text, which JSON does not shorten.
LEMMA PushUnderWeight ==
    ASSUME NEW T, NEW K, NEW b \in Buffers(T, K),
           NEW num \in Nat, NEW turn \in T, NEW event \in Happening(K),
           event.text <= event.escaped,
           b.bytes <= WireSum(b.frames), Len(b.frames) <= MaxFrames
    PROVE  LET p == Push(b, num, turn, event)
           IN  p.bytes <= WireSum(p.frames) /\ Len(p.frames) <= MaxFrames
<1> DEFINE n == Len(b.frames)
<1>1. b.frames \in Seq(Kept(T, K)) /\ n \in Nat /\ b.bytes \in Nat
  BY DEF Buffers
<1>2. event.text \in Nat /\ event.escaped \in Nat
  BY DEF Happening
<1>3. WireSum(b.frames) \in Nat
  BY <1>1, WeightsAreNumbers
<1>4. CASE Mergeable(b, turn, event)
  <2> DEFINE m == MergeDelta(b, num, event)
             front == SubSeq(b.frames, 1, n - 1)
             f == b.frames[n]
             g == Merged(f, num, event)
  <2>1. b.frames # <<>> /\ Push(b, num, turn, event) = m
    BY <1>4 DEF Push, Mergeable
  <2>2. /\ m \in Buffers(T, K) /\ Len(m.frames) = n
        /\ \A i \in 1 .. n - 1 : m.frames[i] = b.frames[i]
        /\ m.frames[n] = g
        /\ m.bytes = b.bytes + event.text
    BY <2>1, MergeFacts
  <2> HIDE DEF m
  <2>3. m.frames \in Seq(Kept(T, K)) /\ n \in Nat \ {0}
    BY <1>1, <2>1, <2>2 DEF Buffers
  <2>4. /\ front \in Seq(Kept(T, K)) /\ f \in Kept(T, K)
        /\ SubSeq(b.frames, 1, n) = Append(front, f)
    <3>1. n - 1 \in Nat /\ (n - 1) + 1 = n
      BY <2>3
    <3>2. QED
      BY <1>1, <3>1, PartGrows
  <2>5. /\ g \in Kept(T, K)
        /\ SubSeq(m.frames, 1, n) = Append(SubSeq(m.frames, 1, n - 1), g)
    <3>1. n - 1 \in Nat /\ (n - 1) + 1 = n
      BY <2>3
    <3>2. QED
      BY <2>2, <2>3, <3>1, PartGrows
  <2>6. SubSeq(m.frames, 1, n - 1) = front
    <3>1. /\ SubSeq(m.frames, 1, n - 1) \in Seq(Kept(T, K))
          /\ Len(SubSeq(m.frames, 1, n - 1)) = n - 1
          /\ \A i \in 1 .. n - 1 : SubSeq(m.frames, 1, n - 1)[i] = m.frames[i]
      BY <2>2, <2>3
    <3>2. /\ Len(front) = n - 1
          /\ \A i \in 1 .. n - 1 : front[i] = b.frames[i]
      BY <1>1, <2>3
    <3> HIDE DEF front
    <3>3. QED
      BY <2>2, <2>4, <3>1, <3>2, SeqEqual
  <2>7. b.frames = Append(front, f) /\ m.frames = Append(front, g)
    BY <1>1, <2>2, <2>3, <2>4, <2>5, <2>6, SubSeqFull
  <2> HIDE DEF front
  <2>8. /\ WireSum(b.frames) = WireSum(front) + Wire(f.event)
        /\ WireSum(m.frames) = WireSum(front) + Wire(g.event)
        /\ WireSum(front) \in Nat
    <3> HIDE DEF f, g
    <3>1. WireSum(Append(front, f)) = WireSum(front) + Wire(f.event)
      BY <2>4, WireSumAppend
    <3>2. WireSum(Append(front, g)) = WireSum(front) + Wire(g.event)
      BY <2>4, <2>5, WireSumAppend
    <3>3. WireSum(front) \in Nat
      BY <2>4, WeightsAreNumbers
    <3>4. QED
      BY <2>7, <3>1, <3>2, <3>3
  <2>9. Wire(g.event) = Wire(f.event) + event.escaped /\ Wire(f.event) \in Nat
    <3>1. g.event.escaped = f.event.escaped + event.escaped
      BY DEF Merged
    <3> HIDE DEF f, g
    <3>2. f.event.escaped \in Nat
      BY <2>4 DEF Kept, Happening
    <3>3. QED
      BY <1>2, <3>1, <3>2, BufferBounds DEF Wire
  <2>10. WireSum(m.frames) = WireSum(b.frames) + event.escaped
    BY <1>2, <2>8, <2>9
  <2>11. QED
    BY <1>1, <1>2, <1>3, <2>1, <2>2, <2>10
<1>5. CASE ~Mergeable(b, turn, event)
  <2> DEFINE a == Pushed(b, num, turn, event)
             new == NewFrame(num, turn, event)
  <2>1. Push(b, num, turn, event) = Trim(a)
    BY <1>5 DEF Push
  <2>2. /\ a \in Buffers(T, K) /\ Len(a.frames) = n + 1
        /\ a.bytes = b.bytes + Wire(event)
    <3>1. AddsFrame(T, K, a, b, num, turn, event)
      BY PushedFacts
    <3> HIDE DEF a
    <3>2. QED
      BY <3>1 DEF AddsFrame
  <2>3. a.frames = Append(b.frames, new) /\ new \in Kept(T, K) /\ new.event = event
    BY DEF Pushed, Kept, NewFrame
  <2> HIDE DEF a, new
  <2>4. /\ a.frames \in Seq(Kept(T, K)) /\ a.bytes \in Nat
        /\ WireSum(a.frames) = WireSum(b.frames) + Wire(event)
        /\ Wire(event) \in Nat
    BY <1>1, <1>2, <2>2, <2>3, WireSumAppend, BufferBounds DEF Buffers, Wire
  <2>5. a.bytes <= WireSum(a.frames) /\ WireSum(a.frames) \in Nat
    BY <1>1, <1>3, <2>2, <2>4
  <2>6. PICK k \in 0 .. n + 1 :
            /\ Trim(a) = Popped(a, k)
            /\ Fits(Popped(a, k)) \/ k = n + 1
    BY <2>2, TrimPops
  <2> DEFINE p == Popped(a, k)
             front == SubSeq(a.frames, 1, k)
             rest == SubSeq(a.frames, k + 1, n + 1)
             gone == WireSum(front)
  <2>7. /\ WireSum(a.frames) = gone + WireSum(rest)
        /\ gone \in Nat /\ WireSum(rest) \in Nat
    <3>1. k \in 0 .. Len(a.frames)
      BY <2>2
    <3>2. front \in Seq(Kept(T, K)) /\ rest \in Seq(Kept(T, K))
      BY <1>1, <2>2, <2>4
    <3>3. Len(a.frames) = n + 1
      BY <2>2
    <3>4. WireSum(a.frames) = WireSum(SubSeq(a.frames, 1, k))
                              + WireSum(SubSeq(a.frames, k + 1, Len(a.frames)))
      BY <2>4, <3>1, WireSumSplit
    <3> HIDE DEF front, rest
    <3>5. WireSum(front) \in Nat /\ WireSum(rest) \in Nat
      BY <3>2, WeightsAreNumbers
    <3>6. QED
      BY <3>3, <3>4, <3>5 DEF front, rest
  <2>8. p.frames = rest /\ p.bytes = IF gone > a.bytes THEN 0 ELSE a.bytes - gone
    BY <2>2 DEF Popped
  <2> HIDE DEF rest, gone, p
  <2>9. p.bytes <= WireSum(p.frames)
    BY <2>4, <2>5, <2>7, <2>8
  <2>10. Len(p.frames) <= MaxFrames
    <3>1. Len(p.frames) = n + 1 - k
      BY <2>2, PoppedFacts DEF p
    <3>2. CASE Fits(Popped(a, k))
      BY <3>2 DEF Fits, p
    <3>3. CASE k = n + 1
      BY <1>1, <3>1, <3>3, BufferBounds
    <3>4. QED
      BY <2>6, <3>2, <3>3
  <2>11. QED
    BY <2>1, <2>6, <2>9, <2>10 DEF p
<1>6. QED
  BY <1>4, <1>5

-----------------------------------------------------------------------------
(* The numbers and the texts that the frames account for *)

\* Frames carry numbers that rise, each frame at least one.
Rising(kept) ==
    /\ \A i \in 1 .. Len(kept) : kept[i].from <= kept[i].seq
    /\ \A i, j \in 1 .. Len(kept) : i < j => kept[i].seq < kept[j].from

\* Frames that follow each other cover an interval of numbers.
LEMMA CoversAnInterval ==
    ASSUME NEW T, NEW K, NEW kept \in Seq(Kept(T, K)), NEW last \in Nat,
           kept # <<>>, Contiguous(kept, last), Rising(kept)
    PROVE  Covers(kept) = kept[1].from .. last
<1> DEFINE n == Len(kept)
<1>1. /\ n \in Nat \ {0} /\ DOMAIN kept = 1 .. n
      /\ kept[n].seq = last
      /\ \A i \in 1 .. n : kept[i].from \in Nat /\ kept[i].seq \in Nat
  <2>1. n \in Nat \ {0} /\ \A i \in 1 .. n : kept[i] \in Kept(T, K)
    OBVIOUS
  <2>2. QED
    BY <2>1 DEF Kept, Contiguous, Last
<1>2. Covers(kept) = UNION {kept[i].from .. kept[i].seq : i \in 1 .. n}
  BY <1>1 DEF Covers, ToSet
<1>3. ASSUME NEW i \in 1 .. n
      PROVE  kept[1].from <= kept[i].from /\ kept[i].seq <= last
  <2>1. 1 \in 1 .. n /\ n \in 1 .. n
    BY <1>1
  <2>2. kept[1].from <= kept[i].from
    <3>1. CASE i = 1
      BY <1>1, <3>1
    <3>2. CASE 1 < i
      <4>1. kept[1].seq < kept[i].from /\ kept[1].from <= kept[1].seq
        BY <2>1, <3>2 DEF Rising
      <4>2. QED
        BY <1>1, <2>1, <4>1
    <3>3. QED
      BY <1>1, <3>1, <3>2
  <2>3. kept[i].seq <= last
    <3>0. i = n \/ i < n
      <4> HIDE DEF n
      <4>1. QED
        BY <1>1
    <3>1. CASE i = n
      BY <1>1, <3>1
    <3>2. CASE i < n
      <4>1. kept[i].seq < kept[n].from /\ kept[n].from <= kept[n].seq
        BY <2>1, <3>2 DEF Rising
      <4>2. QED
        BY <1>1, <2>1, <4>1
    <3>3. QED
      BY <3>0, <3>1, <3>2
  <2>4. QED
    BY <2>2, <2>3
<1>4. ASSUME NEW i \in 1 .. n, NEW x \in kept[i].from .. kept[i].seq
      PROVE  x \in kept[1].from .. last
  BY <1>1, <1>3
<1>5. ASSUME NEW x \in kept[1].from .. last
      PROVE  \E i \in 1 .. n : x \in kept[i].from .. kept[i].seq
  <2> DEFINE S == {i \in 1 .. n : x <= kept[i].seq}
  <2>1. n \in S /\ S \subseteq Nat
    BY <1>1
  <2>2. PICK i \in S : \A j \in S : i <= j
    <3> HIDE DEF S
    <3>1. QED
      BY <2>1, LeastNumber
  <2>3. i \in 1 .. n /\ x <= kept[i].seq
    BY <2>2
  <2>4. CASE i = 1
    BY <1>1, <2>3, <2>4
  <2>5. CASE i # 1
    <3>1. i - 1 \in 1 .. n - 1 /\ i - 1 \in 1 .. n /\ (i - 1) + 1 = i
      BY <1>1, <2>3, <2>5
    <3>2. i - 1 \notin S
      BY <1>1, <2>2, <2>3
    <3>3. ~(x <= kept[i - 1].seq)
      BY <3>1, <3>2
    <3>4. kept[i].from = kept[i - 1].seq + 1
      BY <3>1 DEF Contiguous
    <3>5. kept[i].from <= x
      BY <1>1, <3>1, <3>3, <3>4
    <3>6. QED
      BY <1>1, <2>3, <3>5
  <2>6. QED
    BY <2>4, <2>5
<1>6. QED
  BY <1>2, <1>4, <1>5

Entries(T, K) == [seq : Nat, turn : T, event : Happening(K)]

\* The text that each entry of a log gives to a frame.
Gives(p, f) ==
    [i \in DOMAIN p |-> IF p[i].seq \in f.from .. f.seq THEN p[i].event.text ELSE 0]

\* A frame tells all that was pushed under its numbers.
TellsAll(p, f) ==
    /\ Total(Gives(p, f)) = f.event.text
    /\ \A i \in DOMAIN p : p[i].seq \in f.from .. f.seq =>
          p[i].turn = f.turn /\ p[i].event.kind = f.event.kind

\* Whether a frame carries a number.
Carries(f, num) == num \in f.from .. f.seq

\* What a new entry of the log adds to the text of any frame.
LEMMA GivesAppend ==
    ASSUME NEW T, NEW K, NEW p \in Seq(Entries(T, K)), NEW e \in Entries(T, K),
           NEW f
    PROVE  /\ Gives(p, f) \in Seq(Nat) /\ Len(Gives(p, f)) = Len(p)
           /\ \A i \in 1 .. Len(p) : ~Carries(f, p[i].seq) => Gives(p, f)[i] = 0
           /\ e.event.text \in Nat
           /\ Total(Gives(p, f)) \in Nat
           /\ Carries(f, e.seq) =>
                Total(Gives(Append(p, e), f)) = Total(Gives(p, f)) + e.event.text
           /\ ~Carries(f, e.seq) =>
                Total(Gives(Append(p, e), f)) = Total(Gives(p, f))
<1> DEFINE n == Len(p)
           q == Append(p, e)
           w(r, i) == IF r[i].seq \in f.from .. f.seq THEN r[i].event.text ELSE 0
           x == IF e.seq \in f.from .. f.seq THEN e.event.text ELSE 0
<1>1. /\ n \in Nat /\ DOMAIN p = 1 .. n
      /\ q \in Seq(Entries(T, K)) /\ DOMAIN q = 1 .. n + 1 /\ Len(q) = n + 1
      /\ \A i \in 1 .. n : q[i] = p[i]
      /\ q[n + 1] = e
  OBVIOUS
<1> HIDE DEF q
<1>2. \A i \in 1 .. n : p[i] \in Entries(T, K)
  OBVIOUS
<1>3. e.event.text \in Nat /\ \A i \in 1 .. n : p[i].event.text \in Nat
  BY <1>2 DEF Entries, Happening
<1>4. x \in Nat /\ \A i \in 1 .. n : w(p, i) \in Nat
  BY <1>3
<1>5. Gives(p, f) = [i \in 1 .. n |-> w(p, i)]
  BY <1>1 DEF Gives
<1>6. Gives(q, f) = [i \in 1 .. n + 1 |-> w(q, i)]
  BY <1>1 DEF Gives
<1> HIDE DEF x
<1>7. /\ Gives(p, f) \in Seq(Nat) /\ Len(Gives(p, f)) = n
      /\ \A i \in 1 .. n : Gives(p, f)[i] = w(p, i)
  <2>1. Gives(p, f) \in Seq(Nat)
    BY <1>1, <1>4, <1>5, IsASeq
  <2>2. DOMAIN Gives(p, f) = 1 .. n
    BY <1>5
  <2>3. QED
    BY <1>1, <1>5, <2>1, <2>2
<1>8. /\ Append(Gives(p, f), x) \in Seq(Nat)
      /\ Len(Append(Gives(p, f), x)) = n + 1
      /\ \A i \in 1 .. n : Append(Gives(p, f), x)[i] = w(p, i)
      /\ Append(Gives(p, f), x)[n + 1] = x
  <2> HIDE DEF w
  <2>1. QED
    BY <1>1, <1>4, <1>7
<1>9. w(q, n + 1) = x /\ \A i \in 1 .. n : w(q, i) = w(p, i)
  BY <1>1 DEF x
<1>10. /\ Gives(q, f) \in Seq(Nat) /\ Len(Gives(q, f)) = n + 1
       /\ \A i \in 1 .. n + 1 : Gives(q, f)[i] = w(q, i)
  <2> HIDE DEF w
  <2>1. \A i \in 1 .. n + 1 : w(q, i) \in Nat
    BY <1>1, <1>4, <1>9
  <2>2. Gives(q, f) \in Seq(Nat)
    BY <1>1, <1>6, <2>1, IsASeq
  <2>3. DOMAIN Gives(q, f) = 1 .. n + 1
    BY <1>6
  <2>4. QED
    BY <1>1, <1>6, <2>2, <2>3
<1>11. Gives(q, f) = Append(Gives(p, f), x)
  <2> HIDE DEF w
  <2>1. \A i \in 1 .. n + 1 : Gives(q, f)[i] = Append(Gives(p, f), x)[i]
    BY <1>1, <1>8, <1>9, <1>10
  <2>2. QED
    BY <1>8, <1>10, <2>1, SeqEqual
<1>12. /\ Carries(f, e.seq) => x = e.event.text
       /\ ~Carries(f, e.seq) => x = 0
  BY DEF x, Carries
<1>13. \A i \in 1 .. Len(p) : ~Carries(f, p[i].seq) => Gives(p, f)[i] = 0
  BY <1>7 DEF Carries
<1>14. Total(Gives(p, f)) \in Nat /\ Total(Gives(q, f)) = Total(Gives(p, f)) + x
  BY <1>4, <1>7, <1>11, TotalAppend
<1>15. QED
  BY <1>3, <1>7, <1>12, <1>13, <1>14 DEF q

\* A frame that is complete tells all the same when later numbers come.
LEMMA OldFrameTellsAll ==
    ASSUME NEW T, NEW K, NEW p \in Seq(Entries(T, K)), NEW e \in Entries(T, K),
           NEW f \in Kept(T, K), f.seq < e.seq, TellsAll(p, f)
    PROVE  TellsAll(Append(p, e), f)
<1> DEFINE q == Append(p, e)
<1>1. /\ DOMAIN p = 1 .. Len(p) /\ DOMAIN q = 1 .. Len(p) + 1 /\ Len(p) \in Nat
      /\ \A i \in 1 .. Len(p) : q[i] = p[i]
      /\ q[Len(p) + 1] = e
  OBVIOUS
<1>2. e.seq \notin f.from .. f.seq /\ ~Carries(f, e.seq)
  BY DEF Kept, Entries, Carries
<1> HIDE DEF q
<1>3. Total(Gives(q, f)) = Total(Gives(p, f))
  <2>1. Total(Gives(Append(p, e), f)) = Total(Gives(p, f))
    BY <1>2, GivesAppend
  <2>2. QED
    BY <2>1 DEF q
<1>4. Total(Gives(q, f)) = f.event.text
  BY <1>3 DEF TellsAll
<1>5. ASSUME NEW i \in DOMAIN q, q[i].seq \in f.from .. f.seq
      PROVE  q[i].turn = f.turn /\ q[i].event.kind = f.event.kind
  <2>1. i \in 1 .. Len(p)
    BY <1>1, <1>2, <1>5
  <2>2. q[i] = p[i] /\ i \in DOMAIN p
    BY <1>1, <2>1
  <2>3. QED
    BY <1>5, <2>2 DEF TellsAll
<1>6. TellsAll(q, f)
  BY <1>4, <1>5 DEF TellsAll
<1>7. QED
  BY <1>6 DEF q

\* A merged frame tells what it told and the new entry.
LEMMA MergedFrameTellsAll ==
    ASSUME NEW T, NEW K, NEW p \in Seq(Entries(T, K)), NEW e \in Entries(T, K),
           NEW f \in Kept(T, K), TellsAll(p, f),
           f.from <= f.seq, e.seq = f.seq + 1,
           e.turn = f.turn, e.event.kind = f.event.kind,
           \A i \in DOMAIN p : p[i].seq <= f.seq
    PROVE  TellsAll(Append(p, e), Merged(f, e.seq, e.event))
<1> DEFINE q == Append(p, e)
           g == Merged(f, e.seq, e.event)
<1>1. /\ DOMAIN p = 1 .. Len(p) /\ DOMAIN q = 1 .. Len(p) + 1 /\ Len(p) \in Nat
      /\ \A i \in 1 .. Len(p) : q[i] = p[i]
      /\ q[Len(p) + 1] = e
      /\ \A i \in 1 .. Len(p) : p[i] \in Entries(T, K)
  OBVIOUS
<1>2. /\ f.from \in Nat /\ f.seq \in Nat /\ e.seq \in Nat /\ e.event.text \in Nat
      /\ f.event.text \in Nat /\ \A i \in 1 .. Len(p) : p[i].seq \in Nat
  BY <1>1 DEF Kept, Entries, Happening
<1>3. /\ g.from = f.from /\ g.seq = e.seq /\ g.turn = f.turn
      /\ g.event.kind = f.event.kind
      /\ g.event.text = f.event.text + e.event.text
  BY DEF Merged
<1> HIDE DEF q, g
<1>4. \A i \in 1 .. Len(p) : p[i].seq \in g.from .. g.seq <=> p[i].seq \in f.from .. f.seq
  BY <1>1, <1>2, <1>3
<1>5. Gives(p, g) = Gives(p, f)
  BY <1>1, <1>4 DEF Gives
<1>6. Carries(g, e.seq)
  BY <1>2, <1>3 DEF Carries
<1>7. Total(Gives(q, g)) = Total(Gives(p, f)) + e.event.text
  <2>1. Total(Gives(Append(p, e), g)) = Total(Gives(p, g)) + e.event.text
    BY <1>6, GivesAppend
  <2>2. Total(Gives(q, g)) = Total(Gives(p, g)) + e.event.text
    BY <2>1 DEF q
  <2>3. QED
    BY <1>5, <2>2
<1>8. Total(Gives(q, g)) = g.event.text
  BY <1>3, <1>7 DEF TellsAll
<1>9. ASSUME NEW i \in DOMAIN q, q[i].seq \in g.from .. g.seq
      PROVE  q[i].turn = g.turn /\ q[i].event.kind = g.event.kind
  <2>1. CASE i = Len(p) + 1
    BY <1>1, <1>3, <2>1
  <2>2. CASE i \in 1 .. Len(p)
    BY <1>1, <1>3, <1>4, <1>9, <2>2 DEF TellsAll
  <2>3. QED
    BY <1>1, <2>1, <2>2
<1>10. TellsAll(q, g)
  BY <1>8, <1>9 DEF TellsAll
<1>11. QED
  BY <1>10 DEF q, g

\* A frame of its own tells its one entry.
LEMMA NewFrameTellsAll ==
    ASSUME NEW T, NEW K, NEW p \in Seq(Entries(T, K)), NEW e \in Entries(T, K),
           \A i \in DOMAIN p : p[i].seq < e.seq
    PROVE  TellsAll(Append(p, e), NewFrame(e.seq, e.turn, e.event))
<1> DEFINE q == Append(p, e)
           g == NewFrame(e.seq, e.turn, e.event)
<1>1. /\ DOMAIN p = 1 .. Len(p) /\ DOMAIN q = 1 .. Len(p) + 1 /\ Len(p) \in Nat
      /\ \A i \in 1 .. Len(p) : q[i] = p[i]
      /\ q[Len(p) + 1] = e
      /\ \A i \in 1 .. Len(p) : p[i] \in Entries(T, K)
  OBVIOUS
<1>2. /\ e.seq \in Nat /\ e.event.text \in Nat
      /\ \A i \in 1 .. Len(p) : p[i].seq \in Nat
  BY <1>1 DEF Entries, Happening
<1>3. /\ g.from = e.seq /\ g.seq = e.seq /\ g.turn = e.turn /\ g.event = e.event
  BY DEF NewFrame
<1> HIDE DEF q, g
<1>4. \A i \in 1 .. Len(p) : p[i].seq \notin g.from .. g.seq
  BY <1>1, <1>2, <1>3
<1>5. Carries(g, e.seq)
  BY <1>2, <1>3 DEF Carries
<1>6. Total(Gives(p, g)) = 0
  <2>1. /\ Gives(p, g) \in Seq(Nat) /\ Len(Gives(p, g)) = Len(p)
        /\ \A i \in 1 .. Len(p) : ~Carries(g, p[i].seq) => Gives(p, g)[i] = 0
    BY GivesAppend
  <2>2. \A i \in 1 .. Len(Gives(p, g)) : Gives(p, g)[i] = 0
    BY <1>4, <2>1 DEF Carries
  <2>3. QED
    BY <2>1, <2>2, TotalZero
<1>7. Total(Gives(q, g)) = e.event.text
  <2>1. Total(Gives(Append(p, e), g)) = Total(Gives(p, g)) + e.event.text
    BY <1>5, GivesAppend
  <2>2. Total(Gives(q, g)) = Total(Gives(p, g)) + e.event.text
    BY <2>1 DEF q
  <2>3. QED
    BY <1>2, <1>6, <2>2
<1>8. ASSUME NEW i \in DOMAIN q, q[i].seq \in g.from .. g.seq
      PROVE  q[i].turn = g.turn /\ q[i].event.kind = g.event.kind
  <2>1. i = Len(p) + 1
    BY <1>1, <1>4, <1>8
  <2>2. QED
    BY <1>1, <1>3, <2>1
<1>9. TellsAll(q, g)
  BY <1>3, <1>7, <1>8 DEF TellsAll
<1>10. QED
  BY <1>9 DEF q, g

-----------------------------------------------------------------------------
(* The invariant of the pushes *)

\* The buffer goes back to the first number pushed since it was cleared, or
\* says that it does not.
CutIsMarked ==
    LET first == number - Len(pushed) + 1
    IN  /\ buffer.truncated => pushed # <<>>
        /\ buffer.truncated /\ buffer.frames # <<>> => buffer.frames[1].from > first
        /\ ~buffer.truncated /\ buffer.frames = <<>> => pushed = <<>>
        /\ ~buffer.truncated /\ buffer.frames # <<>> => buffer.frames[1].from = first

PushesInv ==
    /\ buffer \in Buffers(Turns, Kinds)
    /\ number \in 0 .. MaxPushes
    /\ pushed \in Seq(Entries(Turns, Kinds))
    /\ Len(pushed) <= number
    /\ \A i \in 1 .. Len(pushed) : pushed[i].seq = number - Len(pushed) + i
    /\ Contiguous(buffer.frames, number)
    /\ Rising(buffer.frames)
    /\ \A i \in 1 .. Len(buffer.frames) : TellsAll(pushed, buffer.frames[i])
    /\ CutIsMarked
    /\ NothingDroppedInVain

LEMMA EventsHappen ==
    \A event \in Events : event \in Happening(Kinds) /\ event.text <= event.escaped
<1>1. ASSUME NEW n \in 0 .. MaxText, NEW w \in {1, 2}
      PROVE  n \in Nat /\ w * n \in Nat /\ n <= w * n
  BY PushesBounds
<1>2. ASSUME NEW n \in {0, 2 * MaxText}  PROVE n \in Nat
  BY PushesBounds
<1>3. QED
  BY <1>1, <1>2, PushesBounds DEF Events, Happening

LEMMA EmptyIsABuffer ==
    /\ Empty \in Buffers(Turns, Kinds)
    /\ Empty.frames = <<>> /\ ~Empty.truncated
    /\ Empty.bytes <= WireSum(Empty.frames) /\ Len(Empty.frames) <= MaxFrames
<1>1. <<>> \in Seq(Kept(Turns, Kinds)) /\ Len(<<>>) = 0
  OBVIOUS
<1>2. WireSum(<<>>) \in Nat
  BY <1>1, WeightsAreNumbers
<1>3. QED
  BY <1>1, <1>2, BufferBounds DEF Empty, Buffers

\* Clearing forgets the frames and the log together.
LEMMA ClearedInv ==
    ASSUME number' \in 0 .. MaxPushes, buffer' = Empty, pushed' = <<>>
    PROVE  PushesInv'
<1>1. /\ <<>> \in Seq(Entries(Turns, Kinds)) /\ Len(<<>>) = 0
      /\ number' \in Nat
  BY PushesBounds
<1>2. Contiguous(<<>>, number') /\ Rising(<<>>)
  BY <1>1 DEF Contiguous, Rising
<1> HIDE DEF Empty
<1>3. QED
  BY <1>1, <1>2, EmptyIsABuffer
     DEF PushesInv, CutIsMarked, NothingDroppedInVain

LEMMA PushStep ==
    ASSUME PushesInv, NEW turn \in Turns, NEW event \in Events,
           PushEvent(turn, event)
    PROVE  PushesInv'
<1> DEFINE T == Turns
           K == Kinds
           b == buffer
           n == Len(b.frames)
           N == Len(pushed)
           e == [seq |-> number + 1, turn |-> turn, event |-> event]
           p == Push(b, number + 1, turn, event)
           since == Append(pushed, e)
<1>1. /\ number' = number + 1 /\ buffer' = p /\ pushed' = since
      /\ number < MaxPushes
  BY DEF PushEvent
<1>2. /\ b \in Buffers(T, K) /\ b.frames \in Seq(Kept(T, K)) /\ n \in Nat
      /\ number \in Nat /\ number + 1 \in 0 .. MaxPushes
      /\ pushed \in Seq(Entries(T, K)) /\ N \in Nat /\ N <= number
      /\ \A i \in 1 .. N : pushed[i].seq = number - N + i
      /\ Contiguous(b.frames, number) /\ Rising(b.frames)
      /\ \A i \in 1 .. n : b.frames[i] \in Kept(T, K) /\ TellsAll(pushed, b.frames[i])
  BY <1>1, PushesBounds DEF PushesInv, Buffers
<1>3. event \in Happening(K) /\ event.text <= event.escaped
  BY EventsHappen
<1>4. e \in Entries(T, K) /\ e.seq = number + 1 /\ e.turn = turn /\ e.event = event
  BY <1>2, <1>3 DEF Entries
<1> HIDE DEF e
<1>5. /\ since \in Seq(Entries(T, K)) /\ Len(since) = N + 1
      /\ \A i \in 1 .. N : since[i] = pushed[i]
      /\ since[N + 1] = e
      /\ since # <<>>
  BY <1>2, <1>4
<1>6. ASSUME NEW i \in 1 .. N + 1  PROVE since[i].seq = (number + 1) - (N + 1) + i
  <2> HIDE DEF since
  <2>1. CASE i \in 1 .. N
    <3>1. since[i].seq = number - N + i
      BY <1>2, <1>5, <2>1
    <3>2. QED
      BY <1>2, <2>1, <3>1
  <2>2. CASE i = N + 1
    <3>1. since[i].seq = number + 1
      BY <1>4, <1>5, <2>2
    <3>2. QED
      BY <1>2, <2>2, <3>1
  <2>3. QED
    BY <1>2, <2>1, <2>2
<1>7. /\ p \in Buffers(T, K)
      /\ Contiguous(p.frames, number + 1)
      /\ ~p.truncated => p.frames # <<>>
  <2>1. PushesOn(T, K, p, b, number, turn, event)
    BY <1>2, <1>3, PushFacts
  <2> HIDE DEF p
  <2>2. QED
    BY <2>1 DEF PushesOn
<1>8. p.bytes <= WireSum(p.frames) /\ Len(p.frames) <= MaxFrames
  BY <1>2, <1>3, PushUnderWeight DEF PushesInv, NothingDroppedInVain
<1>9. \A i \in 1 .. n : /\ b.frames[i].seq \in Nat /\ b.frames[i].from \in Nat
                        /\ b.frames[i].seq <= number
                        /\ b.frames[i].from <= b.frames[i].seq
  <2>1. \A i \in 1 .. n : b.frames[i].seq \in Nat /\ b.frames[i].from \in Nat
    BY <1>2 DEF Kept
  <2>2. n # 0 => b.frames[n].seq = number
    BY <1>2 DEF Contiguous, Last
  <2>3. ASSUME NEW i \in 1 .. n  PROVE b.frames[i].seq <= number
    <3>1. CASE i = n
      BY <1>2, <2>2, <3>1
    <3>2. CASE i < n
      <4>1. b.frames[i].seq < b.frames[n].from /\ b.frames[n].from <= b.frames[n].seq
        BY <1>2, <3>2 DEF Rising
      <4>2. n # 0 /\ n \in 1 .. n
        BY <1>2
      <4>3. /\ b.frames[i].seq \in Nat /\ b.frames[n].seq \in Nat
            /\ b.frames[n].from \in Nat /\ b.frames[n].seq = number
        BY <2>1, <2>2, <4>2
      <4>4. QED
        BY <4>1, <4>3
    <3>3. QED
      BY <1>2, <3>1, <3>2
  <2>4. QED
    BY <1>2, <2>1, <2>3 DEF Rising
<1>10. \A i \in DOMAIN pushed : pushed[i].seq <= number /\ pushed[i].seq < e.seq
  BY <1>2, <1>4
<1>11. ASSUME NEW i \in 1 .. n  PROVE TellsAll(since, b.frames[i])
  BY <1>2, <1>4, <1>9, OldFrameTellsAll
<1> HIDE DEF p, since
<1>12. /\ Rising(p.frames)
       /\ \A i \in 1 .. Len(p.frames) : TellsAll(since, p.frames[i])
       /\ LET first == (number + 1) - (N + 1) + 1
          IN  /\ p.truncated /\ p.frames # <<>> => p.frames[1].from > first
              /\ ~p.truncated /\ p.frames # <<>> => p.frames[1].from = first
  <2>0. (number + 1) - (N + 1) + 1 = number - N + 1 /\ number - N + 1 \in Nat
    BY <1>2
  <2>1. CASE Mergeable(b, turn, event)
    <3> DEFINE f == b.frames[n]
               g == Merged(f, number + 1, event)
    <3>1. b.frames # <<>> /\ p = MergeDelta(b, number + 1, event) /\ n \in 1 .. n
      BY <1>2, <2>1 DEF p, Push, Mergeable
    <3>2. /\ Len(p.frames) = n
          /\ \A i \in 1 .. n - 1 : p.frames[i] = b.frames[i]
          /\ p.frames[n] = g
          /\ p.truncated <=> b.truncated
      BY <1>2, <1>3, <3>1, MergeFacts
    <3>3. g.from = f.from /\ g.seq = number + 1
      BY DEF Merged
    <3>4. /\ f.turn = turn /\ f.event.kind = event.kind /\ f.seq = number
          /\ f.from <= f.seq /\ f \in Kept(T, K)
      BY <1>2, <1>9, <2>1, <3>1 DEF Mergeable, Last, Contiguous
    <3>5. TellsAll(since, g)
      BY <1>2, <1>4, <1>10, <3>1, <3>4, MergedFrameTellsAll DEF since
    <3> HIDE DEF g
    <3>6. ASSUME NEW i \in 1 .. n
          PROVE  /\ TellsAll(since, p.frames[i])
                 /\ p.frames[i].from = b.frames[i].from
                 /\ p.frames[i].from <= p.frames[i].seq
      <4>1. CASE i \in 1 .. n - 1
        <5>1. p.frames[i] = b.frames[i]
          BY <3>2, <4>1
        <5>2. QED
          BY <1>9, <1>11, <5>1
      <4>2. CASE i = n
        <5>1. p.frames[i] = g /\ b.frames[i] = f
          BY <3>2, <4>2
        <5>2. f.from <= number + 1
          <6>1. f.from \in Nat
            BY <3>4 DEF Kept
          <6>2. QED
            BY <1>2, <3>4, <6>1
        <5>3. QED
          BY <3>3, <3>5, <5>1, <5>2
      <4>3. QED
        BY <1>2, <4>1, <4>2
    <3>7. \A i \in 1 .. n : p.frames[i].from = b.frames[i].from
      BY <3>6
    <3>8. Rising(p.frames)
      <4>1. ASSUME NEW i \in 1 .. n  PROVE p.frames[i].from <= p.frames[i].seq
        BY <3>6
      <4>2. ASSUME NEW i \in 1 .. n, NEW j \in 1 .. n, i < j
            PROVE  p.frames[i].seq < p.frames[j].from
        <5>1. p.frames[i] = b.frames[i]
          BY <1>2, <3>2, <4>2
        <5>2. b.frames[i].seq < b.frames[j].from
          BY <1>2, <4>2 DEF Rising
        <5>3. QED
          BY <3>7, <5>1, <5>2
      <4>3. QED
        BY <3>2, <4>1, <4>2 DEF Rising
    <3>9. 1 \in 1 .. n /\ p.frames[1].from = b.frames[1].from
      BY <1>2, <3>1, <3>7
    <3>10. QED
      BY <2>0, <3>1, <3>2, <3>6, <3>8, <3>9 DEF PushesInv, CutIsMarked
  <2>2. CASE ~Mergeable(b, turn, event)
    <3> DEFINE a == Pushed(b, number + 1, turn, event)
               new == NewFrame(number + 1, turn, event)
    <3>1. p = Trim(a)
      BY <2>2 DEF p, Push
    <3>2. /\ a \in Buffers(T, K) /\ Len(a.frames) = n + 1
          /\ \A i \in 1 .. n : a.frames[i] = b.frames[i]
          /\ a.frames[n + 1] = new
          /\ a.truncated <=> b.truncated
      <4>1. b \in Buffers(T, K) /\ number + 1 \in Nat /\ turn \in T /\ event \in Happening(K)
        BY <1>2, <1>3
      <4> HIDE DEF T, K, b
      <4>2. AddsFrame(T, K, a, b, number + 1, turn, event)
        BY <4>1, PushedFacts
      <4> HIDE DEF a
      <4>3. QED
        BY <4>2 DEF AddsFrame
    <3>3. TellsAll(since, new)
      BY <1>2, <1>4, <1>10, NewFrameTellsAll DEF since
    <3>4. new.from = number + 1 /\ new.seq = number + 1
      BY DEF NewFrame
    <3> HIDE DEF a, new
    <3>5. PICK k \in 0 .. n + 1 : Trim(a) = Popped(a, k)
      BY <3>2, TrimPops
    <3>6. /\ Len(p.frames) = n + 1 - k
          /\ \A i \in 1 .. n + 1 - k : p.frames[i] = a.frames[k + i]
          /\ p.truncated <=> (a.truncated \/ k > 0)
      <4>1. k \in 0 .. Len(a.frames)
        BY <1>2, <3>2
      <4>2. p = Popped(a, k)
        BY <3>1, <3>5
      <4>3. /\ Len(p.frames) = Len(a.frames) - k
            /\ \A i \in 1 .. Len(a.frames) - k : p.frames[i] = a.frames[k + i]
            /\ p.truncated <=> (a.truncated \/ k > 0)
        <5> DEFINE r == Popped(a, k)
        <5>1. /\ Len(r.frames) = Len(a.frames) - k
              /\ \A i \in 1 .. Len(a.frames) - k : r.frames[i] = a.frames[k + i]
              /\ r.truncated <=> (a.truncated \/ k > 0)
          BY <3>2, <4>1, PoppedFacts
        <5>2. QED
          BY <4>2, <5>1
      <4>4. QED
        BY <3>2, <4>3
    <3>7. ASSUME NEW i \in 1 .. n + 1
          PROVE  /\ TellsAll(since, a.frames[i])
                 /\ a.frames[i].from <= a.frames[i].seq
      <4>1. CASE i \in 1 .. n
        <5>1. a.frames[i] = b.frames[i]
          BY <3>2, <4>1
        <5>2. QED
          BY <1>9, <1>11, <4>1, <5>1
      <4>2. CASE i = n + 1
        <5>1. a.frames[i] = new
          BY <3>2, <4>2
        <5>2. number + 1 <= number + 1
          BY <1>2
        <5>3. QED
          BY <3>3, <3>4, <5>1, <5>2
      <4>3. QED
        BY <1>2, <4>1, <4>2
    <3>8. Rising(a.frames)
      <4>1. ASSUME NEW i \in 1 .. n + 1  PROVE a.frames[i].from <= a.frames[i].seq
        BY <3>7
      <4>2. ASSUME NEW i \in 1 .. n + 1, NEW j \in 1 .. n + 1, i < j
            PROVE  a.frames[i].seq < a.frames[j].from
        <5>1. i \in 1 .. n /\ a.frames[i] = b.frames[i]
          BY <1>2, <3>2, <4>2
        <5>2. CASE j = n + 1
          <6>1. a.frames[j].from = number + 1
            BY <3>2, <3>4, <5>2
          <6>2. b.frames[i].seq \in Nat /\ b.frames[i].seq <= number
            BY <1>9, <5>1
          <6>3. QED
            BY <1>2, <5>1, <6>1, <6>2
        <5>3. CASE j \in 1 .. n
          BY <3>2, <4>2, <5>1, <5>3, <1>2 DEF Rising
        <5>4. QED
          BY <1>2, <5>2, <5>3
      <4>3. QED
        BY <3>2, <4>1, <4>2 DEF Rising
    <3>9. \A i \in 1 .. Len(p.frames) : k + i \in 1 .. n + 1 /\ p.frames[i] = a.frames[k + i]
      BY <1>2, <3>6
    <3>10. \A i \in 1 .. Len(p.frames) : TellsAll(since, p.frames[i])
      BY <3>7, <3>9
    <3>11. Rising(p.frames)
      <4>1. ASSUME NEW i \in 1 .. Len(p.frames)
            PROVE  p.frames[i].from <= p.frames[i].seq
        BY <3>2, <3>8, <3>9 DEF Rising
      <4>2. ASSUME NEW i \in 1 .. Len(p.frames), NEW j \in 1 .. Len(p.frames), i < j
            PROVE  p.frames[i].seq < p.frames[j].from
        <5>1. k + i < k + j
          BY <1>2, <3>6, <4>2
        <5>2. a.frames[k + i].seq < a.frames[k + j].from
          BY <3>2, <3>8, <3>9, <5>1 DEF Rising
        <5>3. QED
          BY <3>9, <5>2
      <4>3. QED
        BY <4>1, <4>2 DEF Rising
    <3> DEFINE first == number - N + 1
    <3>12. /\ n # 0 /\ b.truncated => b.frames[1].from > first
           /\ n # 0 /\ ~b.truncated => b.frames[1].from = first
           /\ b.truncated => N # 0
           /\ n = 0 /\ ~b.truncated => N = 0
      BY <1>2 DEF PushesInv, CutIsMarked
    <3>13. /\ a.truncated => a.frames[1].from > first
           /\ ~a.truncated => a.frames[1].from = first
           /\ a.frames[1].from >= first
           /\ a.frames[1].from \in Nat
      <4>1. CASE n = 0
        BY <1>2, <3>2, <3>4, <3>12, <4>1
      <4>2. CASE n # 0
        <5>1. 1 \in 1 .. n /\ a.frames[1] = b.frames[1]
          BY <1>2, <3>2, <4>2
        <5>2. QED
          BY <1>2, <1>9, <2>0, <3>2, <3>12, <4>2, <5>1
      <4>3. QED
        BY <4>1, <4>2
    <3>14. ASSUME p.frames # <<>>
           PROVE  /\ p.truncated => p.frames[1].from > first
                  /\ ~p.truncated => p.frames[1].from = first
      <4>1. 1 \in 1 .. Len(p.frames) /\ p.frames[1] = a.frames[k + 1] /\ k \in Nat
        <5>1. p.frames \in Seq(Kept(T, K))
          BY <1>7 DEF Buffers
        <5>2. QED
          BY <3>9, <3>14, <5>1
      <4>2. CASE k = 0
        BY <1>2, <3>6, <3>13, <4>1, <4>2
      <4>3. CASE k > 0
        <5>1. 1 \in 1 .. n + 1 /\ k + 1 \in 1 .. n + 1 /\ 1 < k + 1
          BY <1>2, <3>9, <4>1, <4>3
        <5>2. a.frames[1].from <= a.frames[1].seq /\ a.frames[1].seq < a.frames[k + 1].from
          BY <3>2, <3>8, <5>1 DEF Rising
        <5>3. a.frames[1].seq \in Nat /\ a.frames[k + 1].from \in Nat
          <6>1. a.frames[1] \in Kept(T, K) /\ a.frames[k + 1] \in Kept(T, K)
            BY <3>2, <5>1 DEF Buffers
          <6>2. QED
            BY <6>1 DEF Kept
        <5>4. p.frames[1].from > first
          <6>1. a.frames[1].from >= first /\ a.frames[1].from \in Nat /\ first \in Nat
            BY <1>2, <2>0, <3>13
          <6>2. p.frames[1].from = a.frames[k + 1].from
            BY <4>1
          <6>3. QED
            BY <5>2, <5>3, <6>1, <6>2
        <5>5. p.truncated
          BY <3>6, <4>3
        <5>6. QED
          BY <5>4, <5>5
      <4>4. QED
        BY <4>1, <4>2, <4>3
    <3>15. QED
      BY <2>0, <3>10, <3>11, <3>14
  <2>3. QED
    BY <2>1, <2>2
<1>13. ~p.truncated => p.frames # <<>>
  BY <1>7
<1>14. CutIsMarked'
  BY <1>1, <1>5, <1>12, <1>13 DEF CutIsMarked
<1>15. NothingDroppedInVain'
  BY <1>1, <1>8 DEF NothingDroppedInVain
<1>16. /\ buffer' \in Buffers(Turns, Kinds) /\ number' \in 0 .. MaxPushes
       /\ pushed' \in Seq(Entries(Turns, Kinds)) /\ Len(pushed') <= number'
       /\ \A i \in 1 .. Len(pushed') : pushed'[i].seq = number' - Len(pushed') + i
  BY <1>1, <1>2, <1>5, <1>6, <1>7
<1>17. /\ Contiguous(buffer'.frames, number') /\ Rising(buffer'.frames)
       /\ \A i \in 1 .. Len(buffer'.frames) : TellsAll(pushed', buffer'.frames[i])
  BY <1>1, <1>7, <1>12
<1>18. QED
  BY <1>14, <1>15, <1>16, <1>17 DEF PushesInv

\* Every reachable buffer satisfies the invariant.
THEOREM PushesInvariant == PushesSpec => []PushesInv
<1>1. PushesInit => PushesInv
  <2> SUFFICES ASSUME PushesInit  PROVE PushesInv
    OBVIOUS
  <2>1. /\ buffer = Empty /\ number = 0 /\ pushed = <<>>
        /\ number \in 0 .. MaxPushes
    BY PushesBounds DEF PushesInit
  <2>2. /\ <<>> \in Seq(Entries(Turns, Kinds)) /\ Len(<<>>) = 0
    OBVIOUS
  <2>3. Contiguous(<<>>, number) /\ Rising(<<>>)
    BY <2>2 DEF Contiguous, Rising
  <2> HIDE DEF Empty
  <2>4. QED
    BY <2>1, <2>2, <2>3, EmptyIsABuffer
       DEF PushesInv, CutIsMarked, NothingDroppedInVain
<1>2. PushesInv /\ [PushesNext]_pushes => PushesInv'
  <2> SUFFICES ASSUME PushesInv, [PushesNext]_pushes  PROVE PushesInv'
    OBVIOUS
  <2>1. CASE \E turn \in Turns, event \in Events : PushEvent(turn, event)
    BY <2>1, PushStep
  <2>2. CASE Clear
    <3>1. number' \in 0 .. MaxPushes /\ buffer' = Empty /\ pushed' = <<>>
      BY <2>2 DEF Clear, PushesInv
    <3>2. QED
      BY <3>1, ClearedInv
  <2>3. CASE UNCHANGED pushes
    BY <2>3 DEF pushes, PushesInv, CutIsMarked, NothingDroppedInVain
  <2>4. QED
    BY <2>1, <2>2, <2>3 DEF PushesNext
<1>3. QED
  BY <1>1, <1>2, PTL DEF PushesSpec

-----------------------------------------------------------------------------
(* What the invariant gives *)

\* The fields of the buffer keep their types.
LEMMA InvGivesTypes ==
    ASSUME PushesInv
    PROVE  PushesTypeOK
<1>1. \A i \in DOMAIN buffer.frames : buffer.frames[i] \in Kept(Turns, Kinds)
  BY DEF PushesInv, Buffers
<1>2. QED
  BY <1>1 DEF PushesInv, PushesTypeOK, Buffers, Kept, Happening

\* A snapshot has no hole in it and tells nothing twice.
LEMMA InvGivesNoHole ==
    ASSUME PushesInv
    PROVE  SnapshotHasNoHole
<1> DEFINE kept == buffer.frames
<1>1. /\ kept \in Seq(Kept(Turns, Kinds)) /\ DOMAIN kept = 1 .. Len(kept)
      /\ Contiguous(kept, number)
      /\ \A i \in 1 .. Len(kept) : TellsAll(pushed, kept[i])
  BY DEF PushesInv, Buffers
<1> HIDE DEF kept
<1>2. ASSUME NEW f, TellsAll(pushed, f)
      PROVE  /\ TextOf(f) = f.event.text
             /\ \A k \in Carried(f) :
                    pushed[k].turn = f.turn /\ pushed[k].event.kind = f.event.kind
  <2>1. TextOf(f) = Total(Gives(pushed, f))
    <3>1. \A i \in DOMAIN pushed :
              i \in Carried(f) <=> pushed[i].seq \in f.from .. f.seq
      BY DEF Carried
    <3>2. [i \in DOMAIN pushed |->
              IF i \in Carried(f) THEN pushed[i].event.text ELSE 0] = Gives(pushed, f)
      BY <3>1, Zenon DEF Gives
    <3>3. QED
      BY <3>2, Zenon DEF TextOf
  <2>2. QED
    BY <1>2, <2>1 DEF TellsAll, Carried
<1>3. \A i \in DOMAIN kept :
        /\ TextOf(kept[i]) = kept[i].event.text
        /\ \A k \in Carried(kept[i]) :
              /\ pushed[k].turn = kept[i].turn
              /\ pushed[k].event.kind = kept[i].event.kind
  BY <1>1, <1>2
<1>4. QED
  BY <1>1, <1>3 DEF SnapshotHasNoHole, Contiguous, kept

\* The numbers pushed since the buffer was cleared end with the last assigned.
LEMMA LogIsAnInterval ==
    ASSUME PushesInv
    PROVE  {entry.seq : entry \in ToSet(pushed)}
               = number - Len(pushed) + 1 .. number
<1> DEFINE N == Len(pushed)
<1>1. /\ pushed \in Seq(Entries(Turns, Kinds)) /\ DOMAIN pushed = 1 .. N
      /\ N \in Nat /\ number \in Nat /\ N <= number
      /\ \A i \in 1 .. N : pushed[i].seq = number - N + i
  BY PushesBounds DEF PushesInv
<1>2. {entry.seq : entry \in ToSet(pushed)} = {pushed[i].seq : i \in 1 .. N}
  BY <1>1 DEF ToSet
<1> HIDE DEF N
<1>3. ASSUME NEW m \in number - N + 1 .. number
      PROVE  \E i \in 1 .. N : pushed[i].seq = m
  <2>1. m - (number - N) \in 1 .. N
    BY <1>1
  <2>2. pushed[m - (number - N)].seq = number - N + (m - (number - N))
    BY <1>1, <2>1
  <2>3. number - N + (m - (number - N)) = m
    BY <1>1
  <2>4. QED
    BY <2>1, <2>2, <2>3
<1>4. \A i \in 1 .. N : pushed[i].seq \in number - N + 1 .. number
  BY <1>1
<1>5. {pushed[i].seq : i \in 1 .. N} = number - N + 1 .. number
  BY <1>3, <1>4
<1>6. QED
  BY <1>2, <1>5 DEF N

\* truncated is exactly the absence of something pushed.
LEMMA InvGivesReports ==
    ASSUME PushesInv
    PROVE  HolesAreReported
<1> DEFINE kept == buffer.frames
           N == Len(pushed)
           first == number - N + 1
           all == {entry.seq : entry \in ToSet(pushed)}
<1>1. /\ kept \in Seq(Kept(Turns, Kinds)) /\ Contiguous(kept, number)
      /\ Rising(kept) /\ number \in Nat /\ N \in Nat /\ N <= number
      /\ pushed = <<>> <=> N = 0
      /\ buffer.truncated \in BOOLEAN
      /\ first \in Nat
  BY PushesBounds DEF PushesInv, Buffers
<1>2. all = first .. number
  BY LogIsAnInterval
<1> HIDE DEF all
<1>3. CASE kept = <<>>
  <2>1. Covers(kept) = {}
    BY <1>3 DEF Covers, ToSet
  <2>2. buffer.truncated <=> N # 0
    BY <1>1, <1>3 DEF PushesInv, CutIsMarked
  <2>3. N # 0 <=> first .. number # {}
    <3>1. CASE N = 0
      BY <1>1, <3>1
    <3>2. CASE N # 0
      <4>1. number \in first .. number
        BY <1>1, <3>2
      <4>2. QED
        BY <3>2, <4>1
    <3>3. QED
      BY <3>1, <3>2
  <2>4. QED
    BY <1>2, <2>1, <2>2, <2>3 DEF HolesAreReported, all
<1>4. CASE kept # <<>>
  <2>1. Covers(kept) = kept[1].from .. number /\ kept[1].from \in Nat
    <3>1. Covers(kept) = kept[1].from .. number
      BY <1>1, <1>4, CoversAnInterval
    <3>2. kept[1] \in Kept(Turns, Kinds)
      BY <1>1, <1>4
    <3>3. QED
      BY <3>1, <3>2 DEF Kept
  <2>2. CASE buffer.truncated
    <3>1. N # 0 /\ kept[1].from > first
      BY <1>1, <1>4, <2>2 DEF PushesInv, CutIsMarked
    <3>2. first \in first .. number /\ first \notin kept[1].from .. number
      BY <1>1, <2>1, <3>1
    <3>3. Covers(kept) # all
      BY <1>2, <2>1, <3>2
    <3>4. QED
      BY <2>2, <3>3 DEF HolesAreReported, all
  <2>3. CASE ~buffer.truncated
    <3>1. kept[1].from = first
      BY <1>4, <2>3 DEF PushesInv, CutIsMarked
    <3>2. Covers(kept) = all
      BY <1>2, <2>1, <3>1
    <3>3. QED
      BY <2>3, <3>2 DEF HolesAreReported, all
  <2>4. QED
    BY <2>2, <2>3
<1>5. QED
  BY <1>3, <1>4

-----------------------------------------------------------------------------
(* The theorems *)

\* The number and the buffer's fields always have their types.
THEOREM PushesTypesHold == PushesSpec => []PushesTypeOK
<1>1. QED
  BY PushesInvariant, InvGivesTypes, PTL

\* Whatever is pushed, merged, dropped and cleared, the frames a client would
\* be given account for consecutive numbers up to the last assigned, each with
\* all the text pushed under its numbers and with events of its own turn only.
THEOREM SnapshotsHaveNoHole == PushesSpec => []SnapshotHasNoHole
<1>1. QED
  BY PushesInvariant, InvGivesNoHole, PTL

\* truncated is set exactly when something pushed since the last clearing is no
\* longer in the buffer.
THEOREM HolesAreAlwaysReported == PushesSpec => []HolesAreReported
<1>1. QED
  BY PushesInvariant, InvGivesReports, PTL

\* The count that decides what is dropped never exceeds what the frames weigh,
\* and the number of frames stays under its ceiling.
THEOREM NothingIsDroppedInVain == PushesSpec => []NothingDroppedInVain
<1>1. PushesInv => NothingDroppedInVain
  BY DEF PushesInv
<1>2. QED
  BY <1>1, PushesInvariant, PTL

-----------------------------------------------------------------------------
(* What push_back, pop_front and retain do to a queue whose items do not    *)
(* repeat, as facts about Append, Tail and RemoveAt.                        *)

\* push_back adds its item and nothing else, and a new item stays unique.
LEMMA AppendFacts ==
    ASSUME NEW S, NEW q \in Seq(S), NEW x \in S
    PROVE  /\ Append(q, x) \in Seq(S)
           /\ ToSet(Append(q, x)) = ToSet(q) \cup {x}
           /\ IsInjective(q) /\ x \notin ToSet(q) => IsInjective(Append(q, x))
<1>1. /\ Append(q, x) \in Seq(S)
      /\ Len(Append(q, x)) = Len(q) + 1
      /\ \A i \in 1..Len(q) : Append(q, x)[i] = q[i]
      /\ Append(q, x)[Len(q) + 1] = x
      /\ Len(q) \in Nat
      /\ DOMAIN q = 1..Len(q)
      /\ DOMAIN Append(q, x) = 1..Len(q) + 1
  OBVIOUS
<1>2. ToSet(Append(q, x)) = ToSet(q) \cup {x}
  BY <1>1 DEF ToSet
<1>3. IsInjective(q) /\ x \notin ToSet(q) => IsInjective(Append(q, x))
  BY <1>1 DEF ToSet, IsInjective
<1>4. QED
  BY <1>1, <1>2, <1>3

\* pop_front takes the head, which a queue without repeats then no longer holds.
LEMMA TailFacts ==
    ASSUME NEW S, NEW q \in Seq(S), q # <<>>
    PROVE  /\ Tail(q) \in Seq(S)
           /\ Head(q) \in S
           /\ ToSet(q) = ToSet(Tail(q)) \cup {Head(q)}
           /\ IsInjective(q) => IsInjective(Tail(q)) /\ Head(q) \notin ToSet(Tail(q))
<1>1. /\ Tail(q) \in Seq(S)
      /\ Len(q) \in Nat \ {0}
      /\ Head(q) = q[1]
      /\ Head(q) \in S
      /\ Len(Tail(q)) = Len(q) - 1
      /\ \A i \in 1..(Len(q) - 1) : Tail(q)[i] = q[i + 1]
      /\ DOMAIN q = 1..Len(q)
      /\ DOMAIN Tail(q) = 1..(Len(q) - 1)
  OBVIOUS
<1>2. ToSet(q) = ToSet(Tail(q)) \cup {Head(q)}
  <2>1. ASSUME NEW i \in 1..Len(q), i # 1  PROVE q[i] \in ToSet(Tail(q))
    <3>1. i - 1 \in 1..(Len(q) - 1) /\ Tail(q)[i - 1] = q[i]
      BY <1>1, <2>1
    <3>2. QED
      BY <1>1, <3>1 DEF ToSet
  <2>2. ToSet(Tail(q)) \subseteq ToSet(q)
    BY <1>1 DEF ToSet
  <2>3. QED
    BY <1>1, <2>1, <2>2 DEF ToSet
<1>3. IsInjective(q) => IsInjective(Tail(q)) /\ Head(q) \notin ToSet(Tail(q))
  BY <1>1 DEF ToSet, IsInjective
<1>4. QED
  BY <1>1, <1>2, <1>3

\* retain drops the one item it names.
LEMMA RemoveAtFacts ==
    ASSUME NEW S, NEW q \in Seq(S), NEW k \in DOMAIN q
    PROVE  /\ RemoveAt(q, k) \in Seq(S)
           /\ q[k] \in S
           /\ ToSet(q) = ToSet(RemoveAt(q, k)) \cup {q[k]}
           /\ IsInjective(q) =>
                 IsInjective(RemoveAt(q, k)) /\ q[k] \notin ToSet(RemoveAt(q, k))
<1> DEFINE r == RemoveAt(q, k)
<1>1. Len(q) \in Nat /\ DOMAIN q = 1..Len(q) /\ k \in 1..Len(q) /\ q[k] \in S
  OBVIOUS
<1>2. /\ r \in Seq(S)
      /\ Len(r) = Len(q) - 1
      /\ DOMAIN r = 1..(Len(q) - 1)
      /\ \A i \in 1..(Len(q) - 1) : r[i] = IF i < k THEN q[i] ELSE q[i + 1]
  <2> DEFINE a == SubSeq(q, 1, k - 1)
             b == SubSeq(q, k + 1, Len(q))
  <2>1. a \in Seq(S) /\ Len(a) = k - 1 /\ \A i \in 1..(k - 1) : a[i] = q[i]
    BY <1>1
  <2>2. b \in Seq(S) /\ Len(b) = Len(q) - k /\ \A i \in 1..(Len(q) - k) : b[i] = q[k + i]
    BY <1>1
  <2>3. r = a \o b
    BY DEF RemoveAt
  <2> HIDE DEF a, b, r
  <2>4. /\ r \in Seq(S)
        /\ Len(r) = Len(a) + Len(b)
        /\ \A i \in 1..(Len(a) + Len(b)) :
              r[i] = IF i <= Len(a) THEN a[i] ELSE b[i - Len(a)]
    BY <2>1, <2>2, <2>3, ConcatProperties
  <2>5. Len(r) = Len(q) - 1 /\ DOMAIN r = 1..(Len(q) - 1)
    BY <1>1, <2>1, <2>2, <2>4
  <2>6. ASSUME NEW i \in 1..(Len(q) - 1)
        PROVE  r[i] = IF i < k THEN q[i] ELSE q[i + 1]
    <3>1. CASE i < k
      BY <1>1, <2>1, <2>2, <2>4, <2>6, <3>1
    <3>2. CASE i >= k
      <4>1. i - (k - 1) \in 1..(Len(q) - k) /\ k + (i - (k - 1)) = i + 1
        BY <1>1, <2>6, <3>2
      <4>2. b[i - (k - 1)] = q[i + 1]
        BY <2>2, <4>1
      <4>3. r[i] = b[i - (k - 1)]
        BY <1>1, <2>1, <2>2, <2>4, <2>6, <3>2
      <4>4. QED
        BY <1>1, <2>6, <3>2, <4>2, <4>3
    <3>3. QED
      BY <1>1, <3>1, <3>2
  <2>7. QED
    BY <2>4, <2>5, <2>6
<1> HIDE DEF r
<1>3. ToSet(q) = ToSet(r) \cup {q[k]}
  <2>1. ASSUME NEW i \in 1..Len(q), i # k  PROVE q[i] \in ToSet(r)
    <3>1. CASE i < k
      BY <1>1, <1>2, <2>1, <3>1 DEF ToSet
    <3>2. CASE i > k
      <4>1. i - 1 \in 1..(Len(q) - 1) /\ r[i - 1] = q[i]
        BY <1>1, <1>2, <3>2
      <4>2. QED
        BY <1>2, <4>1 DEF ToSet
    <3>3. QED
      BY <1>1, <2>1, <3>1, <3>2
  <2>2. ToSet(r) \subseteq ToSet(q)
    BY <1>1, <1>2 DEF ToSet
  <2>3. QED
    BY <1>1, <2>1, <2>2 DEF ToSet
<1>4. ASSUME IsInjective(q)
      PROVE  IsInjective(r) /\ q[k] \notin ToSet(r)
  <2>1. \A i \in 1..(Len(q) - 1) :
           \E j \in 1..Len(q) : /\ r[i] = q[j]
                                /\ j = IF i < k THEN i ELSE i + 1
    BY <1>1, <1>2
  <2>2. \A i, j \in 1..Len(q) : q[i] = q[j] => i = j
    BY <1>1, <1>4 DEF IsInjective
  <2>3. ASSUME NEW i \in 1..(Len(q) - 1), NEW j \in 1..(Len(q) - 1), r[i] = r[j]
        PROVE  i = j
    BY <1>1, <2>1, <2>2, <2>3
  <2>4. ASSUME NEW i \in 1..(Len(q) - 1)
        PROVE  r[i] # q[k]
    BY <1>1, <2>1, <2>2
  <2>5. QED
    BY <1>2, <2>3, <2>4 DEF IsInjective, ToSet
<1>5. QED
  BY <1>1, <1>2, <1>3, <1>4 DEF r

-----------------------------------------------------------------------------

\* The messages a driver answers for are told apart by where the driver stands.
Shape ==
    /\ \A d \in Sends : nxt[d] # None => pc[d] \in {"settling", "snapshot", "pushing"}
    /\ \A d \in Sends : pc[d] = "settling" => cur[d] # nxt[d]
    /\ \A s \in Sends : ~TakenOn(s) => cur[s] = s
    /\ \A s \in Sends : pc[s] \notin {"clearing", "removing"}

\* What is carried from step to step beside the types.
Rest ==
    /\ Shape
    /\ EveryMessageHasOnePlace
    /\ BusyMeansDriven
    /\ OnlyStaleSendsStrand

\* The inductive invariant.
IInv ==
    /\ TypeOK
    /\ Rest

-----------------------------------------------------------------------------

\* Each step keeps every variable in its type.
LEMMA TypeStep == TypeOK /\ [Next]_vars => TypeOK'
<1> SUFFICES ASSUME TypeOK, [Next]_vars  PROVE TypeOK'
  OBVIOUS
<1> USE DEF TypeOK, PC, Driving, Goto, hub, history, Tasks
<1>1. ASSUME NEW s \in Sends, SendGet(s)  PROVE TypeOK'
  BY <1>1 DEF SendGet
<1>2. ASSUME NEW s \in Sends, SendWatch(s)  PROVE TypeOK'
  BY <1>2 DEF SendWatch
<1>3. ASSUME NEW s \in Sends, SendReadBusy(s)  PROVE TypeOK'
  <2>1. PICK label \in {"opening", "queueing", "failed"} : pc' = [pc EXCEPT ![s] = label]
    BY <1>3 DEF SendReadBusy
  <2>2. pc' \in [Tasks -> PC]
    BY <2>1
  <2>3. QED
    BY <1>3, <2>2 DEF SendReadBusy
<1>4. ASSUME NEW s \in Sends, SendEnqueue(s)  PROVE TypeOK'
  <2>1. queue' \in Seq(Sends)
    BY <1>4, AppendFacts DEF SendEnqueue
  <2>2. QED
    BY <1>4, <2>1 DEF SendEnqueue
<1>5. ASSUME NEW d \in Sends, OpenTurn(d)  PROVE TypeOK'
  BY <1>5 DEF OpenTurn
<1>6. ASSUME NEW d \in Sends, AnnounceOpened(d)  PROVE TypeOK'
  BY <1>6 DEF AnnounceOpened
<1>7. ASSUME NEW d \in Sends, RunTurn(d)  PROVE TypeOK'
  BY <1>7 DEF RunTurn
<1>21. ASSUME NEW d \in Sends, RunTurnBusy(d)  PROVE TypeOK'
  BY <1>21 DEF RunTurnBusy
<1>8. ASSUME NEW d \in Sends, EngineReturns(d)  PROVE TypeOK'
  BY <1>8 DEF EngineReturns
<1>9. ASSUME NEW d \in Sends, SettleTurn(d)  PROVE TypeOK'
  <2>1. queue # <<>> => Head(queue) \in Sends /\ Tail(queue) \in Seq(Sends)
    BY TailFacts
  <2>2. queue' \in Seq(Sends)
    BY <1>9, <2>1 DEF SettleTurn
  <2>3. nxt' \in [Sends -> Sends \cup {None}]
    <3>1. nxt' = nxt \/ \E m \in Sends : nxt' = [nxt EXCEPT ![d] = m]
      BY <1>9, <2>1, Zenon DEF SettleTurn
    <3>2. QED
      BY <3>1
  <2>4. pc' \in [Tasks -> PC] /\ running' = None
    <3>1. pc' = [pc EXCEPT ![d] = "settling"] /\ running' = None
      BY <1>9 DEF SettleTurn
    <3>2. QED
      BY <3>1
  <2>5. QED
    BY <1>9, <2>2, <2>3, <2>4 DEF SettleTurn
<1>10. ASSUME NEW d \in Sends, AnnounceSettled(d)  PROVE TypeOK'
  BY <1>10 DEF AnnounceSettled
<1>11. ASSUME NEW d \in Sends, ReadQueue(d)  PROVE TypeOK'
  BY <1>11 DEF ReadQueue
<1>12. ASSUME NEW d \in Sends, PushAndGoOn(d)  PROVE TypeOK'
  BY <1>12 DEF PushAndGoOn
<1>13. ASSUME NEW i \in Stops, InterruptEngine(i)  PROVE TypeOK'
  <2>1. ToSet(queue) \subseteq Sends
    BY DEF ToSet
  <2>2. pc' \in [Tasks -> PC]
    BY <1>13 DEF InterruptEngine
  <2>3. stopped' \subseteq Sends
    BY <1>13, <2>1 DEF InterruptEngine
  <2>4. QED
    BY <1>13, <2>2, <2>3 DEF InterruptEngine
<1>14. ASSUME NEW i \in Stops, InterruptClear(i)  PROVE TypeOK'
  BY <1>14 DEF InterruptClear, ToSet
<1>15. ASSUME NEW r \in Removals, QueueRemove(r)  PROVE TypeOK'
  <2>1. \A k \in DOMAIN queue : RemoveAt(queue, k) \in Seq(Sends) /\ queue[k] \in Sends
    BY RemoveAtFacts
  <2>2. queue' \in Seq(Sends) /\ dropped' \subseteq Sends
    BY <1>15, <2>1 DEF QueueRemove
  <2>3. QED
    BY <1>15, <2>2 DEF QueueRemove
<1>16. ASSUME NEW c \in Closes, CloseEngine(c)  PROVE TypeOK'
  BY <1>16 DEF CloseEngine
<1>17. ASSUME NEW c \in Closes, CloseRemove(c)  PROVE TypeOK'
  BY <1>17 DEF CloseRemove, ToSet
<1>18. ASSUME NEW t \in Tasks, PushQueue(t)  PROVE TypeOK'
  BY <1>18 DEF PushQueue
<1>22. ASSUME NEW t \in Tasks, CallDropped(t)  PROVE TypeOK'
  <2>1. /\ \E label \in {"failed", "done", "lost"} : pc' = [pc EXCEPT ![t] = label]
        /\ dropped' \subseteq Sends
    BY <1>22 DEF CallDropped
  <2>2. snap' \in [Tasks -> Seq(Sends)]
    BY <1>22 DEF CallDropped
  <2>3. QED
    BY <1>22, <2>1, <2>2 DEF CallDropped
<1>19. CASE UNCHANGED vars
  BY <1>19 DEF vars, tasks
<1>. QED
  BY <1>1, <1>2, <1>3, <1>4, <1>5, <1>6, <1>7, <1>8, <1>9, <1>10, <1>11,
     <1>12, <1>13, <1>14, <1>15, <1>16, <1>17, <1>18, <1>19, <1>21, <1>22
     DEF Next, Send, TurnLoop

\* Every variable keeps its type.
THEOREM TypeCorrect == Spec => []TypeOK
<1>1. Init => TypeOK
  BY DEF Init, TypeOK, PC, Driving, Tasks
<1>2. QED
  BY <1>1, TypeStep, PTL DEF Spec

-----------------------------------------------------------------------------

\* A step that leaves the sends, the queue and the records of what became of
\* the messages as they are keeps Rest: the steps of calls that only talk to
\* the engine or push a snapshot.
LEMMA RestFrame ==
    ASSUME Rest, \A s \in Sends : pc'[s] = pc[s],
           UNCHANGED <<running, queue, cur, nxt, settled, dropped, late>>
    PROVE  Rest'
BY DEF Rest, Shape, EveryMessageHasOnePlace, OnePlace, Waiting, TakenOn,
   Held, Holds, Driving, BusyMeansDriven, OnlyStaleSendsStrand, Lost, Live

\* A driver on its way to settle_turn keeps Rest; on the way it may enter its
\* turn in running_turn.
LEMMA DriveFrame ==
    ASSUME Rest, NEW d \in Sends,
           pc[d] \in Driving, pc'[d] \in Driving \ {"opening"},
           \A u \in Sends : u # d => pc'[u] = pc[u],
           running' \in {running, cur[d]},
           UNCHANGED <<queue, cur, nxt, settled, dropped, late>>
    PROVE  Rest'
<1>1. \A e, m \in Sends : Holds(e, m)' <=> Holds(e, m)
  BY DEF Holds, Driving
<1>2. Shape' /\ BusyMeansDriven' /\ OnlyStaleSendsStrand'
  BY DEF Rest, Shape, TakenOn, BusyMeansDriven, OnlyStaleSendsStrand, Lost, Live, Driving
<1>3. EveryMessageHasOnePlace'
  BY <1>1 DEF Rest, EveryMessageHasOnePlace, OnePlace, Waiting, TakenOn, Held, Driving
<1>4. QED
  BY <1>2, <1>3 DEF Rest

\* Each step keeps the invariant.
LEMMA InvStep == IInv /\ [Next]_vars => IInv'
<1> SUFFICES ASSUME IInv, [Next]_vars  PROVE Rest'
  BY TypeStep DEF IInv
<1>0. TypeOK' /\ None \notin Sends
  BY TypeStep, TasksAreDistinct DEF IInv
<1> USE DEF IInv, Goto, hub, history, Tasks
<1>1. ASSUME NEW s \in Sends, SendGet(s)  PROVE Rest'
  BY <1>0, <1>1, TasksAreDistinct DEF SendGet, Rest, TypeOK, Shape, EveryMessageHasOnePlace, OnePlace, Waiting,
     TakenOn, Held, Holds, Driving, BusyMeansDriven, OnlyStaleSendsStrand, Lost, Live
<1>2. ASSUME NEW s \in Sends, SendWatch(s)  PROVE Rest'
  BY <1>0, <1>2, TasksAreDistinct DEF SendWatch, Rest, TypeOK, Shape, EveryMessageHasOnePlace, OnePlace, Waiting,
     TakenOn, Held, Holds, Driving, BusyMeansDriven, OnlyStaleSendsStrand, Lost, Live
<1>3. ASSUME NEW s \in Sends, SendReadBusy(s)  PROVE Rest'
  <2>1. /\ pc[s] = "watching"
        /\ pc'[s] \in {"opening", "queueing", "failed"}
        /\ \A u \in Sends : u # s => pc'[u] = pc[u]
        /\ UNCHANGED <<running, queue, cur, nxt, settled, dropped, late>>
    BY <1>3 DEF SendReadBusy, TypeOK
  <2>2. /\ \A e, m \in Sends : e # s => (Holds(e, m)' <=> Holds(e, m))
        /\ \A m \in Sends : Holds(s, m)' <=> m = s /\ pc'[s] = "opening"
        /\ \A m \in Sends : ~Holds(s, m)
        /\ ~Waiting(s) /\ s \notin Held \cup settled \cup dropped
    BY <1>0, <2>1 DEF Rest, Shape, EveryMessageHasOnePlace, OnePlace, Waiting, TakenOn,
         Held, Holds, Driving, BusyMeansDriven, OnlyStaleSendsStrand, Lost, Live
  <2>3. Shape' /\ BusyMeansDriven'
    BY <2>1 DEF Rest, Shape, EveryMessageHasOnePlace, OnePlace, Waiting, TakenOn,
         Held, Holds, Driving, BusyMeansDriven, OnlyStaleSendsStrand, Lost, Live
  <2>4. OnlyStaleSendsStrand'
    BY <2>1 DEF Rest, Shape, EveryMessageHasOnePlace, OnePlace, Waiting, TakenOn,
         Held, Holds, Driving, BusyMeansDriven, OnlyStaleSendsStrand, Lost, Live
  <2>5. EveryMessageHasOnePlace'
    BY <2>1, <2>2 DEF Rest, Shape, EveryMessageHasOnePlace, OnePlace, Waiting, TakenOn, Held
  <2>6. QED
    BY <2>3, <2>4, <2>5 DEF Rest
<1>4. ASSUME NEW s \in Sends, SendEnqueue(s)  PROVE Rest'
  <2>1. /\ pc[s] = "queueing"
        /\ pc'[s] = "telling"
        /\ \A u \in Sends : u # s => pc'[u] = pc[u]
        /\ queue' = Append(queue, s)
        /\ late' = IF \E d \in Sends : Live(d) THEN late ELSE late \cup {s}
        /\ UNCHANGED <<running, cur, nxt, settled, dropped>>
    BY <1>4 DEF SendEnqueue, TypeOK
  <2>2. ~Waiting(s) /\ s \notin Held \cup settled \cup dropped
    BY <2>1 DEF Rest, EveryMessageHasOnePlace, OnePlace, TakenOn
  <2>3. ToSet(queue') = ToSet(queue) \cup {s} /\ IsInjective(queue')
    BY <2>1, <2>2, AppendFacts DEF TypeOK, Rest, EveryMessageHasOnePlace, Waiting
  <2>4. \A e, m \in Sends : Holds(e, m)' <=> Holds(e, m)
    BY <2>1 DEF Holds, Driving
  <2>5. Shape' /\ BusyMeansDriven'
    BY <2>1 DEF Rest, Shape, EveryMessageHasOnePlace, OnePlace, Waiting, TakenOn,
         Held, Holds, Driving, BusyMeansDriven, OnlyStaleSendsStrand, Lost, Live
  <2>6. OnlyStaleSendsStrand'
    BY <2>1, <2>3 DEF Rest, Shape, EveryMessageHasOnePlace, OnePlace, Waiting, TakenOn,
         Held, Holds, Driving, BusyMeansDriven, OnlyStaleSendsStrand, Lost, Live
  <2>7. EveryMessageHasOnePlace'
    BY <2>1, <2>2, <2>3, <2>4
    DEF Rest, EveryMessageHasOnePlace, OnePlace, Waiting, TakenOn, Held
  <2>8. QED
    BY <2>5, <2>6, <2>7 DEF Rest
<1>5. ASSUME NEW d \in Sends, OpenTurn(d)  PROVE Rest'
  <2>1. /\ pc[d] \in Driving /\ pc'[d] \in Driving \ {"opening"}
        /\ \A u \in Sends : u # d => pc'[u] = pc[u]
        /\ running' \in {running, cur[d]}
        /\ UNCHANGED <<queue, cur, nxt, settled, dropped, late>>
    BY <1>5 DEF OpenTurn, TypeOK, Driving
  <2>2. QED
    BY <2>1, DriveFrame
<1>6. ASSUME NEW d \in Sends, AnnounceOpened(d)  PROVE Rest'
  <2>1. /\ pc[d] \in Driving /\ pc'[d] \in Driving \ {"opening"}
        /\ \A u \in Sends : u # d => pc'[u] = pc[u]
        /\ running' \in {running, cur[d]}
        /\ UNCHANGED <<queue, cur, nxt, settled, dropped, late>>
    BY <1>6 DEF AnnounceOpened, TypeOK, Driving
  <2>2. QED
    BY <2>1, DriveFrame
<1>7. ASSUME NEW d \in Sends, RunTurn(d)  PROVE Rest'
  <2>1. /\ pc[d] \in Driving /\ pc'[d] \in Driving \ {"opening"}
        /\ \A u \in Sends : u # d => pc'[u] = pc[u]
        /\ running' \in {running, cur[d]}
        /\ UNCHANGED <<queue, cur, nxt, settled, dropped, late>>
    BY <1>7 DEF RunTurn, TypeOK, Driving
  <2>2. QED
    BY <2>1, DriveFrame
<1>8. ASSUME NEW d \in Sends, RunTurnBusy(d)  PROVE Rest'
  <2>1. /\ pc[d] \in Driving /\ pc'[d] \in Driving \ {"opening"}
        /\ \A u \in Sends : u # d => pc'[u] = pc[u]
        /\ running' \in {running, cur[d]}
        /\ UNCHANGED <<queue, cur, nxt, settled, dropped, late>>
    BY <1>8 DEF RunTurnBusy, TypeOK, Driving
  <2>2. QED
    BY <2>1, DriveFrame
<1>9. ASSUME NEW d \in Sends, EngineReturns(d)  PROVE Rest'
  <2>1. /\ pc[d] \in Driving /\ pc'[d] \in Driving \ {"opening"}
        /\ \A u \in Sends : u # d => pc'[u] = pc[u]
        /\ running' \in {running, cur[d]}
        /\ UNCHANGED <<queue, cur, nxt, settled, dropped, late>>
    BY <1>9 DEF EngineReturns, TypeOK, Driving
  <2>2. QED
    BY <2>1, DriveFrame
<1>10. ASSUME NEW d \in Sends, SettleTurn(d)  PROVE Rest'
  <2>1. /\ pc[d] = "returned"
        /\ pc'[d] = "settling"
        /\ \A u \in Sends : u # d => pc'[u] = pc[u]
        /\ running' = None
        /\ UNCHANGED <<cur, settled, dropped, late>>
        /\ nxt[d] = None
    BY <1>10 DEF SettleTurn, TypeOK, Rest, Shape
  <2>2. CASE queue = <<>>
    <3>1. queue' = queue /\ nxt' = nxt
      BY <1>10, <2>2, Zenon DEF SettleTurn
    <3>2. ToSet(queue) = {}
      BY <2>2 DEF ToSet
    <3>3. \A e, m \in Sends : Holds(e, m)' <=> Holds(e, m)
      BY <2>1, <3>1 DEF Holds, Driving
    <3>4. Shape'
      BY <1>0, <2>1, <3>1 DEF TypeOK, Rest, Shape, TakenOn
    <3>5. BusyMeansDriven' /\ OnlyStaleSendsStrand'
      BY <2>1, <3>1, <3>2 DEF BusyMeansDriven, OnlyStaleSendsStrand, Lost
    <3>6. EveryMessageHasOnePlace'
      BY <2>1, <3>1, <3>3
      DEF Rest, EveryMessageHasOnePlace, OnePlace, Waiting, TakenOn, Held
    <3>7. QED
      BY <3>4, <3>5, <3>6 DEF Rest
  <2>3. CASE queue # <<>>
    <3> DEFINE h == Head(queue)
    <3>0. nxt' = [nxt EXCEPT ![d] = h] /\ queue' = Tail(queue)
      BY <1>10, <2>3, Zenon DEF SettleTurn
    <3>1. /\ h \in Sends
          /\ nxt' = [nxt EXCEPT ![d] = h]
          /\ ToSet(queue) = ToSet(queue') \cup {h}
          /\ h \notin ToSet(queue')
          /\ IsInjective(queue')
      BY <2>3, <3>0, TailFacts DEF TypeOK, Rest, EveryMessageHasOnePlace
    <3>2. /\ nxt'[d] = h
          /\ \A e \in Sends : e # d => nxt'[e] = nxt[e]
      BY <3>1 DEF TypeOK
    <3> HIDE DEF h
    <3>3. Holds(d, cur[d]) /\ cur[d] \in Sends /\ cur[d] # h /\ h # None
      BY <1>0, <2>1, <3>1, <3>2 DEF TypeOK, Rest, Shape, EveryMessageHasOnePlace, OnePlace, Waiting, TakenOn,
         Held, Holds, Driving, BusyMeansDriven, OnlyStaleSendsStrand, Lost, Live
    <3>4. /\ \A e, m \in Sends : e # d => (Holds(e, m)' <=> Holds(e, m))
          /\ \A m \in Sends : Holds(d, m)' <=> Holds(d, m) \/ m = h
      BY <1>0, <2>1, <3>1, <3>2 DEF Holds, Driving
    <3>5. Shape' /\ BusyMeansDriven' /\ OnlyStaleSendsStrand'
      BY <1>0, <2>1, <3>1, <3>2, <3>3 DEF Rest, Shape, EveryMessageHasOnePlace, OnePlace, Waiting, TakenOn,
         Held, Holds, Driving, BusyMeansDriven, OnlyStaleSendsStrand, Lost, Live
    <3>6. EveryMessageHasOnePlace'
      BY <2>1, <3>1, <3>4 DEF Rest, EveryMessageHasOnePlace, OnePlace, Waiting, TakenOn, Held
    <3>7. QED
      BY <3>5, <3>6 DEF Rest
  <2>4. QED
    BY <2>2, <2>3
<1>11. ASSUME NEW d \in Sends, AnnounceSettled(d)  PROVE Rest'
  <2>1. /\ pc[d] = "settling"
        /\ pc'[d] = IF nxt[d] = None THEN "done" ELSE "snapshot"
        /\ \A u \in Sends : u # d => pc'[u] = pc[u]
        /\ settled' = settled \cup {cur[d]}
        /\ UNCHANGED <<running, queue, cur, nxt, dropped, late>>
    BY <1>11 DEF AnnounceSettled, TypeOK
  <2>2. cur[d] # nxt[d] /\ cur[d] \in Sends /\ Holds(d, cur[d])
    BY <2>1 DEF Rest, Shape, Holds, TypeOK
  <2>3. /\ \A e, m \in Sends : e # d => (Holds(e, m)' <=> Holds(e, m))
        /\ \A m \in Sends : Holds(d, m)' <=> Holds(d, m) /\ m # cur[d]
    BY <1>0, <2>1, <2>2 DEF Holds, Driving
  <2>4. Shape'
    BY <2>1 DEF Rest, Shape, TakenOn
  <2>5. BusyMeansDriven' /\ OnlyStaleSendsStrand'
    BY <1>0, <2>1 DEF Rest, BusyMeansDriven, OnlyStaleSendsStrand, Lost, Live, Driving
  <2>6. EveryMessageHasOnePlace'
    <3>1. \A m \in Sends : m # cur[d] => (m \in Held' <=> m \in Held)
      BY <2>3 DEF Held
    <3>2. cur[d] \in Held /\ cur[d] \notin Held'
      BY <2>2, <2>3 DEF Held, Rest, EveryMessageHasOnePlace, OnePlace
    <3>3. \A m \in Sends : (TakenOn(m)' <=> TakenOn(m)) /\ (Waiting(m)' <=> Waiting(m))
      BY <2>1 DEF TakenOn, Waiting
    <3>4. ASSUME NEW m \in Sends  PROVE OnePlace(m)'
      <4>1. OnePlace(m)
        BY DEF Rest, EveryMessageHasOnePlace
      <4>2. \A e, f \in Sends : Holds(e, m)' /\ Holds(f, m)' => e = f
        BY <2>3, <4>1 DEF OnePlace
      <4>3. CASE m = cur[d]
        BY <2>1, <3>2, <3>3, <4>1, <4>2, <4>3 DEF OnePlace
      <4>4. CASE m # cur[d]
        BY <2>1, <3>1, <3>3, <4>1, <4>2, <4>4 DEF OnePlace
      <4>5. QED
        BY <4>3, <4>4
    <3>5. QED
      BY <2>1, <3>4 DEF Rest, EveryMessageHasOnePlace
  <2>7. QED
    BY <2>4, <2>5, <2>6 DEF Rest
<1>12. ASSUME NEW d \in Sends, ReadQueue(d)  PROVE Rest'
  <2>1. /\ pc[d] = "snapshot"
        /\ pc'[d] = "pushing"
        /\ \A u \in Sends : u # d => pc'[u] = pc[u]
        /\ UNCHANGED <<running, queue, cur, nxt, settled, dropped, late>>
    BY <1>12 DEF ReadQueue, TypeOK
  <2>2. QED
    BY <1>0, <2>1 DEF Rest, Shape, EveryMessageHasOnePlace, OnePlace, Waiting, TakenOn,
         Held, Holds, Driving, BusyMeansDriven, OnlyStaleSendsStrand, Lost, Live
<1>13. ASSUME NEW d \in Sends, PushAndGoOn(d)  PROVE Rest'
  <2>1. /\ pc[d] = "pushing" /\ pc'[d] = "opening"
        /\ nxt[d] \in Sends /\ nxt'[d] = None /\ cur'[d] = nxt[d]
        /\ \A u \in Sends : u # d =>
              pc'[u] = pc[u] /\ cur'[u] = cur[u] /\ nxt'[u] = nxt[u]
        /\ UNCHANGED <<running, queue, settled, dropped, late>>
    BY <1>13 DEF PushAndGoOn, TypeOK
  <2>2. \A e, m \in Sends : Holds(e, m)' <=> Holds(e, m)
    BY <1>0, <2>1 DEF Holds, Driving
  <2>3. Shape' /\ BusyMeansDriven' /\ OnlyStaleSendsStrand'
    BY <1>0, <2>1 DEF Rest, Shape, EveryMessageHasOnePlace, OnePlace, Waiting, TakenOn,
         Held, Holds, Driving, BusyMeansDriven, OnlyStaleSendsStrand, Lost, Live
  <2>4. EveryMessageHasOnePlace'
    BY <2>1, <2>2 DEF Rest, EveryMessageHasOnePlace, OnePlace, Waiting, TakenOn, Held
  <2>5. QED
    BY <2>3, <2>4 DEF Rest
<1>14. ASSUME NEW i \in Stops, InterruptEngine(i)  PROVE Rest'
  <2>1. /\ \A s \in Sends : pc'[s] = pc[s]
        /\ UNCHANGED <<running, queue, cur, nxt, settled, dropped, late>>
    BY <1>14, TasksAreDistinct DEF InterruptEngine, TypeOK
  <2>2. QED
    BY <2>1, RestFrame
<1>15. ASSUME NEW i \in Stops, InterruptClear(i)  PROVE Rest'
  <2>1. /\ \A s \in Sends : pc'[s] = pc[s]
        /\ queue' = <<>>
        /\ dropped' = dropped \cup ToSet(queue)
        /\ UNCHANGED <<running, cur, nxt, settled, late>>
    BY <1>15, TasksAreDistinct DEF InterruptClear, TypeOK
  <2>2. ToSet(queue') = {} /\ IsInjective(queue')
    BY <2>1 DEF ToSet, IsInjective
  <2>3. QED
    BY <2>1, <2>2 DEF Rest, Shape, EveryMessageHasOnePlace, OnePlace, Waiting, TakenOn,
         Held, Holds, Driving, BusyMeansDriven, OnlyStaleSendsStrand, Lost, Live
<1>16. ASSUME NEW r \in Removals, QueueRemove(r)  PROVE Rest'
  <2>1. /\ \A s \in Sends : pc'[s] = pc[s]
        /\ UNCHANGED <<running, cur, nxt, settled, late>>
    BY <1>16, TasksAreDistinct DEF QueueRemove, TypeOK
  <2>2. CASE UNCHANGED <<queue, dropped>>
    BY <2>1, <2>2, RestFrame
  <2>3. ASSUME NEW k \in DOMAIN queue,
               queue' = RemoveAt(queue, k), dropped' = dropped \cup {queue[k]}
        PROVE  Rest'
    <3>1. /\ queue[k] \in Sends
          /\ ToSet(queue) = ToSet(queue') \cup {queue[k]}
          /\ queue[k] \notin ToSet(queue')
          /\ IsInjective(queue')
      BY <2>3, RemoveAtFacts DEF TypeOK, Rest, EveryMessageHasOnePlace
    <3>2. QED
      BY <2>1, <2>3, <3>1 DEF Rest, Shape, EveryMessageHasOnePlace, OnePlace, Waiting, TakenOn,
         Held, Holds, Driving, BusyMeansDriven, OnlyStaleSendsStrand, Lost, Live
  <2>4. QED
    BY <1>16, <2>2, <2>3 DEF QueueRemove
<1>17. ASSUME NEW c \in Closes, CloseEngine(c)  PROVE Rest'
  <2>1. /\ \A s \in Sends : pc'[s] = pc[s]
        /\ UNCHANGED <<running, queue, cur, nxt, settled, dropped, late>>
    <3>1. /\ \/ pc' = [pc EXCEPT ![c] = "failed"]
             \/ pc' = [pc EXCEPT ![c] = "removing"]
          /\ UNCHANGED <<hub, cur, nxt, history>>
      BY <1>17, Zenon DEF CloseEngine
    <3>2. QED
      BY <3>1, TasksAreDistinct DEF TypeOK
  <2>2. QED
    BY <2>1, RestFrame
<1>18. ASSUME NEW c \in Closes, CloseRemove(c)  PROVE Rest'
  <2>1. /\ \A s \in Sends : pc'[s] = pc[s]
        /\ queue' = <<>>
        /\ running' = None
        /\ dropped' = dropped \cup ToSet(queue)
        /\ UNCHANGED <<cur, nxt, settled, late>>
    BY <1>18, TasksAreDistinct DEF CloseRemove, TypeOK
  <2>2. ToSet(queue') = {} /\ IsInjective(queue')
    BY <2>1 DEF ToSet, IsInjective
  <2>3. QED
    BY <2>1, <2>2 DEF Rest, Shape, EveryMessageHasOnePlace, OnePlace, Waiting, TakenOn,
         Held, Holds, Driving, BusyMeansDriven, OnlyStaleSendsStrand, Lost, Live
<1>19. ASSUME NEW t \in Tasks, PushQueue(t)  PROVE Rest'
  <2>1. /\ pc[t] = "telling"
        /\ pc'[t] = "done"
        /\ \A u \in Sends : u # t => pc'[u] = pc[u]
        /\ UNCHANGED <<running, queue, cur, nxt, settled, dropped, late>>
    BY <1>19 DEF PushQueue, TypeOK
  <2>2. CASE t \in Sends
    BY <1>0, <2>1, <2>2 DEF Rest, Shape, EveryMessageHasOnePlace, OnePlace, Waiting, TakenOn,
         Held, Holds, Driving, BusyMeansDriven, OnlyStaleSendsStrand, Lost, Live
  <2>3. CASE t \notin Sends
    BY <2>1, <2>3, RestFrame
  <2>4. QED
    BY <2>2, <2>3
<1>21. ASSUME NEW t \in Tasks, CallDropped(t)  PROVE Rest'
  <2>1. /\ \A u \in Sends : u # t => pc'[u] = pc[u]
        /\ UNCHANGED <<running, queue, cur, nxt, settled, late>>
    BY <1>21 DEF CallDropped, TypeOK
  <2>2. CASE t \in Sends /\ pc[t] \in {"opening", "opened"}
    <3>1. pc'[t] = "lost" /\ dropped' = dropped \cup {t} /\ cur[t] = t /\ nxt[t] = None
      BY <1>21, <2>2 DEF CallDropped, TypeOK, Rest, Shape
    <3>2. Holds(t, t) /\ \A m \in Sends : ~Holds(t, m)' /\ (Holds(t, m) => m = t)
      BY <1>0, <2>1, <2>2, <3>1 DEF Holds, Driving
    <3>3. \A e, m \in Sends : e # t => (Holds(e, m)' <=> Holds(e, m))
      BY <2>1 DEF Holds
    <3>4. Shape' /\ OnlyStaleSendsStrand'
      BY <2>1, <2>2, <3>1 DEF Rest, Shape, TakenOn, OnlyStaleSendsStrand, Lost, Live, Driving
    <3>5. BusyMeansDriven'
      BY <2>1, <2>2, <3>1 DEF Rest, BusyMeansDriven, Lost, TypeOK
    <3>6. EveryMessageHasOnePlace'
      BY <2>1, <2>2, <3>1, <3>2, <3>3
      DEF Rest, EveryMessageHasOnePlace, OnePlace, Waiting, TakenOn, Held
    <3>7. QED
      BY <3>4, <3>5, <3>6 DEF Rest
  <2>3. CASE t \in Sends /\ pc[t] \notin {"opening", "opened"}
    <3>1. /\ dropped' = dropped
          /\ \/ pc[t] \in {"known", "watching", "queueing"} /\ pc'[t] = "failed"
             \/ pc[t] = "telling" /\ pc'[t] = "done"
      BY <1>21, <2>3 DEF CallDropped, TypeOK, Rest, Shape
    <3>2. QED
      BY <1>0, <2>1, <2>3, <3>1
      DEF Rest, Shape, EveryMessageHasOnePlace, OnePlace, Waiting, TakenOn,
          Held, Holds, Driving, BusyMeansDriven, OnlyStaleSendsStrand, Lost, Live
  <2>4. CASE t \notin Sends
    <3>1. dropped' = dropped
      BY <1>21, <2>4 DEF CallDropped
    <3>2. QED
      BY <2>1, <2>4, <3>1, RestFrame
  <2>5. QED
    BY <2>2, <2>3, <2>4
<1>20. CASE UNCHANGED vars
  BY <1>20, RestFrame DEF vars, tasks
<1>. QED
  BY <1>1, <1>2, <1>3, <1>4, <1>5, <1>6, <1>7, <1>8, <1>9, <1>10, <1>11, <1>12,
     <1>13, <1>14, <1>15, <1>16, <1>17, <1>18, <1>19, <1>20, <1>21
     DEF Next, Send, TurnLoop

\* The invariant holds at the start.
LEMMA InvInit == Init => IInv
<1> SUFFICES ASSUME Init  PROVE IInv
  OBVIOUS
<1>1. TypeOK
  BY DEF Init, TypeOK, PC, Driving, Tasks
<1>2. /\ running = None /\ queue = <<>> /\ settled = {} /\ dropped = {}
      /\ \A s \in Sends : pc[s] = "new" /\ cur[s] = s /\ nxt[s] = None
  BY DEF Init, Tasks
<1>3. ToSet(queue) = {} /\ IsInjective(queue)
  BY <1>2 DEF ToSet, IsInjective
<1>4. QED
  BY <1>1, <1>2, <1>3, TasksAreDistinct DEF IInv, Rest, Shape, EveryMessageHasOnePlace,
     OnePlace, Waiting, TakenOn, Held, Holds, Driving, BusyMeansDriven,
     OnlyStaleSendsStrand, Lost

\* The invariant holds always.
THEOREM Invariance == Spec => []IInv
BY InvInit, InvStep, PTL DEF Spec

\* No interleaving loses a message the hub took on, runs one twice, or runs one
\* that was dropped: each is in exactly one place (turns.rs, send to settle_turn).
THEOREM MessagesHaveOnePlace == Spec => []EveryMessageHasOnePlace
<1>1. IInv => EveryMessageHasOnePlace
  BY DEF IInv, Rest
<1>2. QED
  BY <1>1, Invariance, PTL

\* running_turn always names a turn some driver is still to settle, so a session
\* cannot stay busy behind a turn that is over.
THEOREM BusySessionsAreDriven == Spec => []BusyMeansDriven
<1>1. IInv => BusyMeansDriven
  BY DEF IInv, Rest
<1>2. QED
  BY <1>1, Invariance, PTL

\* A message left in a queue that no driver serves was queued on a stale busy
\* check; settle_turn leaves none behind.
THEOREM StrandingIsStale == Spec => []OnlyStaleSendsStrand
<1>1. IInv => OnlyStaleSendsStrand
  BY DEF IInv, Rest
<1>2. QED
  BY <1>1, Invariance, PTL

-----------------------------------------------------------------------------
(* HubTurns implements TurnLedger. *)

\* The steps that move no message between waiting, held, finished and gone.
LEMMA LedgerStutters ==
    ASSUME \A d, m \in Sends : Holds(d, m)' <=> Holds(d, m),
           UNCHANGED <<queue, settled, dropped>>
    PROVE  UNCHANGED Promise!ledger
<1>1. Held' = Held
  BY DEF Held
<1>2. QED
  BY <1>1 DEF Promise!ledger

\* Each step of the hub is a step of the ledger or leaves it alone.
LEMMA LedgerStep == IInv /\ IInv' /\ [Next]_vars => [Promise!Next]_(Promise!ledger)
<1> SUFFICES ASSUME IInv, IInv', [Next]_vars  PROVE [Promise!Next]_(Promise!ledger)
  OBVIOUS
<1>0. None \notin Sends /\ TypeOK /\ TypeOK' /\ Rest /\ Rest'
  BY TasksAreDistinct DEF IInv
<1> USE DEF Goto, hub, history, Tasks
<1>1. ASSUME NEW s \in Sends, SendGet(s) \/ SendWatch(s)
      PROVE  UNCHANGED Promise!ledger
  BY <1>0, <1>1, LedgerStutters
  DEF SendGet, SendWatch, TypeOK, Holds, Driving, Rest, Shape
<1>2. ASSUME NEW s \in Sends, SendReadBusy(s)
      PROVE  Promise!Take(s) \/ UNCHANGED Promise!ledger
  <2>1. /\ pc[s] = "watching"
        /\ pc'[s] \in {"opening", "queueing", "failed"}
        /\ \A u \in Sends : u # s => pc'[u] = pc[u]
        /\ UNCHANGED <<queue, cur, nxt, settled, dropped>>
    BY <1>0, <1>2 DEF SendReadBusy, TypeOK
  <2>2. nxt[s] = None /\ cur[s] = s
    BY <1>0, <2>1 DEF Rest, Shape, TakenOn
  <2>3. CASE pc'[s] = "opening"
    <3>1. Held' = Held \cup {s}
      BY <1>0, <2>1, <2>2, <2>3 DEF Held, Holds, Driving
    <3>2. ~Waiting(s) /\ s \notin Held \cup settled \cup dropped
      BY <1>0, <2>1 DEF Rest, EveryMessageHasOnePlace, OnePlace, TakenOn
    <3>3. QED
      BY <2>1, <3>1, <3>2 DEF Promise!Take, Promise!Known, Promise!ToSet, ToSet, Waiting
  <2>4. CASE pc'[s] # "opening"
    BY <1>0, <2>1, <2>2, <2>4, LedgerStutters DEF Holds, Driving
  <2>5. QED
    BY <2>3, <2>4
<1>3. ASSUME NEW s \in Sends, SendEnqueue(s)  PROVE Promise!Wait(s)
  <2>1. /\ pc[s] = "queueing"
        /\ pc'[s] = "telling"
        /\ \A u \in Sends : u # s => pc'[u] = pc[u]
        /\ queue' = Append(queue, s)
        /\ UNCHANGED <<cur, nxt, settled, dropped>>
    BY <1>0, <1>3 DEF SendEnqueue, TypeOK
  <2>2. Held' = Held
    BY <2>1 DEF Held, Holds, Driving
  <2>3. ~Waiting(s) /\ s \notin Held \cup settled \cup dropped
    BY <1>0, <2>1 DEF Rest, EveryMessageHasOnePlace, OnePlace, TakenOn
  <2>4. QED
    BY <2>1, <2>2, <2>3 DEF Promise!Wait, Promise!Known, Promise!ToSet, ToSet, Waiting
<1>4. ASSUME NEW d \in Sends,
             OpenTurn(d) \/ AnnounceOpened(d) \/ RunTurn(d) \/ RunTurnBusy(d)
             \/ EngineReturns(d) \/ ReadQueue(d)
      PROVE  UNCHANGED Promise!ledger
  <2> DEFINE Moves ==
        /\ \/ pc[d] \in Driving /\ pc'[d] \in Driving
           \/ pc[d] = "snapshot" /\ pc'[d] = "pushing"
        /\ \A u \in Sends : u # d => pc'[u] = pc[u]
        /\ UNCHANGED <<queue, cur, nxt, settled, dropped>>
  <2>1. CASE OpenTurn(d)
    <3>1. Moves
      BY <1>0, <2>1 DEF OpenTurn, TypeOK, Driving
    <3>2. QED
      BY <3>1, LedgerStutters DEF Holds, Driving
  <2>2. CASE AnnounceOpened(d)
    <3>1. Moves
      BY <1>0, <2>2 DEF AnnounceOpened, TypeOK, Driving
    <3>2. QED
      BY <3>1, LedgerStutters DEF Holds, Driving
  <2>3. CASE RunTurn(d)
    <3>1. Moves
      BY <1>0, <2>3 DEF RunTurn, TypeOK, Driving
    <3>2. QED
      BY <3>1, LedgerStutters DEF Holds, Driving
  <2>4. CASE RunTurnBusy(d)
    <3>1. Moves
      BY <1>0, <2>4 DEF RunTurnBusy, TypeOK, Driving
    <3>2. QED
      BY <3>1, LedgerStutters DEF Holds, Driving
  <2>5. CASE EngineReturns(d)
    <3>1. Moves
      BY <1>0, <2>5 DEF EngineReturns, TypeOK, Driving
    <3>2. QED
      BY <3>1, LedgerStutters DEF Holds, Driving
  <2>6. CASE ReadQueue(d)
    <3>1. Moves
      BY <1>0, <2>6 DEF ReadQueue, TypeOK, Driving
    <3>2. QED
      BY <3>1, LedgerStutters DEF Holds, Driving
  <2>7. QED
    BY <1>4, <2>1, <2>2, <2>3, <2>4, <2>5, <2>6
<1>5. ASSUME NEW d \in Sends, SettleTurn(d)
      PROVE  Promise!Advance \/ UNCHANGED Promise!ledger
  <2>1. /\ pc[d] = "returned"
        /\ pc'[d] = "settling"
        /\ \A u \in Sends : u # d => pc'[u] = pc[u]
        /\ UNCHANGED <<cur, settled, dropped>>
        /\ nxt[d] = None
    BY <1>0, <1>5 DEF SettleTurn, TypeOK, Rest, Shape
  <2>2. CASE queue = <<>>
    <3>1. queue' = queue /\ nxt' = nxt
      BY <1>5, <2>2, Zenon DEF SettleTurn
    <3>2. QED
      BY <2>1, <3>1, LedgerStutters DEF Holds, Driving
  <2>3. CASE queue # <<>>
    <3> DEFINE h == Head(queue)
    <3>1. nxt' = [nxt EXCEPT ![d] = h] /\ queue' = Tail(queue)
      BY <1>5, <2>3, Zenon DEF SettleTurn
    <3>2. h \in Sends
      BY <1>0, <2>3, TailFacts DEF TypeOK
    <3>3. /\ nxt'[d] = h
          /\ \A e \in Sends : e # d => nxt'[e] = nxt[e]
      BY <1>0, <3>1 DEF TypeOK
    <3>4. Held' = Held \cup {h}
      <4> HIDE DEF h
      <4>1. /\ \A e, m \in Sends : e # d => (Holds(e, m)' <=> Holds(e, m))
            /\ \A m \in Sends : Holds(d, m)' <=> Holds(d, m) \/ m = h
        BY <1>0, <2>1, <3>2, <3>3 DEF Holds, Driving
      <4>2. QED
        BY <3>2, <4>1 DEF Held
    <3>5. QED
      BY <2>1, <2>3, <3>1, <3>4 DEF Promise!Advance
  <2>4. QED
    BY <2>2, <2>3
<1>6. ASSUME NEW d \in Sends, AnnounceSettled(d)  PROVE Promise!Finish(cur[d])
  <2>1. /\ pc[d] = "settling"
        /\ pc'[d] \in {"done", "snapshot"}
        /\ \A u \in Sends : u # d => pc'[u] = pc[u]
        /\ settled' = settled \cup {cur[d]}
        /\ cur[d] \in Sends
        /\ UNCHANGED <<queue, cur, nxt, dropped>>
    BY <1>0, <1>6 DEF AnnounceSettled, TypeOK
  <2>2. Holds(d, cur[d]) /\ nxt[d] # cur[d]
    BY <1>0, <2>1 DEF Holds, Rest, Shape
  <2>3. \A e \in Sends : Holds(e, cur[d]) => e = d
    BY <1>0, <2>1, <2>2 DEF Rest, EveryMessageHasOnePlace, OnePlace
  <2>4. /\ \A e, m \in Sends : e # d => (Holds(e, m)' <=> Holds(e, m))
        /\ \A m \in Sends : Holds(d, m)' <=> Holds(d, m) /\ m # cur[d]
    BY <2>1, <2>2 DEF Holds, Driving
  <2>5. cur[d] \in Held /\ Held' = Held \ {cur[d]}
    BY <2>1, <2>2, <2>3, <2>4 DEF Held
  <2>6. QED
    BY <2>1, <2>5 DEF Promise!Finish
<1>7. ASSUME NEW d \in Sends, PushAndGoOn(d)  PROVE UNCHANGED Promise!ledger
  <2>1. /\ pc[d] = "pushing" /\ pc'[d] = "opening"
        /\ nxt[d] \in Sends /\ nxt'[d] = None /\ cur'[d] = nxt[d]
        /\ \A u \in Sends : u # d =>
              pc'[u] = pc[u] /\ cur'[u] = cur[u] /\ nxt'[u] = nxt[u]
        /\ UNCHANGED <<queue, settled, dropped>>
    BY <1>0, <1>7 DEF PushAndGoOn, TypeOK
  <2>2. QED
    BY <1>0, <2>1, LedgerStutters DEF Holds, Driving
<1>8. ASSUME NEW t \in Tasks, PushQueue(t)  PROVE UNCHANGED Promise!ledger
  <2>1. /\ pc[t] = "telling" /\ pc'[t] = "done"
        /\ \A u \in Sends : u # t => pc'[u] = pc[u]
        /\ UNCHANGED <<queue, cur, nxt, settled, dropped>>
    BY <1>0, <1>8 DEF PushQueue, TypeOK
  <2>2. QED
    BY <2>1, LedgerStutters DEF Holds, Driving
<1>9. ASSUME NEW i \in Stops, InterruptEngine(i)  PROVE UNCHANGED Promise!ledger
  <2>1. /\ \A s \in Sends : pc'[s] = pc[s]
        /\ UNCHANGED <<queue, cur, nxt, settled, dropped>>
    BY <1>0, <1>9, TasksAreDistinct DEF InterruptEngine, TypeOK
  <2>2. QED
    BY <2>1, LedgerStutters DEF Holds
<1>10. ASSUME NEW i \in Stops, InterruptClear(i)  PROVE Promise!Abandon
  <2>1. \A s \in Sends : pc'[s] = pc[s] /\ cur'[s] = cur[s] /\ nxt'[s] = nxt[s]
    BY <1>0, <1>10, TasksAreDistinct DEF InterruptClear, TypeOK
  <2>2. Held' = Held
    BY <2>1 DEF Held, Holds
  <2>3. QED
    BY <1>10, <2>2 DEF InterruptClear, Promise!Abandon, Promise!ToSet, ToSet
<1>11. ASSUME NEW r \in Removals, QueueRemove(r)
       PROVE  (\E k \in DOMAIN queue : Promise!Withdraw(k)) \/ UNCHANGED Promise!ledger
  <2>1. \A s \in Sends : pc'[s] = pc[s] /\ cur'[s] = cur[s] /\ nxt'[s] = nxt[s]
    BY <1>0, <1>11, TasksAreDistinct DEF QueueRemove, TypeOK
  <2>2. Held' = Held /\ settled' = settled
    BY <1>11, <2>1 DEF Held, Holds, QueueRemove
  <2>3. QED
    BY <1>11, <2>2 DEF QueueRemove, Promise!Withdraw, Promise!ledger, Promise!RemoveAt, RemoveAt
<1>12. ASSUME NEW c \in Closes, CloseEngine(c)  PROVE UNCHANGED Promise!ledger
  <2>1. /\ \/ pc' = [pc EXCEPT ![c] = "failed"]
           \/ pc' = [pc EXCEPT ![c] = "removing"]
        /\ UNCHANGED <<hub, cur, nxt, history>>
    BY <1>12, Zenon DEF CloseEngine
  <2>2. \A s \in Sends : pc'[s] = pc[s]
    BY <1>0, <2>1, TasksAreDistinct DEF TypeOK
  <2>3. QED
    BY <2>1, <2>2, LedgerStutters DEF Holds
<1>13. ASSUME NEW c \in Closes, CloseRemove(c)  PROVE Promise!Abandon
  <2>1. \A s \in Sends : pc'[s] = pc[s] /\ cur'[s] = cur[s] /\ nxt'[s] = nxt[s]
    BY <1>0, <1>13, TasksAreDistinct DEF CloseRemove, TypeOK
  <2>2. Held' = Held
    BY <2>1 DEF Held, Holds
  <2>3. QED
    BY <1>13, <2>2 DEF CloseRemove, Promise!Abandon, Promise!ToSet, ToSet
<1>14. CASE UNCHANGED vars
  BY <1>14, LedgerStutters DEF vars, tasks, Holds
<1>15. ASSUME NEW t \in Tasks, CallDropped(t)
       PROVE  UNCHANGED Promise!ledger \/ (t \in Sends /\ Promise!Lose(t))
  <2>1. /\ \A u \in Sends : u # t => pc'[u] = pc[u]
        /\ UNCHANGED <<queue, cur, nxt, settled>>
    BY <1>0, <1>15 DEF CallDropped, TypeOK
  <2>2. CASE t \in Sends /\ pc[t] \in {"opening", "opened"}
    <3>1. pc'[t] = "lost" /\ dropped' = dropped \cup {t} /\ cur[t] = t /\ nxt[t] = None
      BY <1>0, <1>15, <2>2 DEF CallDropped, TypeOK, Rest, Shape
    <3>2. Holds(t, t) /\ \A m \in Sends : ~Holds(t, m)' /\ (Holds(t, m) => m = t)
      BY <1>0, <2>1, <2>2, <3>1 DEF Holds, Driving
    <3>3. \A e, m \in Sends : e # t => (Holds(e, m)' <=> Holds(e, m))
      BY <2>1 DEF Holds
    <3>4. \A e \in Sends : Holds(e, t) => e = t
      BY <1>0, <2>2, <3>2 DEF Rest, EveryMessageHasOnePlace, OnePlace
    <3>5. t \in Held /\ Held' = Held \ {t}
      BY <2>2, <3>2, <3>3, <3>4 DEF Held
    <3>6. QED
      BY <2>1, <2>2, <3>1, <3>5 DEF Promise!Lose
  <2>3. CASE t \in Sends /\ pc[t] \notin {"opening", "opened"}
    <3>1. /\ dropped' = dropped
          /\ pc[t] \in {"known", "watching", "queueing", "clearing", "removing", "telling"}
          /\ pc'[t] \in {"failed", "done"}
      BY <1>0, <1>15, <2>3 DEF CallDropped, TypeOK
    <3>2. QED
      BY <2>1, <2>3, <3>1, LedgerStutters DEF Holds, Driving
  <2>4. CASE t \notin Sends
    <3>1. dropped' = dropped
      BY <1>15, <2>4 DEF CallDropped
    <3>2. QED
      BY <2>1, <2>4, <3>1, LedgerStutters DEF Holds
  <2>5. QED
    BY <2>2, <2>3, <2>4
<1>16. QED
  BY <1>0, <1>1, <1>2, <1>3, <1>4, <1>5, <1>6, <1>7, <1>8, <1>9, <1>10, <1>11,
     <1>12, <1>13, <1>14, <1>15
     DEF Next, Send, TurnLoop, Promise!Next, TypeOK

\* The interleaved turn loop keeps the promise of module TurnLedger: messages are
\* taken off the queue in the order they went on, each is promised one turn and
\* reported settled once, and an abandoned message never runs.
THEOREM HubKeepsThePromise == Spec => KeepsThePromise
<1>1. Init => Promise!Init
  <2> SUFFICES ASSUME Init  PROVE Promise!Init
    OBVIOUS
  <2>1. Held = {}
    BY TasksAreDistinct DEF Init, Held, Holds, Driving, Tasks
  <2>2. QED
    BY <2>1 DEF Init, Promise!Init
<1>2. QED
  BY <1>1, LedgerStep, Invariance, PTL DEF Spec, KeepsThePromise, Promise!Spec


-----------------------------------------------------------------------------
(* Frames and attaches                                                     *)

\* A step with frames is a step of the turn loop or leaves it alone.
LEMMA FramesStep == FramesNext => [Next]_vars
<1> SUFFICES ASSUME FramesNext  PROVE [Next]_vars
  OBVIOUS
<1>1. CASE TurnsOnly
  <2>1. ASSUME NEW s \in Sends,
               \/ SendGet(s) \/ SendReadBusy(s) \/ SendEnqueue(s)
               \/ RunTurnBusy(s) \/ EngineReturns(s)
               \/ AnnounceSettled(s) \/ ReadQueue(s) \/ PushAndGoOn(s)
        PROVE  Next
    BY <2>1, Zenon DEF Next, Send, TurnLoop
  <2>2. QED
    BY <1>1, <2>1, Zenon DEF TurnsOnly, Next
<1>2. ASSUME NEW d \in Sends, TurnsAndFrames(d)  PROVE [Next]_vars
  <2>1. CASE WatchOnSend(d)
    BY <2>1, Zenon DEF WatchOnSend, Next, Send
  <2>2. CASE OpenNumbered(d)
    BY <2>2, Zenon DEF OpenNumbered, Next, TurnLoop
  <2>3. CASE FanOutOpening(d)
    BY <2>3, Zenon DEF FanOutOpening, Next, TurnLoop
  <2>4. CASE TakeTurn(d)
    BY <2>4, Zenon DEF TakeTurn, Next, TurnLoop
  <2>5. CASE SettleBuffer(d)
    BY <2>5, Zenon DEF SettleBuffer, Next, TurnLoop
  <2>6. CASE ReadDepth(d) \/ WriteLog(d)
    BY <2>6, Zenon DEF ReadDepth, WriteLog
  <2>7. QED
    BY <1>2, <2>1, <2>2, <2>3, <2>4, <2>5, <2>6, Zenon DEF TurnsAndFrames
<1>3. ASSUME NEW event \in EngineEvents, RouteEvent(event)  PROVE [Next]_vars
  BY <1>3, Zenon DEF RouteEvent
<1>4. ASSUME NEW k \in Closes, CloseInEngine(k) \/ ForgetSession(k)
      PROVE  [Next]_vars
  BY <1>4, Zenon DEF CloseInEngine, ForgetSession, Next
<1>7. ASSUME NEW t \in Tasks, DropCall(t)  PROVE [Next]_vars
  BY <1>7, Zenon DEF DropCall, Next
<1>5. ASSUME NEW c \in Clients, Attach(c) \/ Detach(c) \/ Disconnect(c)
      PROVE  UNCHANGED vars
  BY <1>5, Zenon DEF Attach, AttachGet, AttachReadSubscribed, AttachSubscribe,
     AttachResume, AttachFails, AttachMark, AttachCount, AttachRegister,
     Detach, Disconnect
<1>6. QED
  BY <1>1, <1>2, <1>3, <1>4, <1>5, <1>7, Zenon DEF FramesNext

\* Frames, attaches and disconnects add nothing to what the turn loop can do:
\* every behaviour of HubFrames is one of HubTurns.
THEOREM FramesImplementTurns == FramesSpec => Spec
<1>1. FramesInit => Init
  BY DEF FramesInit
<1>2. [FramesNext]_<<vars, frames>> => [Next]_vars
  <2>1. UNCHANGED <<vars, frames>> => UNCHANGED vars
    OBVIOUS
  <2>2. QED
    BY <2>1, FramesStep, Zenon
<1>3. QED
  BY <1>1, <1>2, PTL DEF FramesSpec, Spec

\* With frames and attaches too, a message has one place.
THEOREM FramesKeepOnePlace == FramesSpec => []EveryMessageHasOnePlace
BY FramesImplementTurns, MessagesHaveOnePlace, PTL

-----------------------------------------------------------------------------

\* A close is between its two halves.
Closing == \E k \in Closes : pc[k] = "removing"

\* The session is heard, or a close is at work or went wrong.
HeardOrClosed == listening \/ deaf \/ Closing

\* How far an attach has got says what the hub and the engine know by then, if
\* no close fell into it.
ListenInv ==
    /\ at \in [Clients -> Attaching]
    /\ DOMAIN base = Clients
    /\ \A c \in Clients \ crossed :
        /\ at[c] = "marking" => listening
        /\ at[c] \in {"counting", "registering"} => HeardOrClosed
    /\ subscribed \/ (\E c \in Clients : base[c] # None) => HeardOrClosed

\* Only its second half, or its loss, ends what a close has begun.
LEMMA ClosingStays ==
    ASSUME TypeOK, Closing, NEW t \in Tasks, NEW label,
           pc[t] # "removing", Goto(t, label)
    PROVE  Closing'
  BY DEF Closing, TypeOK, Goto

LEMMA TurnsLeaveClosing ==
    ASSUME TypeOK, Closing,
           TurnsOnly \/ \E d \in Sends : TurnsAndFrames(d)
    PROVE  Closing'
<1>1. ASSUME NEW t \in Tasks, NEW label, pc[t] # "removing", Goto(t, label)
      PROVE  Closing'
  BY <1>1, ClosingStays
<1>2. ASSUME UNCHANGED pc  PROVE Closing'
  BY <1>2 DEF Closing
<1>3. Sends \subseteq Tasks /\ Stops \subseteq Tasks /\ Removals \subseteq Tasks
  BY DEF Tasks
<1>4. ASSUME NEW s \in Sends,
             \/ SendGet(s) \/ SendWatch(s) \/ SendReadBusy(s) \/ SendEnqueue(s)
             \/ TurnLoop(s)
      PROVE  Closing'
  <2>1. s \in Tasks
    BY <1>3
  <2>2. \E label : pc[s] # "removing" /\ Goto(s, label)
    <3>1. CASE SendGet(s) \/ SendWatch(s) \/ SendReadBusy(s) \/ SendEnqueue(s)
      BY <3>1 DEF SendGet, SendWatch, SendReadBusy, SendEnqueue
    <3>2. CASE TurnLoop(s)
      BY <3>2 DEF TurnLoop, OpenTurn, AnnounceOpened, RunTurn, RunTurnBusy,
         EngineReturns, SettleTurn, AnnounceSettled, ReadQueue, PushAndGoOn
    <3>3. QED
      BY <1>4, <3>1, <3>2
  <2>3. QED
    BY <2>1, <2>2, <1>1
<1>5. ASSUME NEW i \in Stops, InterruptEngine(i) \/ InterruptClear(i)
      PROVE  Closing'
  <2>1. \E label : pc[i] # "removing" /\ Goto(i, label)
    BY <1>5 DEF InterruptEngine, InterruptClear
  <2>2. QED
    BY <2>1, <1>1, <1>3
<1>6. ASSUME NEW r \in Removals, QueueRemove(r)  PROVE Closing'
  <2>1. pc[r] # "removing" /\ Goto(r, "telling")
    BY <1>6 DEF QueueRemove
  <2>2. QED
    BY <2>1, <1>1, <1>3
<1>7. ASSUME NEW t \in Tasks, PushQueue(t)  PROVE Closing'
  <2>1. pc[t] # "removing" /\ Goto(t, "done")
    BY <1>7 DEF PushQueue
  <2>2. QED
    BY <2>1, <1>1
<1>8. CASE TurnsOnly
  BY <1>8, <1>4, <1>5, <1>6, <1>7, Zenon DEF TurnsOnly, TurnLoop
<1>9. ASSUME NEW d \in Sends, TurnsAndFrames(d)  PROVE Closing'
  <2>1. CASE ReadDepth(d) \/ WriteLog(d)
    BY <2>1, <1>2, Zenon DEF ReadDepth, WriteLog, vars, tasks
  <2>2. CASE WatchOnSend(d)
    BY <2>2, <1>4, Zenon DEF WatchOnSend
  <2>3. CASE OpenNumbered(d) \/ FanOutOpening(d) \/ TakeTurn(d) \/ SettleBuffer(d)
    <3>1. TurnLoop(d)
      BY <2>3, Zenon
      DEF OpenNumbered, FanOutOpening, TakeTurn, SettleBuffer, TurnLoop
    <3>2. QED
      BY <3>1, <1>4
  <2>4. QED
    BY <1>9, <2>1, <2>2, <2>3, Zenon DEF TurnsAndFrames
<1>10. QED
  BY <1>8, <1>9

LEMMA ListenStep ==
    ASSUME TypeOK, ListenInv, [FramesNext]_<<vars, frames>>
    PROVE  ListenInv'
<1> USE DEF ListenInv, HeardOrClosed
<1>1. ASSUME UNCHANGED <<at, base, subscribed, listening, mishaps>>,
             Closing => Closing'
      PROVE  ListenInv'
  BY <1>1 DEF mishaps
<1>2. CASE TurnsOnly
  <2>1. UNCHANGED <<at, base, subscribed, listening, mishaps>>
    BY <1>2 DEF TurnsOnly, frames, session, log, clients
  <2>2. QED
    BY <2>1, <1>2, <1>1, TurnsLeaveClosing
<1>3. ASSUME NEW d \in Sends, TurnsAndFrames(d)  PROVE ListenInv'
  <2>1. UNCHANGED <<at, base, subscribed, listening, mishaps>>
    BY <1>3, Zenon DEF TurnsAndFrames, WatchOnSend, ReadDepth, OpenNumbered,
       FanOutOpening, TakeTurn, SettleBuffer, WriteLog, session, log, clients
  <2>2. QED
    BY <2>1, <1>3, <1>1, TurnsLeaveClosing
<1>4. CASE UNCHANGED <<vars, frames>> \/ \E event \in EngineEvents : RouteEvent(event)
  <2>1. UNCHANGED <<at, base, subscribed, listening, mishaps, pc>>
    BY <1>4, Zenon DEF RouteEvent, frames, session, log, clients, vars, tasks
  <2>2. QED
    BY <2>1, <1>1 DEF Closing
<1>5. ASSUME NEW c \in Clients, Attach(c)  PROVE ListenInv'
  <2> USE DEF GoAttach, Attaching, session, log, mishaps, vars, tasks, Closing
  <2>1. CASE AttachGet(c)
    BY <2>1 DEF AttachGet
  <2>2. CASE AttachReadSubscribed(c)
    BY <2>2 DEF AttachReadSubscribed
  <2>3. CASE AttachSubscribe(c)
    BY <2>3 DEF AttachSubscribe
  <2>4. CASE AttachResume(c)
    BY <2>4 DEF AttachResume
  <2>5. CASE AttachFails(c)
    BY <2>5 DEF AttachFails
  <2>6. CASE AttachMark(c)
    BY <2>6 DEF AttachMark
  <2>7. CASE AttachCount(c)
    BY <2>7 DEF AttachCount
  <2>8. CASE AttachRegister(c)
    BY <2>8 DEF AttachRegister
  <2>9. QED
    BY <1>5, <2>1, <2>2, <2>3, <2>4, <2>5, <2>6, <2>7, <2>8, Zenon DEF Attach
<1>6. ASSUME NEW c \in Clients, Detach(c) \/ Disconnect(c)  PROVE ListenInv'
  <2> USE DEF log, mishaps, vars, tasks, Closing
  <2>1. CASE Detach(c)
    BY <2>1 DEF Detach
  <2>2. CASE Disconnect(c)
    BY <2>2 DEF Disconnect
  <2>3. QED
    BY <1>6, <2>1, <2>2
\* The first half of a close crosses every attach past its subscribe.
<1>7. ASSUME NEW k \in Closes, CloseInEngine(k)  PROVE ListenInv'
  <2>0. k \in Tasks
    BY DEF Tasks
  <2>1. CASE pc'[k] = "failed"
    <3>1. UNCHANGED <<at, base, subscribed, listening, mishaps>>
      BY <1>7, <2>1 DEF CloseInEngine, session, clients, log, mishaps
    <3>2. \E label : pc[k] # "removing" /\ Goto(k, label)
      BY <1>7 DEF CloseInEngine, CloseEngine
    <3>3. QED
      BY <3>1, <3>2, <2>0, <1>1, ClosingStays
  <2>2. CASE pc'[k] = "removing"
    <3>1. Closing'
      BY <2>2 DEF Closing
    <3>2. /\ UNCHANGED <<at, base, subscribed>>
          /\ crossed' = crossed \cup Subscribed
      BY <1>7, <2>2 DEF CloseInEngine, session, clients
    <3>3. QED
      BY <3>1, <3>2 DEF Subscribed
  <2>3. QED
    BY <1>7, <2>1, <2>2 DEF CloseInEngine
\* The second half takes everything back that an attach had been promised.
<1>8. ASSUME NEW k \in Closes, ForgetSession(k)  PROVE ListenInv'
  BY <1>8 DEF ForgetSession, Subscribed
<1>9. ASSUME NEW t \in Tasks, DropCall(t)  PROVE ListenInv'
  <2>1. UNCHANGED <<at, base, subscribed, listening, crossed>>
    BY <1>9, Zenon DEF DropCall, session, log, clients
  <2>2. CASE pc[t] = "removing"
    BY <1>9, <2>1, <2>2 DEF DropCall
  <2>3. CASE pc[t] # "removing"
    <3>1. deaf' = (deaf \/ FALSE) /\ \E label : Goto(t, label)
      BY <1>9, <2>3 DEF DropCall, CallDropped
    <3>2. Closing => Closing'
      BY <3>1, <2>3, ClosingStays
    <3>3. QED
      BY <2>1, <3>1, <3>2
  <2>4. QED
    BY <2>2, <2>3
<1>10. QED
  BY <1>2, <1>3, <1>4, <1>5, <1>6, <1>7, <1>8, <1>9, Zenon DEF FramesNext

\* However attaches, closes, sends and dropped calls interleave, the hub is deaf
\* to a session it serves only after a close fell into an attach or stopped half
\* way.
THEOREM HubIsDeafOnlyThroughAClose == FramesSpec => []DeafOnlyThroughAClose
<1>1. FramesInit => ListenInv
  BY DEF FramesInit, ListenInv, Attaching
<1>2. TypeOK /\ ListenInv /\ [FramesNext]_<<vars, frames>> => ListenInv'
  BY ListenStep
<1>3. ListenInv => DeafOnlyThroughAClose
  BY DEF ListenInv, HeardOrClosed, Closing, DeafOnlyThroughAClose
<1>4. FramesSpec => []TypeOK
  BY FramesImplementTurns, TypeCorrect, PTL
<1>5. QED
  BY <1>1, <1>2, <1>3, <1>4, PTL DEF FramesSpec

-----------------------------------------------------------------------------
(* The types of the frame side *)

FrameKinds == {"text_delta", "tool_use", "user_message"}

Received == [seq : Nat \ {0}, kind : {"user_message", "event"}]

\* What the session state, the log and the clients hold; an opening under way
\* has a number.
FieldsInv ==
    /\ before \in Nat
    /\ watchers \subseteq Clients
    /\ {subscribed, loaded, listening} \subseteq BOOLEAN
    /\ total \in [Sends -> Nat \cup {None}]
    /\ out \in [Sends -> [seq : Nat, to : SUBSET Clients]]
    /\ \A d \in Sends : out[d].to # {} => out[d].seq # 0
    /\ disk \subseteq begun /\ begun \subseteq Sends /\ IsFiniteSet(begun)
    /\ connected \subseteq Clients
    /\ at \in [Clients -> Attaching]
    /\ seen \in [Clients -> SUBSET Sends]
    /\ base \in [Clients -> Nat \cup {None}]
    /\ got \in [Clients -> Seq(Received)]

\* The frames a client has stay typed when one more is delivered.
LEMMA DeliverTyped ==
    ASSUME got \in [Clients -> Seq(Received)], NEW to, NEW frame \in Received,
           Deliver(to, frame)
    PROVE  got' \in [Clients -> Seq(Received)]
BY DEF Deliver

\* The depth of the log is a number.
LEMMA DepthsAreNumbers ==
    ASSUME FieldsInv
    PROVE  Depths \subseteq Nat
<1>1. IsFiniteSet(disk)
  BY FS_Subset DEF FieldsInv
<1>2. Cardinality(disk) \in Nat
  BY <1>1, FS_CardinalityType
<1>3. QED
  BY <1>2 DEF Depths

LEMMA FieldsOfTurns ==
    ASSUME TypeOK, FieldsInv, seq \in Nat, NEW d \in Sends, TurnsAndFrames(d)
    PROVE  FieldsInv'
<1> USE DEF FieldsInv
<1>1. CASE WatchOnSend(d)
  BY <1>1 DEF WatchOnSend, driving, log, clients
<1>2. CASE ReadDepth(d)
  <2>1. Depths \subseteq Nat
    BY DepthsAreNumbers
  <2>2. total' \in [Sends -> Nat \cup {None}]
    BY <1>2, <2>1 DEF ReadDepth
  <2>3. QED
    BY <1>2, <2>2 DEF ReadDepth, session, log, clients
<1>3. CASE OpenNumbered(d)
  <2>1. seq' \in Nat \ {0} /\ before' \in Nat
    BY <1>3 DEF OpenNumbered
  <2>2. /\ total' \in [Sends -> Nat \cup {None}]
        /\ out' = [out EXCEPT ![d] = [seq |-> seq', to |-> watchers]]
        /\ UNCHANGED <<watchers, subscribed, log, clients>>
    BY <1>3 DEF OpenNumbered
  <2>3. out' \in [Sends -> [seq : Nat, to : SUBSET Clients]]
    BY <2>1, <2>2
  <2>4. \A e \in Sends : out'[e].to # {} => out'[e].seq # 0
    BY <2>1, <2>2
  <2>5. QED
    BY <2>1, <2>2, <2>3, <2>4 DEF log, clients
<1>4. CASE FanOutOpening(d)
  <2>1. UNCHANGED <<session, total, log, connected, at, seen, base>>
    BY <1>4 DEF FanOutOpening
  <2>2. /\ out' \in [Sends -> [seq : Nat, to : SUBSET Clients]]
        /\ \A e \in Sends : out'[e].to # {} => out'[e].seq # 0
    BY <1>4 DEF FanOutOpening, NoFrame
  <2>3. got' \in [Clients -> Seq(Received)]
    <3> DEFINE frame == [seq |-> out[d].seq, kind |-> "user_message"]
    <3>1. Deliver(out[d].to, frame)
      BY <1>4 DEF FanOutOpening
    <3>2. CASE out[d].to = {}
      BY <3>1, <3>2 DEF Deliver
    <3>3. CASE out[d].to # {}
      <4>1. frame \in Received
        BY <3>3 DEF Received
      <4>2. QED
        BY <3>1, <4>1, DeliverTyped
    <3>4. QED
      BY <3>2, <3>3
  <2>4. QED
    BY <2>1, <2>2, <2>3 DEF session, log
<1>5. CASE TakeTurn(d)
  <2>1. begun' = begun \cup {cur[d]} /\ cur[d] \in Sends /\ loaded' = TRUE
    BY <1>5 DEF TakeTurn, TypeOK
  <2>2. IsFiniteSet(begun')
    BY <2>1, FS_AddElement
  <2>3. UNCHANGED <<session, driving, listening, disk, clients>>
    BY <1>5 DEF TakeTurn
  <2>4. QED
    BY <2>1, <2>2, <2>3 DEF session, driving, clients
<1>6. CASE SettleBuffer(d)
  BY <1>6 DEF SettleBuffer, log, clients
<1>7. CASE WriteLog(d)
  BY <1>7 DEF WriteLog, session, driving, clients
<1>8. QED
  BY <1>1, <1>2, <1>3, <1>4, <1>5, <1>6, <1>7 DEF TurnsAndFrames

LEMMA FieldsOfAttaches ==
    ASSUME TypeOK, FieldsInv, seq \in Nat, NEW c \in Clients, Attach(c)
    PROVE  FieldsInv'
<1> USE DEF FieldsInv, GoAttach, Attaching, session, driving, log
<1>1. CASE AttachGet(c)
  BY <1>1 DEF AttachGet
<1>2. CASE AttachReadSubscribed(c)
  BY <1>2 DEF AttachReadSubscribed
<1>3. CASE AttachSubscribe(c)
  BY <1>3 DEF AttachSubscribe
<1>4. CASE AttachResume(c)
  BY <1>4 DEF AttachResume
<1>5. CASE AttachFails(c)
  BY <1>5 DEF AttachFails
<1>6. CASE AttachMark(c)
  BY <1>6 DEF AttachMark
<1>7. CASE AttachCount(c)
  BY <1>7 DEF AttachCount
<1>8. CASE AttachRegister(c)
  BY <1>8 DEF AttachRegister
<1>9. QED
  BY <1>1, <1>2, <1>3, <1>4, <1>5, <1>6, <1>7, <1>8, Zenon DEF Attach

LEMMA FieldsStep ==
    ASSUME TypeOK, FieldsInv, seq \in Nat, [FramesNext]_<<vars, frames>>
    PROVE  FieldsInv'
<1>1. CASE UNCHANGED frames
  BY <1>1 DEF FieldsInv, frames, session, driving, log, clients
<1>2. CASE TurnsOnly
  BY <1>1, <1>2 DEF TurnsOnly
<1>3. ASSUME NEW event \in EngineEvents, RouteEvent(event)  PROVE FieldsInv'
  <2> DEFINE frame == [seq |-> seq', kind |-> "event"]
  <2>1. frame \in Received /\ Deliver(watchers, frame)
    BY <1>3 DEF RouteEvent, Received
  <2>2. got' \in [Clients -> Seq(Received)]
    BY <2>1, DeliverTyped DEF FieldsInv
  <2>3. UNCHANGED <<watchers, subscribed, before, driving, log,
                    connected, at, seen, base>>
    BY <1>3 DEF RouteEvent
  <2>4. QED
    BY <2>2, <2>3 DEF FieldsInv, driving, log
<1>4. ASSUME NEW k \in Closes, CloseInEngine(k) \/ ForgetSession(k)
      PROVE  FieldsInv'
  <2>1. CASE CloseInEngine(k)
    <3>1. UNCHANGED <<session, driving, clients>>
      BY <2>1 DEF CloseInEngine
    <3>2. /\ {loaded', listening'} \subseteq BOOLEAN
          /\ disk' \subseteq begun' /\ begun' \subseteq Sends /\ IsFiniteSet(begun')
      BY <2>1, FS_EmptySet DEF CloseInEngine, log, FieldsInv
    <3>3. QED
      BY <3>1, <3>2 DEF FieldsInv, session, driving, clients
  <2>2. CASE ForgetSession(k)
    BY <2>2 DEF ForgetSession, FieldsInv, driving, log
  <2>3. QED
    BY <1>4, <2>1, <2>2
<1>5. ASSUME NEW t \in Tasks, DropCall(t)  PROVE FieldsInv'
  <2>1. CASE t \in Sends
    <3>1. /\ total' = [total EXCEPT ![t] = None] /\ out' = [out EXCEPT ![t] = NoFrame]
          /\ UNCHANGED <<session, log, clients>>
      BY <1>5, <2>1, Zenon DEF DropCall
    <3>2. total' \in [Sends -> Nat \cup {None}]
      BY <3>1 DEF FieldsInv
    <3>3. /\ out' \in [Sends -> [seq : Nat, to : SUBSET Clients]]
          /\ \A d \in Sends : out'[d].to # {} => out'[d].seq # 0
      BY <3>1 DEF FieldsInv, NoFrame
    <3>4. QED
      BY <3>1, <3>2, <3>3 DEF FieldsInv, session, log, clients
  <2>2. CASE t \notin Sends
    BY <1>5, <2>2 DEF DropCall, FieldsInv, session, driving, log, clients
  <2>3. QED
    BY <2>1, <2>2
<1>6. ASSUME NEW c \in Clients, Detach(c) \/ Disconnect(c)  PROVE FieldsInv'
  <2>1. CASE Detach(c)
    BY <2>1 DEF Detach, FieldsInv, driving, log
  <2>2. CASE Disconnect(c)
    BY <2>2 DEF Disconnect, FieldsInv, driving, log
  <2>3. QED
    BY <1>6, <2>1, <2>2
<1>7. CASE FramesNext
  BY <1>2, <1>3, <1>4, <1>5, <1>6, <1>7, FieldsOfTurns, FieldsOfAttaches, Zenon
     DEF FramesNext
<1>8. UNCHANGED <<vars, frames>> => UNCHANGED frames
  OBVIOUS
<1>9. QED
  BY <1>1, <1>7, <1>8, Zenon

-----------------------------------------------------------------------------
(* The buffer and the running turn *)

\* The frames continue each other up to the number last assigned, and begin
\* with the message of the running turn as long as nothing was cut.
BufferInv ==
    /\ seq \in Nat
    /\ replay \in Buffers(Sends, FrameKinds)
    /\ Contiguous(replay.frames, seq)
    /\ running # None /\ ~replay.truncated =>
        /\ replay.frames # <<>>
        /\ replay.frames[1].turn = running
        /\ replay.frames[1].event.kind = "user_message"

\* The empty buffer, whatever number was the last.
LEMMA EmptyBuffer ==
    ASSUME NEW last
    PROVE  /\ Empty \in Buffers(Sends, FrameKinds)
           /\ Contiguous(Empty.frames, last)
           /\ Empty.frames = <<>> /\ ~Empty.truncated
<1>1. <<>> \in Seq(Kept(Sends, FrameKinds)) /\ Len(<<>>) = 0
  OBVIOUS
<1>2. QED
  BY <1>1 DEF Empty, Buffers, Contiguous

\* Steps that leave the buffer alone open no turn.
LEMMA BufferKept ==
    ASSUME BufferInv, UNCHANGED <<seq, replay>>, running' \in {running, None}
    PROVE  BufferInv'
BY DEF BufferInv

LEMMA OpeningBuffered ==
    ASSUME TypeOK, BufferInv, NEW d \in Sends, OpenNumbered(d)
    PROVE  BufferInv'
<1> DEFINE p == Push(Empty, seq + 1, cur[d], UserMessage)
<1>1. /\ seq \in Nat /\ seq' = seq + 1 /\ cur[d] \in Sends /\ running' = cur[d]
      /\ replay' = p
  BY DEF OpenNumbered, OpenTurn, BufferInv, TypeOK
<1>2. UserMessage \in Happening(FrameKinds) /\ UserMessage.kind = "user_message"
  BY DEF UserMessage, Happening, FrameKinds
<1> HIDE DEF UserMessage
<1>3. /\ p \in Buffers(Sends, FrameKinds)
      /\ Contiguous(p.frames, seq + 1)
      /\ ~p.truncated =>
           /\ p.frames # <<>>
           /\ p.frames[1].turn = cur[d]
           /\ p.frames[1].event.kind = UserMessage.kind
  <2>1. /\ Empty \in Buffers(Sends, FrameKinds) /\ Contiguous(Empty.frames, seq)
        /\ Empty.frames = <<>>
    BY EmptyBuffer
  <2>2. /\ seq \in Nat /\ cur[d] \in Sends /\ UserMessage \in Happening(FrameKinds)
    BY <1>1, <1>2
  <2>3. PushesOn(Sends, FrameKinds, p, Empty, seq, cur[d], UserMessage)
    BY <2>1, <2>2, PushFacts
  <2> HIDE DEF p
  <2>4. QED
    BY <2>1, <2>3 DEF PushesOn
<1> HIDE DEF p
<1>4. QED
  BY <1>1, <1>2, <1>3 DEF BufferInv

LEMMA EventBuffered ==
    ASSUME TypeOK, BufferInv, NEW event \in EngineEvents, RouteEvent(event)
    PROVE  BufferInv'
<1> DEFINE p == Push(replay, seq + 1, engine, event)
<1>1. /\ seq \in Nat /\ seq' = seq + 1 /\ engine \in Sends /\ running' = running
      /\ replay' = p /\ replay \in Buffers(Sends, FrameKinds)
      /\ Contiguous(replay.frames, seq)
  BY DEF RouteEvent, BufferInv, TypeOK, vars, hub
<1>2. event \in Happening(FrameKinds)
  BY DEF EngineEvents, Happening, FrameKinds
<1>3. /\ p \in Buffers(Sends, FrameKinds)
      /\ Contiguous(p.frames, seq + 1)
      /\ ~p.truncated =>
           /\ ~replay.truncated
           /\ p.frames # <<>>
           /\ replay.frames # <<>> =>
                /\ p.frames[1].turn = replay.frames[1].turn
                /\ p.frames[1].event.kind = replay.frames[1].event.kind
  <2>1. PushesOn(Sends, FrameKinds, p, replay, seq, engine, event)
    BY <1>1, <1>2, PushFacts
  <2> HIDE DEF p
  <2>2. QED
    BY <2>1 DEF PushesOn
<1> HIDE DEF p
<1>4. QED
  BY <1>1, <1>3 DEF BufferInv

LEMMA BufferStep ==
    ASSUME TypeOK, BufferInv, [FramesNext]_<<vars, frames>>
    PROVE  BufferInv'
<1>1. CASE TurnsOnly
  <2>1. UNCHANGED <<seq, replay>>
    BY <1>1, Zenon DEF TurnsOnly, frames, session
  <2>2. running' = running
    BY <1>1, Zenon DEF TurnsOnly, SendGet, SendReadBusy, SendEnqueue,
       RunTurnBusy, EngineReturns, AnnounceSettled, ReadQueue, PushAndGoOn,
       InterruptEngine, InterruptClear, QueueRemove, PushQueue, hub
  <2>3. QED
    BY <2>1, <2>2, BufferKept
<1>2. ASSUME NEW d \in Sends, TurnsAndFrames(d)  PROVE BufferInv'
  <2>1. CASE OpenNumbered(d)
    BY <2>1, OpeningBuffered
  <2>2. CASE SettleBuffer(d)
    <3>1. running' = None /\ seq' = seq /\ replay' \in {Empty, replay}
      BY <2>2 DEF SettleBuffer, SettleTurn
    <3>2. CASE replay' = Empty
      BY <3>1, <3>2, EmptyBuffer DEF BufferInv
    <3>3. CASE replay' = replay
      BY <3>1, <3>3, BufferKept
    <3>4. QED
      BY <3>1, <3>2, <3>3
  <2>3. CASE \/ WatchOnSend(d) \/ ReadDepth(d) \/ FanOutOpening(d)
             \/ TakeTurn(d) \/ WriteLog(d)
    <3>1. UNCHANGED <<seq, replay, running>>
      BY <2>3, Zenon DEF WatchOnSend, ReadDepth, FanOutOpening, TakeTurn, WriteLog,
         SendWatch, AnnounceOpened, RunTurn, vars, hub, session
    <3>2. QED
      BY <3>1, BufferKept
  <2>4. QED
    BY <1>2, <2>1, <2>2, <2>3 DEF TurnsAndFrames
<1>3. ASSUME NEW event \in EngineEvents, RouteEvent(event)  PROVE BufferInv'
  BY <1>3, EventBuffered
<1>4. ASSUME NEW k \in Closes, CloseInEngine(k) \/ ForgetSession(k)
      PROVE  BufferInv'
  <2>1. CASE CloseInEngine(k)
    <3>1. UNCHANGED <<seq, replay, running>>
      BY <2>1, Zenon DEF CloseInEngine, CloseEngine, hub, session
    <3>2. QED
      BY <3>1, BufferKept
  <2>2. CASE ForgetSession(k)
    <3>1. running' = None /\ seq' = 0 /\ replay' = Empty
      BY <2>2, Zenon DEF ForgetSession, CloseRemove
    <3>2. QED
      BY <3>1, EmptyBuffer DEF BufferInv
  <2>3. QED
    BY <1>4, <2>1, <2>2
<1>5. ASSUME NEW t \in Tasks, DropCall(t)  PROVE BufferInv'
  <2>1. UNCHANGED <<seq, replay, running>>
    BY <1>5, Zenon DEF DropCall, CallDropped, hub, session
  <2>2. QED
    BY <2>1, BufferKept
<1>6. ASSUME NEW c \in Clients, Attach(c) \/ Detach(c) \/ Disconnect(c)
      PROVE  BufferInv'
  <2>1. UNCHANGED <<seq, replay, running>>
    BY <1>6, Zenon DEF Attach, AttachGet, AttachReadSubscribed, AttachSubscribe,
       AttachResume, AttachFails, AttachMark, AttachCount, AttachRegister,
       Detach, Disconnect, vars, hub, session
  <2>2. QED
    BY <2>1, BufferKept
<1>7. CASE UNCHANGED <<vars, frames>>
  <2>1. UNCHANGED <<seq, replay, running>>
    BY <1>7, Zenon DEF vars, hub, frames, session
  <2>2. QED
    BY <2>1, BufferKept
<1>8. QED
  BY <1>1, <1>2, <1>3, <1>4, <1>5, <1>6, <1>7, Zenon DEF FramesNext

\* The invariant of the frame side, with the types of the turn loop.
FramesInv ==
    /\ TypeOK
    /\ FieldsInv
    /\ BufferInv

THEOREM FramesInvariant == FramesSpec => []FramesInv
<1>1. FramesInit => FieldsInv /\ BufferInv
  <2> SUFFICES ASSUME FramesInit  PROVE FieldsInv /\ BufferInv
    OBVIOUS
  <2>1. FieldsInv
    <3>1. /\ total = [d \in Sends |-> None] /\ out = [d \in Sends |-> NoFrame]
          /\ begun = {} /\ disk = {} /\ before = 0 /\ watchers = {}
          /\ subscribed = FALSE /\ loaded \in BOOLEAN /\ listening = FALSE
      BY DEF FramesInit
    <3>2. /\ connected = Clients /\ at = [c \in Clients |-> "away"]
          /\ seen = [c \in Clients |-> {}] /\ base = [c \in Clients |-> None]
          /\ got = [c \in Clients |-> <<>>]
      BY DEF FramesInit
    <3>3. /\ at \in [Clients -> Attaching] /\ seen \in [Clients -> SUBSET Sends]
          /\ base \in [Clients -> Nat \cup {None}] /\ got \in [Clients -> Seq(Received)]
      BY <3>2 DEF Attaching
    <3>4. /\ total \in [Sends -> Nat \cup {None}]
          /\ out \in [Sends -> [seq : Nat, to : SUBSET Clients]]
          /\ \A d \in Sends : out[d].to = {}
      BY <3>1 DEF NoFrame
    <3>5. IsFiniteSet(begun)
      BY <3>1, FS_EmptySet
    <3>6. QED
      BY <3>1, <3>2, <3>3, <3>4, <3>5 DEF FieldsInv
  <2>2. seq = 0 /\ replay = Empty /\ running = None
    BY DEF FramesInit, Init
  <2>3. QED
    BY <2>1, <2>2, EmptyBuffer DEF BufferInv
<1>2. TypeOK /\ FieldsInv /\ BufferInv /\ [FramesNext]_<<vars, frames>>
          => FieldsInv' /\ BufferInv'
  <2>1. BufferInv => seq \in Nat
    BY DEF BufferInv
  <2>2. QED
    BY <2>1, FieldsStep, BufferStep
<1>3. FramesSpec => []TypeOK
  BY FramesImplementTurns, TypeCorrect, PTL
<1>4. QED
  BY <1>1, <1>2, <1>3, PTL DEF FramesSpec, FramesInv

\* Mishaps are of clients.
MishapsInv == crossed \subseteq Clients /\ deaf \in BOOLEAN

LEMMA MishapsTyped == FramesSpec => []MishapsInv
<1>1. FramesInit => MishapsInv
  BY DEF FramesInit, MishapsInv
<1>2. ASSUME MishapsInv, [FramesNext]_<<vars, frames>>  PROVE MishapsInv'
  <2>1. CASE UNCHANGED mishaps
    BY <1>2, <2>1 DEF mishaps, MishapsInv
  <2>2. ASSUME NEW k \in Closes, CloseInEngine(k) \/ ForgetSession(k)
        PROVE  MishapsInv'
    <3>1. crossed' \in {crossed, crossed \cup Subscribed}
      BY <1>2, <2>2, Zenon DEF CloseInEngine, ForgetSession, log, mishaps
    <3>2. deaf' \in {deaf, FALSE}
      BY <1>2, <2>2, Zenon DEF CloseInEngine, ForgetSession
    <3>3. QED
      BY <3>1, <3>2, <1>2 DEF MishapsInv, Subscribed
  <2>3. ASSUME NEW t \in Tasks, DropCall(t)  PROVE MishapsInv'
    <3>1. crossed' = crossed
      BY <2>3 DEF DropCall
    <3>2. deaf' = (deaf \/ pc[t] = "removing")
      BY <2>3 DEF DropCall
    <3>3. deaf' \in BOOLEAN
      BY <3>2
    <3>4. QED
      BY <3>1, <3>3, <1>2 DEF MishapsInv
  <2>4. ASSUME NEW c \in Clients,
               \/ AttachSubscribe(c) \/ AttachFails(c)
               \/ AttachMark(c) \/ AttachRegister(c)
        PROVE  MishapsInv'
    <3>1. crossed' \in {crossed, crossed \ {c}}
      BY <2>4, Zenon DEF AttachSubscribe, AttachFails, AttachMark, AttachRegister
    <3>2. \/ deaf' \in {deaf, TRUE, FALSE}
          \/ deaf' = (deaf \/ c \in crossed)
      BY <2>4, Zenon DEF AttachSubscribe, AttachFails, AttachMark, AttachRegister
    <3>3. deaf' \in BOOLEAN
      BY <3>2, <1>2 DEF MishapsInv
    <3>4. QED
      BY <3>1, <3>3, <1>2 DEF MishapsInv
  <2>5. ASSUME NEW d \in Sends, TurnsAndFrames(d)  PROVE UNCHANGED mishaps
    BY <2>5, Zenon DEF TurnsAndFrames, WatchOnSend, ReadDepth, OpenNumbered,
       FanOutOpening, TakeTurn, SettleBuffer, WriteLog, mishaps
  <2>6. ASSUME NEW event \in EngineEvents, RouteEvent(event)
        PROVE  UNCHANGED mishaps
    BY <2>6, Zenon DEF RouteEvent, mishaps
  <2>7. ASSUME NEW c \in Clients,
               \/ AttachGet(c) \/ AttachReadSubscribed(c) \/ AttachResume(c)
               \/ AttachCount(c) \/ Detach(c) \/ Disconnect(c)
        PROVE  UNCHANGED mishaps
    BY <2>7, Zenon DEF AttachGet, AttachReadSubscribed, AttachResume, AttachCount,
       Detach, Disconnect, mishaps
  <2>8. TurnsOnly \/ UNCHANGED <<vars, frames>> => UNCHANGED mishaps
    BY Zenon DEF TurnsOnly, frames
  <2>9. QED
    BY <1>2, <2>1, <2>2, <2>3, <2>4, <2>5, <2>6, <2>7, <2>8, Zenon
    DEF FramesNext, Attach
<1>3. QED
  BY <1>1, <1>2, PTL DEF FramesSpec

\* Every field of the session, of its log and of its clients keeps its type:
\* a frame that reaches a client always has a number.
THEOREM FramesTypeCorrect == FramesSpec => []FramesTypeOK
<1>1. FramesInv /\ MishapsInv => FramesTypeOK
  <2> SUFFICES ASSUME FramesInv, MishapsInv  PROVE FramesTypeOK
    OBVIOUS
  <2>1. replay.bytes \in Nat /\ seq \in Nat
    BY DEF FramesInv, BufferInv, Buffers
  <2>2. ASSUME NEW c \in Clients  PROVE \A f \in ToSet(got[c]) : f.seq \in Nat \ {0}
    <3>1. got[c] \in Seq(Received)
      BY DEF FramesInv, FieldsInv
    <3>2. \A i \in DOMAIN got[c] : got[c][i] \in Received
      BY <3>1
    <3>3. QED
      BY <3>2 DEF ToSet, Received
  <2>3. QED
    BY <2>1, <2>2 DEF FramesTypeOK, FramesInv, FieldsInv, MishapsInv
<1>2. QED
  BY <1>1, FramesInvariant, MishapsTyped, PTL

\* While a turn runs, the buffer accounts for every number from its message on
\* or says that it was cut, whatever is merged, dropped, settled or closed.
THEOREM RunningTurnsAreBuffered == FramesSpec => []RunningTurnIsBuffered
<1>1. FramesInv => RunningTurnIsBuffered
  BY DEF FramesInv, BufferInv, RunningTurnIsBuffered, Contiguous
<1>2. QED
  BY <1>1, FramesInvariant, PTL

-----------------------------------------------------------------------------
(* What an attached client received since its reply *)

\* What FramesFollowTheReply says of one client: the frames it received, the
\* seq of its reply, the openings under way to it and the last number.
Follows(received, from, under, last) ==
    LET after == {i \in DOMAIN received : received[i].seq > from}
        events == {i \in DOMAIN received : received[i].kind = "event"}
    IN  /\ \A i, j \in after : received[i].seq = received[j].seq => i = j
        /\ \A i \in after : received[i].seq \notin under
        /\ {received[i].seq : i \in after} \cup {n \in under : n > from}
                = (from + 1) .. last
        /\ events \subseteq after
        /\ \A i, j \in events : i < j => received[i].seq < received[j].seq

\* A client that attaches has received nothing and lacks nothing.
LEMMA FollowsFresh ==
    ASSUME NEW last \in Nat, NEW under \in SUBSET (0 .. last)
    PROVE  Follows(<<>>, last, under, last)
<1>1. DOMAIN <<>> = {}
  OBVIOUS
<1>2. (last + 1) .. last = {} /\ \A n \in 0 .. last : ~(n > last)
  OBVIOUS
<1>3. QED
  BY <1>1, <1>2 DEF Follows

\* A new opening is under way to the watchers.
LEMMA FollowsOpening ==
    ASSUME NEW received \in Seq(Received), NEW last \in Nat, NEW from \in 0 .. last,
           NEW under \in SUBSET (0 .. last), Follows(received, from, under, last)
    PROVE  Follows(received, from, under \cup {last + 1}, last + 1)
<1> DEFINE after == {i \in DOMAIN received : received[i].seq > from}
           told == {received[i].seq : i \in after}
<1>1. told \cup {n \in under : n > from} = (from + 1) .. last
  BY DEF Follows
<1>2. \A i \in after : received[i].seq \in (from + 1) .. last
  BY <1>1
<1>3. \A i \in after : received[i].seq \notin under \cup {last + 1}
  BY <1>2 DEF Follows
<1>4. told \cup {n \in under \cup {last + 1} : n > from} = (from + 1) .. (last + 1)
  <2>1. {n \in under \cup {last + 1} : n > from} = {n \in under : n > from} \cup {last + 1}
    OBVIOUS
  <2>2. (from + 1) .. (last + 1) = ((from + 1) .. last) \cup {last + 1}
    OBVIOUS
  <2> HIDE DEF told
  <2>3. QED
    BY <1>1, <2>1, <2>2
<1>5. QED
  BY <1>3, <1>4 DEF Follows

\* An event is received under the next number as it is assigned.
LEMMA FollowsEvent ==
    ASSUME NEW received \in Seq(Received), NEW last \in Nat, NEW from \in 0 .. last,
           NEW under \in SUBSET (0 .. last), Follows(received, from, under, last)
    PROVE  Follows(Append(received, [seq |-> last + 1, kind |-> "event"]),
                   from, under, last + 1)
<1> DEFINE f == [seq |-> last + 1, kind |-> "event"]
           n == Len(received)
           r == Append(received, f)
           after == {i \in 1 .. n : received[i].seq > from}
           events == {i \in 1 .. n : received[i].kind = "event"}
           after1 == {i \in 1 .. n + 1 : r[i].seq > from}
           events1 == {i \in 1 .. n + 1 : r[i].kind = "event"}
<1>1. /\ n \in Nat /\ DOMAIN received = 1 .. n /\ DOMAIN r = 1 .. n + 1
      /\ \A i \in 1 .. n : r[i] = received[i]
      /\ r[n + 1] = f
  BY DEF Received
<1>2. f.seq = last + 1 /\ f.kind = "event"
  OBVIOUS
<1> HIDE DEF r, f
<1>3. /\ \A i, j \in after : received[i].seq = received[j].seq => i = j
      /\ \A i \in after : received[i].seq \notin under
      /\ {received[i].seq : i \in after} \cup {m \in under : m > from}
            = (from + 1) .. last
      /\ events \subseteq after
      /\ \A i, j \in events : i < j => received[i].seq < received[j].seq
  BY <1>1 DEF Follows
<1>4. \A i \in after : received[i].seq \in (from + 1) .. last
  BY <1>3
<1>5. after1 = after \cup {n + 1} /\ events1 = events \cup {n + 1}
  <2>1. r[n + 1].seq > from /\ r[n + 1].kind = "event"
    BY <1>1, <1>2
  <2>2. 1 .. n + 1 = (1 .. n) \cup {n + 1}
    BY <1>1
  <2>3. QED
    BY <1>1, <2>1, <2>2
<1>6. \A i, j \in after1 : r[i].seq = r[j].seq => i = j
  BY <1>1, <1>2, <1>3, <1>4, <1>5
<1>7. \A i \in after1 : r[i].seq \notin under
  BY <1>1, <1>2, <1>3, <1>5
<1>8. {r[i].seq : i \in after1} \cup {m \in under : m > from} = (from + 1) .. (last + 1)
  <2>1. {r[i].seq : i \in after1} = {received[i].seq : i \in after} \cup {last + 1}
    BY <1>1, <1>2, <1>5
  <2>2. (from + 1) .. (last + 1) = ((from + 1) .. last) \cup {last + 1}
    OBVIOUS
  <2>3. QED
    BY <1>3, <2>1, <2>2
<1>9. events1 \subseteq after1
  BY <1>3, <1>5
<1>10. ASSUME NEW i \in events1, NEW j \in events1, i < j
       PROVE  r[i].seq < r[j].seq
  <2>1. i \in events /\ i \in 1 .. n /\ received[i].seq \in (from + 1) .. last
    BY <1>1, <1>3, <1>4, <1>5, <1>10
  <2>2. r[i].seq = received[i].seq
    BY <1>1, <2>1
  <2>3. CASE j \in events
    <3>1. r[j].seq = received[j].seq
      BY <1>1, <2>3
    <3>2. QED
      BY <1>3, <1>10, <2>1, <2>2, <2>3, <3>1
  <2>4. CASE j = n + 1
    BY <1>1, <1>2, <2>1, <2>2, <2>4
  <2>5. QED
    BY <1>5, <2>3, <2>4
<1>11. Follows(r, from, under, last + 1)
  BY <1>1, <1>6, <1>7, <1>8, <1>9, <1>10 DEF Follows
<1>12. QED
  BY <1>11 DEF r, f

\* An opening that arrives is no longer under way.
LEMMA FollowsArrival ==
    ASSUME NEW received \in Seq(Received), NEW last \in Nat, NEW from \in 0 .. last,
           NEW under \in SUBSET (0 .. last), Follows(received, from, under, last),
           NEW given \in under \ {0}
    PROVE  Follows(Append(received, [seq |-> given, kind |-> "user_message"]),
                   from, under \ {given}, last)
<1> DEFINE f == [seq |-> given, kind |-> "user_message"]
           n == Len(received)
           r == Append(received, f)
           after == {i \in 1 .. n : received[i].seq > from}
           events == {i \in 1 .. n : received[i].kind = "event"}
           new == IF given > from THEN {n + 1} ELSE {}
           after1 == {i \in 1 .. n + 1 : r[i].seq > from}
           events1 == {i \in 1 .. n + 1 : r[i].kind = "event"}
<1>1. /\ n \in Nat /\ DOMAIN received = 1 .. n /\ DOMAIN r = 1 .. n + 1
      /\ \A i \in 1 .. n : r[i] = received[i]
      /\ r[n + 1] = f
  BY DEF Received
<1>2. f.seq = given /\ f.kind = "user_message" /\ given \in Nat
  <2>1. given \in 0 .. last
    OBVIOUS
  <2>2. QED
    BY <2>1
<1> HIDE DEF r, f
<1>3. /\ \A i, j \in after : received[i].seq = received[j].seq => i = j
      /\ \A i \in after : received[i].seq \notin under
      /\ {received[i].seq : i \in after} \cup {m \in under : m > from}
            = (from + 1) .. last
      /\ events \subseteq after
      /\ \A i, j \in events : i < j => received[i].seq < received[j].seq
  BY <1>1 DEF Follows
<1>4. after1 = after \cup new /\ events1 = events
  <2>1. r[n + 1].seq = given /\ r[n + 1].kind # "event"
    BY <1>1, <1>2
  <2>2. 1 .. n + 1 = (1 .. n) \cup {n + 1}
    BY <1>1
  <2>3. QED
    BY <1>1, <2>1, <2>2
<1>5. \A i, j \in after1 : r[i].seq = r[j].seq => i = j
  BY <1>1, <1>2, <1>3, <1>4
<1>6. \A i \in after1 : r[i].seq \notin under \ {given}
  BY <1>1, <1>2, <1>3, <1>4
<1>7. {r[i].seq : i \in after1} \cup {m \in under \ {given} : m > from}
          = (from + 1) .. last
  <2>1. CASE given > from
    <3>1. {r[i].seq : i \in after1} = {received[i].seq : i \in after} \cup {given}
      BY <1>1, <1>2, <1>4, <2>1
    <3>2. {m \in under : m > from} = {m \in under \ {given} : m > from} \cup {given}
      BY <2>1
    <3>3. QED
      BY <1>3, <3>1, <3>2
  <2>2. CASE ~(given > from)
    <3>1. {r[i].seq : i \in after1} = {received[i].seq : i \in after}
      BY <1>1, <1>4, <2>2
    <3>2. {m \in under : m > from} = {m \in under \ {given} : m > from}
      BY <2>2
    <3>3. QED
      BY <1>3, <3>1, <3>2
  <2>3. QED
    BY <2>1, <2>2
<1>8. events1 \subseteq after1
  BY <1>3, <1>4
<1>9. \A i, j \in events1 : i < j => r[i].seq < r[j].seq
  BY <1>1, <1>3, <1>4
<1>10. Follows(r, from, under \ {given}, last)
  BY <1>1, <1>5, <1>6, <1>7, <1>8, <1>9 DEF Follows
<1>11. QED
  BY <1>10 DEF r, f

\* An opening under way belongs to the one driver that stands at it and has a
\* number of its own; an attached client watches.
OpeningsInv ==
    /\ \A d \in Sends : /\ out[d].seq <= seq
                        /\ out[d].to # {} => pc[d] = "opened"
    /\ \A d, e \in Sends :
          out[d].to # {} /\ out[e].to # {} /\ out[d].seq = out[e].seq => d = e
    /\ \A c \in connected : base[c] # None => base[c] <= seq /\ c \in watchers

AllFollow ==
    \A c \in connected : base[c] # None => Follows(got[c], base[c], UnderWay(c), seq)

FollowInv == OpeningsInv /\ AllFollow

\* What the numbers under way to a client are.
LEMMA UnderWayNumbers ==
    ASSUME FramesInv, OpeningsInv, NEW c
    PROVE  UnderWay(c) \in SUBSET (0 .. seq)
<1>1. \A d \in Sends : out[d].seq \in Nat /\ out[d].seq <= seq
  BY DEF FramesInv, FieldsInv, OpeningsInv
<1>2. QED
  BY <1>1 DEF UnderWay, FramesInv, BufferInv

\* The state of one attached client.
LEMMA ClientState ==
    ASSUME FramesInv, OpeningsInv, NEW c \in connected, base[c] # None
    PROVE  /\ got[c] \in Seq(Received) /\ seq \in Nat /\ base[c] \in 0 .. seq
           /\ UnderWay(c) \in SUBSET (0 .. seq) /\ c \in watchers /\ c \in Clients
BY UnderWayNumbers DEF FramesInv, FieldsInv, BufferInv, OpeningsInv

\* A step that numbers, delivers and registers nothing, and moves no driver
\* away from an opening under way, keeps all of it.
LEMMA FollowKept ==
    ASSUME FollowInv,
           UNCHANGED <<seq, out>>,
           connected' \subseteq connected,
           \A d \in Sends : pc[d] = "opened" => pc'[d] = "opened",
           \A c \in connected' : base'[c] # None =>
               /\ base'[c] = base[c] /\ got'[c] = got[c]
               /\ c \in watchers => c \in watchers'
    PROVE  FollowInv'
<1>1. \A c : UnderWay(c)' = UnderWay(c)
  BY DEF UnderWay
<1>2. OpeningsInv'
  BY DEF FollowInv, OpeningsInv
<1>3. ASSUME NEW c \in connected', base'[c] # None
      PROVE  Follows(got'[c], base'[c], UnderWay(c)', seq')
  <2>1. c \in connected /\ base[c] # None /\ base'[c] = base[c] /\ got'[c] = got[c]
    BY <1>3
  <2>2. Follows(got[c], base[c], UnderWay(c), seq)
    BY <2>1 DEF FollowInv, AllFollow
  <2>3. seq' = seq
    OBVIOUS
  <2>4. QED
    BY <1>1, <2>1, <2>2, <2>3
<1>4. QED
  BY <1>2, <1>3 DEF FollowInv, AllFollow

\* The opening of a turn takes the next number and is under way to every
\* client that is attached.
LEMMA FollowOpening ==
    ASSUME FramesInv, FollowInv, NEW d \in Sends, OpenNumbered(d)
    PROVE  FollowInv'
<1>1. /\ seq' = seq + 1 /\ seq \in Nat
      /\ out' = [out EXCEPT ![d] = [seq |-> seq', to |-> watchers]]
      /\ pc[d] = "opening" /\ pc' = [pc EXCEPT ![d] = "opened"]
      /\ UNCHANGED <<watchers, connected, base, got>>
  BY DEF OpenNumbered, OpenTurn, Goto, clients, FramesInv, BufferInv
<1>2. /\ pc \in [Tasks -> PC] /\ d \in Tasks /\ Sends \subseteq Tasks
      /\ DOMAIN out = Sends
      /\ \A e \in Sends : out[e].seq \in Nat /\ out[e].seq <= seq
  BY DEF FramesInv, TypeOK, FieldsInv, Tasks, FollowInv, OpeningsInv
<1>3. out[d].to = {}
  BY <1>1 DEF FollowInv, OpeningsInv
<1>4. /\ out'[d].seq = seq + 1 /\ out'[d].to = watchers
      /\ \A e \in Sends : e # d => out'[e] = out[e]
      /\ pc'[d] = "opened" /\ \A e \in Sends : e # d => pc'[e] = pc[e]
  BY <1>1, <1>2
<1>5. OpeningsInv'
  <2>1. ASSUME NEW e \in Sends
        PROVE  out'[e].seq <= seq' /\ (out'[e].to # {} => pc'[e] = "opened")
    BY <1>1, <1>2, <1>4 DEF FollowInv, OpeningsInv
  <2>2. ASSUME NEW e \in Sends, NEW h \in Sends,
               out'[e].to # {}, out'[h].to # {}, out'[e].seq = out'[h].seq
        PROVE  e = h
    BY <1>1, <1>2, <1>4, <2>2 DEF FollowInv, OpeningsInv
  <2>3. ASSUME NEW c \in connected', base'[c] # None
        PROVE  base'[c] <= seq' /\ c \in watchers'
    <3>1. c \in connected /\ base[c] # None
      BY <1>1, <2>3
    <3>2. base[c] \in 0 .. seq /\ c \in watchers
      BY <3>1, ClientState DEF FollowInv
    <3>3. QED
      BY <1>1, <3>2
  <2>4. QED
    BY <2>1, <2>2, <2>3 DEF OpeningsInv
<1>6. ASSUME NEW c \in connected', base'[c] # None
      PROVE  Follows(got'[c], base'[c], UnderWay(c)', seq')
  <2>1. c \in connected /\ base[c] # None
    BY <1>1, <1>6
  <2>2. /\ got[c] \in Seq(Received) /\ seq \in Nat /\ base[c] \in 0 .. seq
        /\ UnderWay(c) \in SUBSET (0 .. seq) /\ c \in watchers
    BY <2>1, ClientState DEF FollowInv
  <2>3. Follows(got[c], base[c], UnderWay(c), seq)
    BY <2>1 DEF FollowInv, AllFollow
  <2>4. Follows(got[c], base[c], UnderWay(c) \cup {seq + 1}, seq + 1)
    BY <2>2, <2>3, FollowsOpening
  <2>5. UnderWay(c)' = UnderWay(c) \cup {seq + 1}
    BY <1>3, <1>4, <2>2 DEF UnderWay
  <2>6. QED
    BY <1>1, <2>4, <2>5
<1>7. QED
  BY <1>5, <1>6 DEF FollowInv, AllFollow

\* It arrives at those of them that are still connected.
LEMMA FollowArrival ==
    ASSUME FramesInv, FollowInv, NEW d \in Sends, FanOutOpening(d)
    PROVE  FollowInv'
<1> DEFINE frame == [seq |-> out[d].seq, kind |-> "user_message"]
<1>1. /\ out' = [out EXCEPT ![d] = NoFrame]
      /\ pc[d] = "opened" /\ pc' = [pc EXCEPT ![d] = "calling"]
      /\ UNCHANGED <<seq, watchers, connected, base>>
      /\ got' = [c \in Clients |->
            IF c \in out[d].to \cap connected THEN Append(got[c], frame) ELSE got[c]]
  BY DEF FanOutOpening, AnnounceOpened, Goto, session, Deliver
<1>2. /\ pc \in [Tasks -> PC] /\ d \in Tasks /\ Sends \subseteq Tasks
      /\ DOMAIN out = Sends /\ seq \in Nat
      /\ \A e \in Sends : out[e].seq \in Nat /\ out[e].seq <= seq
      /\ out[d].to # {} => out[d].seq # 0
  BY DEF FramesInv, TypeOK, FieldsInv, BufferInv, Tasks, FollowInv, OpeningsInv
<1>3. /\ out'[d].seq = 0 /\ out'[d].to = {}
      /\ \A e \in Sends : e # d => out'[e] = out[e]
      /\ \A e \in Sends : e # d => pc'[e] = pc[e]
  BY <1>1, <1>2 DEF NoFrame
<1>4. OpeningsInv'
  <2>1. ASSUME NEW e \in Sends
        PROVE  out'[e].seq <= seq' /\ (out'[e].to # {} => pc'[e] = "opened")
    BY <1>1, <1>2, <1>3 DEF FollowInv, OpeningsInv
  <2>2. ASSUME NEW e \in Sends, NEW h \in Sends,
               out'[e].to # {}, out'[h].to # {}, out'[e].seq = out'[h].seq
        PROVE  e = h
    BY <1>3, <2>2 DEF FollowInv, OpeningsInv
  <2>3. ASSUME NEW c \in connected', base'[c] # None
        PROVE  base'[c] <= seq' /\ c \in watchers'
    BY <1>1, <2>3 DEF FollowInv, OpeningsInv
  <2>4. QED
    BY <2>1, <2>2, <2>3 DEF OpeningsInv
<1>5. ASSUME NEW c \in connected', base'[c] # None
      PROVE  Follows(got'[c], base'[c], UnderWay(c)', seq')
  <2>1. c \in connected /\ base[c] # None /\ base'[c] = base[c] /\ seq' = seq
    BY <1>1, <1>5
  <2>2. /\ got[c] \in Seq(Received) /\ base[c] \in 0 .. seq /\ c \in Clients
        /\ UnderWay(c) \in SUBSET (0 .. seq)
    BY <2>1, ClientState DEF FollowInv
  <2>3. Follows(got[c], base[c], UnderWay(c), seq)
    BY <2>1 DEF FollowInv, AllFollow
  <2>4. CASE c \in out[d].to
    <3>1. got'[c] = Append(got[c], frame)
      BY <1>1, <2>1, <2>2, <2>4
    <3>2. out[d].seq \in UnderWay(c) \ {0}
      BY <1>2, <2>4 DEF UnderWay
    <3>3. Follows(Append(got[c], frame), base[c], UnderWay(c) \ {out[d].seq}, seq)
      BY <1>2, <2>2, <2>3, <3>2, FollowsArrival
    <3>4. UnderWay(c)' = UnderWay(c) \ {out[d].seq}
      <4>1. \A e \in Sends : e # d /\ c \in out[e].to => out[e].seq # out[d].seq
        BY <2>4 DEF FollowInv, OpeningsInv
      <4>2. QED
        BY <1>3, <4>1 DEF UnderWay
    <3>5. QED
      BY <2>1, <3>1, <3>3, <3>4
  <2>5. CASE c \notin out[d].to
    <3>1. got'[c] = got[c]
      BY <1>1, <2>2, <2>5
    <3>2. UnderWay(c)' = UnderWay(c)
      BY <1>3, <2>5 DEF UnderWay
    <3>3. QED
      BY <2>1, <2>3, <3>1, <3>2
  <2>6. QED
    BY <2>4, <2>5
<1>6. QED
  BY <1>4, <1>5 DEF FollowInv, AllFollow

\* An event is numbered and delivered to every client attached in one step.
LEMMA FollowEvent ==
    ASSUME FramesInv, FollowInv, NEW event \in EngineEvents, RouteEvent(event)
    PROVE  FollowInv'
<1>1. /\ seq' = seq + 1 /\ seq \in Nat
      /\ UNCHANGED <<out, pc, watchers, connected, base>>
      /\ got' = [c \in Clients |->
            IF c \in watchers \cap connected
            THEN Append(got[c], [seq |-> seq', kind |-> "event"]) ELSE got[c]]
  BY DEF RouteEvent, Deliver, driving, vars, tasks, FramesInv, BufferInv
<1>2. OpeningsInv'
  <2>1. \A e \in Sends : out[e].seq \in Nat /\ out[e].seq <= seq
    BY DEF FramesInv, FieldsInv, FollowInv, OpeningsInv
  <2>2. \A e \in Sends : out'[e].seq <= seq' /\ (out'[e].to # {} => pc'[e] = "opened")
    BY <1>1, <2>1 DEF FollowInv, OpeningsInv
  <2>3. ASSUME NEW c \in connected', base'[c] # None
        PROVE  base'[c] <= seq' /\ c \in watchers'
    <3>1. c \in connected /\ base[c] # None
      BY <1>1, <2>3
    <3>2. base[c] \in 0 .. seq /\ c \in watchers
      BY <3>1, ClientState DEF FollowInv
    <3>3. QED
      BY <1>1, <3>2
  <2>4. QED
    BY <1>1, <2>2, <2>3 DEF FollowInv, OpeningsInv
<1>3. ASSUME NEW c \in connected', base'[c] # None
      PROVE  Follows(got'[c], base'[c], UnderWay(c)', seq')
  <2>1. c \in connected /\ base[c] # None
    BY <1>1, <1>3
  <2>2. /\ got[c] \in Seq(Received) /\ base[c] \in 0 .. seq /\ c \in Clients
        /\ UnderWay(c) \in SUBSET (0 .. seq) /\ c \in watchers
    BY <2>1, ClientState DEF FollowInv
  <2>3. Follows(got[c], base[c], UnderWay(c), seq)
    BY <2>1 DEF FollowInv, AllFollow
  <2>4. Follows(Append(got[c], [seq |-> seq + 1, kind |-> "event"]),
                base[c], UnderWay(c), seq + 1)
    BY <1>1, <2>2, <2>3, FollowsEvent
  <2>5. got'[c] = Append(got[c], [seq |-> seq + 1, kind |-> "event"])
    BY <1>1, <2>1, <2>2
  <2>6. UnderWay(c)' = UnderWay(c)
    BY <1>1 DEF UnderWay
  <2>7. QED
    BY <1>1, <2>4, <2>5, <2>6
<1>4. QED
  BY <1>2, <1>3 DEF FollowInv, AllFollow

\* The reply and the registration are made under one lock: the last number and
\* the first that follows meet.
LEMMA FollowRegister ==
    ASSUME FramesInv, FollowInv, NEW c \in Clients, AttachRegister(c)
    PROVE  FollowInv'
<1>1. /\ UNCHANGED <<seq, out, pc, connected>> /\ seq \in Nat
      /\ watchers' = watchers \cup {c}
      /\ base' = [base EXCEPT ![c] = seq]
      /\ got' = [got EXCEPT ![c] = <<>>]
  BY DEF AttachRegister, vars, tasks, driving, FramesInv, BufferInv
<1>2. connected \subseteq Clients /\ DOMAIN base = Clients /\ DOMAIN got = Clients
  BY DEF FramesInv, FieldsInv
<1>3. \A d : UnderWay(d)' = UnderWay(d)
  BY <1>1 DEF UnderWay
<1>4. OpeningsInv'
  <2>1. ASSUME NEW d \in connected', base'[d] # None
        PROVE  base'[d] <= seq' /\ d \in watchers'
    <3>1. CASE d = c
      BY <1>1, <1>2, <3>1
    <3>2. CASE d # c
      BY <1>1, <1>2, <2>1, <3>2 DEF FollowInv, OpeningsInv
    <3>3. QED
      BY <3>1, <3>2
  <2>2. QED
    BY <1>1, <2>1 DEF FollowInv, OpeningsInv
<1>5. ASSUME NEW d \in connected', base'[d] # None
      PROVE  Follows(got'[d], base'[d], UnderWay(d)', seq')
  <2>1. CASE d = c
    <3>1. Follows(<<>>, seq, UnderWay(c), seq)
      BY <1>1, UnderWayNumbers, FollowsFresh DEF FollowInv
    <3>2. QED
      BY <1>1, <1>2, <1>3, <2>1, <3>1
  <2>2. CASE d # c
    <3>1. d \in connected /\ base'[d] = base[d] /\ got'[d] = got[d]
      BY <1>1, <1>2, <1>5, <2>2
    <3>2. Follows(got[d], base[d], UnderWay(d), seq)
      BY <1>5, <3>1 DEF FollowInv, AllFollow
    <3>3. QED
      BY <1>1, <1>3, <3>1, <3>2
  <2>3. QED
    BY <2>1, <2>2
<1>6. QED
  BY <1>4, <1>5 DEF FollowInv, AllFollow

\* A step of one task moves no driver away from an opening, unless it stood there.
LEMMA OpenedStays ==
    ASSUME TypeOK, NEW t \in Tasks, pc[t] # "opened", NEW label, Goto(t, label)
    PROVE  \A d \in Sends : pc[d] = "opened" => pc'[d] = "opened"
<1>1. pc \in [Tasks -> PC] /\ pc' = [pc EXCEPT ![t] = label] /\ Sends \subseteq Tasks
  BY DEF TypeOK, Goto, Tasks
<1>2. QED
  BY <1>1

LEMMA FollowTurnsOnly ==
    ASSUME FramesInv, FollowInv, TurnsOnly
    PROVE  FollowInv'
<1>1. \E t \in Tasks, label \in PC : pc[t] # "opened" /\ Goto(t, label)
  <2> USE DEF Tasks, PC, Driving
  <2>1. ASSUME NEW s \in Sends,
               \/ SendGet(s) \/ SendReadBusy(s) \/ SendEnqueue(s)
               \/ RunTurnBusy(s) \/ EngineReturns(s)
               \/ AnnounceSettled(s) \/ ReadQueue(s) \/ PushAndGoOn(s)
        PROVE  \E label \in PC : pc[s] # "opened" /\ Goto(s, label)
    BY <2>1 DEF SendGet, SendReadBusy, SendEnqueue, RunTurnBusy, EngineReturns,
       AnnounceSettled, ReadQueue, PushAndGoOn
  <2>2. ASSUME NEW i \in Stops, InterruptEngine(i) \/ InterruptClear(i)
        PROVE  \E label \in PC : pc[i] # "opened" /\ Goto(i, label)
    BY <2>2 DEF InterruptEngine, InterruptClear
  <2>3. ASSUME NEW r \in Removals, QueueRemove(r)
        PROVE  \E label \in PC : pc[r] # "opened" /\ Goto(r, label)
    BY <2>3 DEF QueueRemove
  <2>4. ASSUME NEW t \in Tasks, PushQueue(t)
        PROVE  \E label \in PC : pc[t] # "opened" /\ Goto(t, label)
    BY <2>4 DEF PushQueue
  <2>5. QED
    BY <2>1, <2>2, <2>3, <2>4 DEF TurnsOnly
<1>2. \A d \in Sends : pc[d] = "opened" => pc'[d] = "opened"
  BY <1>1, OpenedStays DEF FramesInv
<1>3. UNCHANGED <<seq, out, connected, base, got, watchers>>
  BY Zenon DEF TurnsOnly, frames, session, driving, clients
<1>4. QED
  BY <1>2, <1>3, FollowKept

LEMMA FollowStep ==
    ASSUME Closes = {}, HttpCalls \cap Sends = {},
           FramesInv, FollowInv, [FramesNext]_<<vars, frames>>
    PROVE  FollowInv'
<1>1. ASSUME NEW d \in Sends, TurnsAndFrames(d)  PROVE FollowInv'
  <2>1. CASE WatchOnSend(d)
    <3>1. /\ UNCHANGED <<seq, out, connected, base, got>> /\ watchers \subseteq watchers'
      BY <2>1 DEF WatchOnSend, driving, clients
    <3>2. \E label \in PC : pc[d] # "opened" /\ Goto(d, label)
      BY <2>1 DEF WatchOnSend, SendWatch, PC
    <3>3. \A e \in Sends : pc[e] = "opened" => pc'[e] = "opened"
      BY <3>2, OpenedStays DEF FramesInv, Tasks
    <3>4. QED
      BY <3>1, <3>3, FollowKept
  <2>2. CASE ReadDepth(d) \/ WriteLog(d)
    <3>1. UNCHANGED <<seq, out, connected, base, got, watchers, pc>>
      BY <2>2, Zenon DEF ReadDepth, WriteLog, vars, tasks, session, driving, clients
    <3>2. QED
      BY <3>1, FollowKept
  <2>3. CASE OpenNumbered(d)
    BY <2>3, FollowOpening
  <2>4. CASE FanOutOpening(d)
    BY <2>4, FollowArrival
  <2>5. CASE TakeTurn(d) \/ SettleBuffer(d)
    <3>1. UNCHANGED <<seq, out, connected, base, got, watchers>>
      BY <2>5, Zenon DEF TakeTurn, SettleBuffer, session, driving, clients
    <3>2. \E label \in PC : pc[d] # "opened" /\ Goto(d, label)
      BY <2>5 DEF TakeTurn, SettleBuffer, RunTurn, SettleTurn, PC, Driving
    <3>3. \A e \in Sends : pc[e] = "opened" => pc'[e] = "opened"
      BY <3>2, OpenedStays DEF FramesInv, Tasks
    <3>4. QED
      BY <3>1, <3>3, FollowKept
  <2>6. QED
    BY <1>1, <2>1, <2>2, <2>3, <2>4, <2>5 DEF TurnsAndFrames
<1>2. ASSUME NEW t \in Tasks, DropCall(t)  PROVE FollowInv'
  <2>1. t \notin Sends /\ pc[t] # "opened"
    BY <1>2 DEF DropCall, CallDropped
  <2>2. \E label \in PC : Goto(t, label)
    BY <1>2 DEF DropCall, CallDropped, PC
  <2>3. \A e \in Sends : pc[e] = "opened" => pc'[e] = "opened"
    BY <2>1, <2>2, OpenedStays DEF FramesInv
  <2>4. UNCHANGED <<seq, out, connected, base, got, watchers>>
    BY <1>2, <2>1, Zenon DEF DropCall, session, driving, clients
  <2>5. QED
    BY <2>3, <2>4, FollowKept
<1>3. ASSUME NEW c \in Clients, Attach(c)  PROVE FollowInv'
  <2>1. CASE AttachRegister(c)
    BY <2>1, FollowRegister
  <2>2. CASE ~AttachRegister(c)
    <3>1. UNCHANGED <<seq, out, connected, base, got, watchers, pc>>
      BY <1>3, <2>2, Zenon DEF Attach, AttachGet, AttachReadSubscribed, AttachSubscribe,
         AttachResume, AttachFails, AttachMark, AttachCount,
         vars, tasks, session, driving, clients
    <3>2. QED
      BY <3>1, FollowKept
  <2>3. QED
    BY <2>1, <2>2
<1>4. ASSUME NEW c \in Clients, Detach(c) \/ Disconnect(c)  PROVE FollowInv'
  <2>1. UNCHANGED <<seq, out, pc>>
    BY <1>4, Zenon DEF Detach, Disconnect, vars, tasks, driving
  <2>2. /\ connected' \subseteq connected /\ watchers' = watchers \ {c}
        /\ base' = [base EXCEPT ![c] = None] /\ got' = [got EXCEPT ![c] = <<>>]
    BY <1>4 DEF Detach, Disconnect
  <2>3. ASSUME NEW d \in connected', base'[d] # None
        PROVE  /\ base'[d] = base[d] /\ got'[d] = got[d]
               /\ d \in watchers => d \in watchers'
    BY <2>2, <2>3 DEF FramesInv, FieldsInv
  <2>4. QED
    BY <2>1, <2>2, <2>3, FollowKept
<1>5. CASE UNCHANGED <<vars, frames>>
  <2>1. UNCHANGED <<seq, out, connected, base, got, watchers, pc>>
    BY <1>5, Zenon DEF vars, tasks, frames, session, driving, clients
  <2>2. QED
    BY <2>1, FollowKept
<1>6. QED
  BY <1>1, <1>2, <1>3, <1>4, <1>5, FollowTurnsOnly, FollowEvent DEF FramesNext

\* "Never both, never neither": as long as nothing closes the session and no
\* send is cut short with its request, an attached client has received, or has
\* under way to it, every number assigned after its reply, each once.
THEOREM AttachedMissNothing ==
    ASSUME Closes = {}, HttpCalls \cap Sends = {}
    PROVE  FramesSpec => []FramesFollowTheReply
<1>1. FramesInit => FollowInv
  <2> SUFFICES ASSUME FramesInit  PROVE FollowInv
    OBVIOUS
  <2>1. /\ out = [d \in Sends |-> NoFrame] /\ seq = 0
        /\ connected = Clients /\ base = [c \in Clients |-> None]
    BY DEF FramesInit
  <2>2. QED
    BY <2>1 DEF FollowInv, OpeningsInv, AllFollow, NoFrame
<1>2. FramesInv /\ FollowInv /\ [FramesNext]_<<vars, frames>> => FollowInv'
  BY FollowStep
<1>3. FollowInv => FramesFollowTheReply
  <2> SUFFICES ASSUME FollowInv, NEW c \in connected, base[c] # None
               PROVE  LET seqs == Numbers(c)
                          after == {i \in DOMAIN seqs : seqs[i] > base[c]}
                          events == {i \in DOMAIN seqs : got[c][i].kind = "event"}
                      IN  /\ \A i, j \in after : seqs[i] = seqs[j] => i = j
                          /\ \A i \in after : seqs[i] \notin UnderWay(c)
                          /\ {seqs[i] : i \in after}
                                \cup {n \in UnderWay(c) : n > base[c]}
                                    = (base[c] + 1) .. seq
                          /\ events \subseteq after
                          /\ \A i, j \in events : i < j => seqs[i] < seqs[j]
    BY DEF FramesFollowTheReply
  <2>1. Follows(got[c], base[c], UnderWay(c), seq)
    BY DEF FollowInv, AllFollow
  <2>2. DOMAIN Numbers(c) = DOMAIN got[c] /\ \A i \in DOMAIN got[c] : Numbers(c)[i] = got[c][i].seq
    BY DEF Numbers
  <2>3. QED
    BY <2>1, <2>2 DEF Follows
<1>4. QED
  BY <1>1, <1>2, <1>3, FramesInvariant, PTL DEF FramesSpec
=============================================================================
