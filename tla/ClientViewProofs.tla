--------------------------- MODULE ClientViewProofs --------------------------
(***************************************************************************)
(* Theorems about ClientView, for any number of sessions, opens, pages and *)
(* events: only the open session is drawn, nothing of it is missed that    *)
(* the hub told, and it is drawn in order but for what came while it was   *)
(* loading and what the hub told twice.                                    *)
(***************************************************************************)
EXTENDS ClientView, SequenceTheorems, FiniteSetTheorems, TLAPS

-----------------------------------------------------------------------------
(* Sets of numbers in order *)

Bounded(S) == S \subseteq Nat /\ \E b \in Nat : \A x \in S : x <= b

LEMMA MaxIsThere ==
    ASSUME NEW S, Bounded(S), S # {}
    PROVE  /\ Max(S) \in S
           /\ \A x \in S : x <= Max(S)
<1> DEFINE bounds == {b \in Nat : \A x \in S : x <= b}
           R == {p \in Nat \X Nat : p[1] < p[2]}
<1>1. bounds \subseteq Nat /\ bounds # {}
  BY DEF Bounded
<1>2. R = OpToRel(<, Nat)
  BY DEF OpToRel
<1>3. IsWellFoundedOn(R, Nat)
  BY <1>2, NatLessThanWellFounded
<1>4. PICK b \in bounds : \A a \in bounds : ~(<<a, b>> \in R)
  BY <1>1, <1>3, WFMin
<1>5. b \in S
  <2> SUFFICES ASSUME b \notin S  PROVE FALSE
    OBVIOUS
  <2>1. PICK x \in S : x \in Nat
    BY DEF Bounded
  <2>2. b \in Nat /\ x <= b /\ x # b
    BY <2>1
  <2>3. b - 1 \in Nat
    BY <2>1, <2>2
  <2>4. \A y \in S : y \in Nat /\ y <= b /\ y # b
    BY DEF Bounded
  <2>5. b - 1 \in bounds
    BY <2>2, <2>3, <2>4
  <2>6. <<b - 1, b>> \in R
    BY <2>2, <2>3
  <2>7. QED
    BY <1>4, <2>5, <2>6
<1>6. \A x \in S : b >= x
  BY DEF Bounded
<1>7. Max(S) \in S /\ \A x \in S : Max(S) >= x
  BY <1>5, <1>6, Zenon DEF Max
<1>8. QED
  BY <1>7 DEF Bounded

\* The numbers of a set before one of them: as many as its place tells.
Below(S, x) == {m \in S : m < x}

LEMMA PlacesDiffer ==
    ASSUME NEW S, Bounded(S)
    PROVE  /\ IsFiniteSet(S) /\ Cardinality(S) \in Nat
           /\ \A x \in S : Cardinality(Below(S, x)) \in 0 .. Cardinality(S) - 1
           /\ \A x, y \in S : x < y => Cardinality(Below(S, x)) < Cardinality(Below(S, y))
<1>1. IsFiniteSet(S)
  BY FS_BoundedSetOfNaturals DEF Bounded
<1>2. Cardinality(S) \in Nat
  BY <1>1, FS_CardinalityType
<1>3. ASSUME NEW x \in S
      PROVE  IsFiniteSet(Below(S, x)) /\ Cardinality(Below(S, x)) \in 0 .. Cardinality(S) - 1
  <2>1. Below(S, x) \in SUBSET S /\ x \notin Below(S, x)
    BY DEF Below, Bounded
  <2>2. /\ IsFiniteSet(Below(S, x))
        /\ Cardinality(Below(S, x)) <= Cardinality(S)
        /\ Cardinality(S) = Cardinality(Below(S, x)) => S = Below(S, x)
    BY <1>1, <2>1, FS_Subset
  <2>3. Cardinality(Below(S, x)) \in Nat
    BY <2>2, FS_CardinalityType
  <2>4. QED
    BY <1>2, <2>1, <2>2, <2>3
<1>4. ASSUME NEW x \in S, NEW y \in S, x < y
      PROVE  Cardinality(Below(S, x)) < Cardinality(Below(S, y))
  <2>1. /\ Below(S, x) \in SUBSET Below(S, y)
        /\ x \in Below(S, y) /\ x \notin Below(S, x)
    <3>1. S \subseteq Nat /\ x \in Nat /\ y \in Nat
      BY DEF Bounded
    <3>2. \A m \in S : m < x => m < y
      BY <1>4, <3>1
    <3>3. Below(S, x) \subseteq Below(S, y)
      BY <3>2 DEF Below
    <3>4. x \in Below(S, y)
      BY <1>4 DEF Below
    <3>5. x \notin Below(S, x)
      BY <3>1 DEF Below
    <3>6. QED
      BY <3>3, <3>4, <3>5
  <2>2. /\ Cardinality(Below(S, x)) <= Cardinality(Below(S, y))
        /\ Cardinality(Below(S, y)) = Cardinality(Below(S, x)) => Below(S, y) = Below(S, x)
    BY <1>3, <2>1, FS_Subset
  <2>3. Cardinality(Below(S, x)) \in Nat /\ Cardinality(Below(S, y)) \in Nat
    BY <1>2, <1>3
  <2>4. QED
    BY <2>1, <2>2, <2>3
<1>5. QED
  BY <1>1, <1>2, <1>3, <1>4

LEMMA EachPlaceIsTaken ==
    ASSUME NEW S, Bounded(S), NEW i \in 1 .. Cardinality(S)
    PROVE  \E x \in S : Cardinality(Below(S, x)) = i - 1
<1> DEFINE N == Cardinality(S)
           place == [x \in S |-> Cardinality(Below(S, x))]
<1>1. /\ IsFiniteSet(S) /\ N \in Nat
      /\ \A x \in S : Cardinality(Below(S, x)) \in 0 .. N - 1
      /\ \A x, y \in S : x < y => Cardinality(Below(S, x)) < Cardinality(Below(S, y))
  BY PlacesDiffer
<1>2. ASSUME NEW x \in S, NEW y \in S, Cardinality(Below(S, x)) = Cardinality(Below(S, y))
      PROVE  x = y
  <2>1. ~(x < y) /\ ~(y < x)
    BY <1>1, <1>2
  <2>2. QED
    BY <2>1 DEF Bounded
<1>3. place \in Injection(S, 0 .. N - 1)
  <2>1. place \in [S -> 0 .. N - 1]
    BY <1>1
  <2>2. \A x, y \in S : place[x] = place[y] => x = y
    BY <1>2
  <2>3. QED
    BY <2>1, <2>2 DEF Injection, IsInjective
<1>4. IsFiniteSet(0 .. N - 1) /\ Cardinality(0 .. N - 1) = N
  <2>1. 0 \in Int /\ N - 1 \in Int
    BY <1>1
  <2>2. Cardinality(0 .. N - 1) = (IF 0 > N - 1 THEN 0 ELSE (N - 1) - 0 + 1)
    BY <2>1, FS_Interval
  <2>3. QED
    BY <1>1, <2>1, <2>2, FS_Interval
<1>5. place \in Surjection(S, 0 .. N - 1)
  BY <1>1, <1>3, <1>4, FS_Injection
<1>6. i - 1 \in 0 .. N - 1
  BY <1>1
<1>7. QED
  BY <1>5, <1>6 DEF Surjection

\* Ascending has each number of a bounded set once, least first.
LEMMA AscendingFacts ==
    ASSUME NEW S, Bounded(S)
    PROVE  /\ Cardinality(S) \in Nat
           /\ Ascending(S) \in [1 .. Cardinality(S) -> S]
           /\ Ascending(S) \in Seq(Nat)
           /\ Len(Ascending(S)) = Cardinality(S)
           /\ ToSet(Ascending(S)) = S
           /\ \A i, j \in 1 .. Cardinality(S) : i < j => Ascending(S)[i] < Ascending(S)[j]
           /\ \A i \in 1 .. Cardinality(S) : Cardinality(Below(S, Ascending(S)[i])) = i - 1
<1> DEFINE N == Cardinality(S)
           f == Ascending(S)
<1>1. /\ N \in Nat
      /\ \A x \in S : Cardinality(Below(S, x)) \in 0 .. N - 1
      /\ \A x, y \in S : x < y => Cardinality(Below(S, x)) < Cardinality(Below(S, y))
  BY PlacesDiffer
<1>2. ASSUME NEW i \in 1 .. N  PROVE f[i] \in S /\ Cardinality(Below(S, f[i])) = i - 1
  <2>1. \E x \in S : Cardinality(Below(S, x)) = i - 1
    BY EachPlaceIsTaken
  <2>2. \E x \in S : Cardinality({m \in S : m < x}) = i - 1
    BY <2>1 DEF Below
  <2>3. f[i] = CHOOSE x \in S : Cardinality({m \in S : m < x}) = i - 1
    BY DEF Ascending
  <2>4. f[i] \in S /\ Cardinality({m \in S : m < f[i]}) = i - 1
    BY <2>2, <2>3
  <2>5. QED
    BY <2>4 DEF Below
<1>3. f \in [1 .. N -> S]
  <2>1. f = [i \in 1 .. N |-> CHOOSE n \in S : Cardinality({m \in S : m < n}) = i - 1]
    BY DEF Ascending
  <2>2. QED
    BY <1>2, <2>1
<1>4. \A i \in 1 .. N : f[i] \in Nat
  BY <1>2 DEF Bounded
<1>5. f \in Seq(Nat) /\ Len(f) = N
  <2>1. f \in [1 .. N -> Nat]
    BY <1>3, <1>4
  <2>2. QED
    BY <1>1, <2>1
<1>6. ASSUME NEW x \in S  PROVE \E i \in 1 .. N : f[i] = x
  <2> DEFINE i == Cardinality(Below(S, x)) + 1
  <2>1. i \in 1 .. N /\ i - 1 = Cardinality(Below(S, x))
    BY <1>1
  <2>2. f[i] \in S /\ Cardinality(Below(S, f[i])) = Cardinality(Below(S, x))
    BY <1>2, <2>1
  <2>3. ~(x < f[i]) /\ ~(f[i] < x)
    BY <1>1, <2>2
  <2>4. f[i] = x
    <3>1. f[i] \in Nat /\ x \in Nat
      BY <2>2 DEF Bounded
    <3>2. QED
      BY <2>3, <3>1
  <2>5. QED
    BY <2>1, <2>4
<1>7. ToSet(f) = S
  BY <1>2, <1>3, <1>6 DEF ToSet
<1>8. ASSUME NEW i \in 1 .. N, NEW j \in 1 .. N, i < j  PROVE f[i] < f[j]
  <2>1. /\ f[i] \in S /\ f[j] \in S /\ f[i] \in Nat /\ f[j] \in Nat
        /\ Cardinality(Below(S, f[i])) = i - 1 /\ Cardinality(Below(S, f[j])) = j - 1
    BY <1>2, <1>4
  <2>2. f[j] < f[i] => j - 1 < i - 1
    BY <1>1, <2>1
  <2>3. f[i] # f[j] /\ ~(f[j] < f[i])
    BY <1>8, <2>1, <2>2
  <2>4. QED
    BY <2>1, <2>3
<1>9. QED
  BY <1>1, <1>2, <1>3, <1>5, <1>7, <1>8

\* Greater numbers go to the end and leave the others where they are.
LEMMA AscendingGrows ==
    ASSUME NEW S, NEW T, Bounded(T), S \subseteq T,
           \A x \in S, y \in T \ S : x < y
    PROVE  /\ Cardinality(S) <= Cardinality(T)
           /\ \A i \in 1 .. Cardinality(S) : Ascending(T)[i] = Ascending(S)[i]
<1>1. Bounded(S)
  BY DEF Bounded
<1>2. Cardinality(S) \in Nat /\ Cardinality(T) \in Nat /\ Cardinality(S) <= Cardinality(T)
  BY <1>1, PlacesDiffer, FS_Subset
<1>3. ASSUME NEW i \in 1 .. Cardinality(S)
      PROVE  Ascending(T)[i] = Ascending(S)[i]
  <2> DEFINE x == Ascending(S)[i]
             y == Ascending(T)[i]
  <2>1. x \in S /\ Cardinality(Below(S, x)) = i - 1
    BY <1>1, AscendingFacts
  <2>2. i \in 1 .. Cardinality(T)
    BY <1>2
  <2>3. y \in T /\ Cardinality(Below(T, y)) = i - 1
    BY <2>2, AscendingFacts
  <2>4. Below(T, x) = Below(S, x)
    <3>1. ASSUME NEW z \in T \ S  PROVE ~(z < x)
      <4>1. x \in Nat /\ z \in Nat /\ x < z
        BY <2>1 DEF Bounded
      <4>2. QED
        BY <4>1
    <3>2. QED
      BY <3>1 DEF Below
  <2>5. x \in T /\ Cardinality(Below(T, x)) = Cardinality(Below(T, y))
    BY <2>1, <2>3, <2>4
  <2>6. ~(x < y) /\ ~(y < x)
    <3>1. \A a, b \in T : a < b => Cardinality(Below(T, a)) < Cardinality(Below(T, b))
      BY PlacesDiffer
    <3>2. Cardinality(Below(T, y)) \in Nat
      BY <2>3, <2>2
    <3>3. QED
      BY <2>3, <2>5, <3>1, <3>2
  <2>7. x \in Nat /\ y \in Nat
    BY <2>3, <2>5 DEF Bounded
  <2>8. QED
    BY <2>6, <2>7
<1>4. QED
  BY <1>2, <1>3

-----------------------------------------------------------------------------
(* What the hub, the wire and the browser hold *)

Kinds == InMessage \cup {"prompt", "turn_complete"}

Pending == {"replied", "paging", "page"}

Replies ==
    [seq : Nat, total : Nat, replay : Seq(Nat), truncated : BOOLEAN, asks : SUBSET Nat,
     untold : SUBSET Nat, again : SUBSET Nat]

Tasks ==
    [pc : {"idle", "refused", "drawn"} \cup Loading, session : Sessions \cup {None},
     reply : Replies, offset : Nat, page : Seq(Nat)]

Blocks == [session : Sessions \cup {None}, n : Nat]

Frames == [session : Talking, n : Nat]

Phases == {"idle", "opening", "running", "returned", "settling"}

HubTypes ==
    /\ said \in [Sessions -> Seq(Kinds)]
    /\ phase \in [Sessions -> Phases]
    /\ logged \in [Sessions -> Nat]
    /\ start \in [Sessions -> Nat]
    /\ cut \in [Sessions -> Nat]
    /\ pending \in [Sessions -> SUBSET Nat]
    /\ waiting \in [Sessions -> SUBSET Nat]
    /\ wire \in Seq(Frames)
    /\ watched \subseteq Talking

ViewTypes ==
    /\ task \in [Opens -> Tasks]
    /\ last \in Opens \cup {None}
    /\ rivals \subseteq Opens
    /\ open \in Sessions \cup {None}
    /\ seq \in Nat
    /\ blocks \in Seq(Blocks)
    /\ warned \in BOOLEAN

\* An ask that waits is one of a turn under way, and the hub goes on telling of it.
Counted ==
    \A s \in Sessions :
        /\ logged[s] <= Len(said[s])
        /\ start[s] + cut[s] <= Len(said[s])
        /\ phase[s] # "running" => waiting[s] = {}
        /\ waiting[s] \subseteq pending[s]
        /\ \A n \in pending[s] : n \in 1 .. Len(said[s]) /\ said[s][n] = "prompt"

\* The frames of a session are under way in the order of their numbers.
WireAscends ==
    /\ \A i \in DOMAIN wire : wire[i].n \in 1 .. Len(said[wire[i].session])
    /\ \A i, j \in DOMAIN wire :
        i < j /\ wire[i].session = wire[j].session => wire[i].n < wire[j].n

HubInv == HubTypes /\ Counted /\ WireAscends

LEMMA NoReplyFacts ==
    /\ NoReply \in Replies
    /\ NoReply.seq = 0 /\ NoReply.total = 0 /\ NoReply.replay = <<>>
    /\ NoReply.truncated = FALSE /\ NoReply.asks = {}
    /\ NoReply.untold = {} /\ NoReply.again = {}
BY DEF NoReply, Replies

LEMMA NoTaskFacts ==
    /\ NoTask \in Tasks
    /\ NoTask.pc = "idle" /\ NoTask.session = None /\ NoTask.reply = NoReply
    /\ NoTask.offset = 0 /\ NoTask.page = <<>>
BY NoReplyFacts DEF NoTask, Tasks

LEMMA RefusedFacts ==
    /\ Refused \in Tasks
    /\ Refused.pc = "refused" /\ Refused.session = None /\ Refused.reply = NoReply
BY NoTaskFacts DEF Refused, Tasks

LEMMA CallingFacts ==
    ASSUME NEW s \in Sessions, NEW t, t = [NoTask EXCEPT !.pc = "calling", !.session = s]
    PROVE  t \in Tasks /\ t.pc = "calling" /\ t.session = s /\ t.reply = NoReply
<1> DEFINE u == [NoTask EXCEPT !.pc = "calling"]
<1>1. t = [u EXCEPT !.session = s]
  OBVIOUS
<1>2. u \in Tasks /\ u.pc = "calling" /\ u.session = None /\ u.reply = NoReply
  BY NoTaskFacts DEF Tasks, Loading
<1> HIDE DEF u
<1>3. QED
  BY <1>1, <1>2 DEF Tasks

DrawnTask(total, untold, again) ==
    [NoTask EXCEPT !.pc = "drawn", !.reply.total = total,
                   !.reply.untold = untold, !.reply.again = again]

LEMMA DrawnFacts ==
    ASSUME NEW total \in Nat, NEW untold \in SUBSET Nat, NEW again \in SUBSET Nat, NEW t,
           t = DrawnTask(total, untold, again)
    PROVE  /\ t \in Tasks /\ t.pc = "drawn" /\ t.session = None
           /\ t.reply.total = total /\ t.reply.untold = untold /\ t.reply.again = again
<1> DEFINE u == [NoTask EXCEPT !.pc = "drawn"]
           r == [NoReply EXCEPT !.total = total]
           q == [r EXCEPT !.untold = untold]
           p == [q EXCEPT !.again = again]
<1>1. t = [[[u EXCEPT !.reply.total = total] EXCEPT !.reply.untold = untold]
                EXCEPT !.reply.again = again]
  BY DEF DrawnTask
<1>2. u \in Tasks /\ u.pc = "drawn" /\ u.session = None /\ u.reply = NoReply
  BY NoTaskFacts DEF Tasks
<1>3. r \in Replies /\ r.total = total
  BY NoReplyFacts DEF Replies
<1>4. q \in Replies /\ q.total = total /\ q.untold = untold
  <2> HIDE DEF r
  <2>1. QED
    BY <1>3 DEF Replies
<1>5. p \in Replies /\ p.total = total /\ p.untold = untold /\ p.again = again
  <2> HIDE DEF q
  <2>1. QED
    BY <1>4 DEF Replies
<1> DEFINE x == [u EXCEPT !.reply = r]
           y == [x EXCEPT !.reply = q]
           z == [y EXCEPT !.reply = p]
<1>6. [u EXCEPT !.reply.total = total] = x
  BY <1>2
<1>7. x \in Tasks /\ x.pc = "drawn" /\ x.session = None /\ x.reply = r
  <2> HIDE DEF u, r
  <2>1. QED
    BY <1>2, <1>3 DEF Tasks
<1>8. [x EXCEPT !.reply.untold = untold] = y
  <2> HIDE DEF x, r
  <2>1. QED
    BY <1>7
<1>9. y \in Tasks /\ y.pc = "drawn" /\ y.session = None /\ y.reply = q
  <2> HIDE DEF x, q
  <2>1. QED
    BY <1>4, <1>7 DEF Tasks
<1>10. [y EXCEPT !.reply.again = again] = z
  <2> HIDE DEF y, q
  <2>1. QED
    BY <1>9
<1>11. z \in Tasks /\ z.pc = "drawn" /\ z.session = None /\ z.reply = p
  <2> HIDE DEF y, p
  <2>1. QED
    BY <1>5, <1>9 DEF Tasks
<1>12. t = z
  <2> HIDE DEF u, x, y, z
  <2>1. QED
    BY <1>1, <1>6, <1>8, <1>10
<1> HIDE DEF p, z
<1>13. QED
  BY <1>5, <1>11, <1>12

CountsTo(o, n) == task' = [task EXCEPT ![o].pc = "counted", ![o].reply.total = n]

LEMMA CountedFacts ==
    ASSUME task \in [Opens -> Tasks], NEW o \in Opens, NEW n \in Nat, CountsTo(o, n)
    PROVE  /\ task' \in [Opens -> Tasks]
           /\ \A p \in Opens \ {o} : task'[p] = task[p]
           /\ task'[o].pc = "counted" /\ task'[o].reply.total = n
           /\ task'[o].session = task[o].session
<1>1. task' = [[task EXCEPT ![o].pc = "counted"] EXCEPT ![o].reply.total = n]
  BY DEF CountsTo
<1> DEFINE u == [task[o] EXCEPT !.pc = "counted"]
           r == [task[o].reply EXCEPT !.total = n]
           v == [u EXCEPT !.reply = r]
<1>2. /\ u \in Tasks /\ u.session = task[o].session /\ u.pc = "counted"
      /\ u.reply = task[o].reply /\ task[o].reply \in Replies
  BY DEF Tasks, Loading
<1>3. r \in Replies /\ r.total = n
  BY <1>2 DEF Replies
<1>4. v \in Tasks /\ v.session = task[o].session /\ v.pc = "counted" /\ v.reply = r
  <2> HIDE DEF u, r
  <2>1. QED
    BY <1>2, <1>3 DEF Tasks
<1>5. task' = [task EXCEPT ![o] = v]
  <2>1. [task EXCEPT ![o].pc = "counted"] = [task EXCEPT ![o] = u]
    OBVIOUS
  <2>2. task' = [[task EXCEPT ![o] = u] EXCEPT ![o].reply.total = n]
    BY <1>1, <2>1
  <2> HIDE DEF u
  <2>3. QED
    BY <1>2, <2>2
<1> HIDE DEF r, v
<1>6. QED
  BY <1>3, <1>4, <1>5

LEMMA RepliedFacts ==
    ASSUME task \in [Opens -> Tasks], NEW o \in Opens, NEW r \in Replies,
           task' = [task EXCEPT ![o].pc = "replied", ![o].reply = r]
    PROVE  /\ task' \in [Opens -> Tasks]
           /\ \A p \in Opens \ {o} : task'[p] = task[p]
           /\ task'[o].pc = "replied" /\ task'[o].reply = r
           /\ task'[o].session = task[o].session
<1>1. task' = [[task EXCEPT ![o].pc = "replied"] EXCEPT ![o].reply = r]
  OBVIOUS
<1> DEFINE u == [task[o] EXCEPT !.pc = "replied"]
           v == [u EXCEPT !.reply = r]
<1>2. u \in Tasks /\ u.session = task[o].session /\ u.pc = "replied"
  BY DEF Tasks, Loading
<1>3. v \in Tasks /\ v.session = task[o].session /\ v.pc = "replied" /\ v.reply = r
  <2> HIDE DEF u
  <2>1. QED
    BY <1>2 DEF Tasks
<1>4. task' = [task EXCEPT ![o] = v]
  BY <1>1
<1> HIDE DEF u, v
<1>5. QED
  BY <1>3, <1>4

LEMMA PagingFacts ==
    ASSUME task \in [Opens -> Tasks], NEW o \in Opens, NEW k \in Nat,
           task' = [task EXCEPT ![o].pc = "paging", ![o].offset = k]
    PROVE  /\ task' \in [Opens -> Tasks]
           /\ \A p \in Opens \ {o} : task'[p] = task[p]
           /\ task'[o].pc = "paging" /\ task'[o].offset = k
           /\ task'[o].session = task[o].session /\ task'[o].reply = task[o].reply
<1>1. task' = [[task EXCEPT ![o].pc = "paging"] EXCEPT ![o].offset = k]
  OBVIOUS
<1> DEFINE u == [task[o] EXCEPT !.pc = "paging"]
           v == [u EXCEPT !.offset = k]
<1>2. u \in Tasks /\ u.session = task[o].session /\ u.pc = "paging" /\ u.reply = task[o].reply
  BY DEF Tasks, Loading
<1>3. /\ v \in Tasks /\ v.session = task[o].session /\ v.pc = "paging"
      /\ v.reply = task[o].reply /\ v.offset = k
  <2> HIDE DEF u
  <2>1. QED
    BY <1>2 DEF Tasks
<1>4. task' = [task EXCEPT ![o] = v]
  BY <1>1
<1> HIDE DEF u, v
<1>5. QED
  BY <1>3, <1>4

LEMMA PageFacts ==
    ASSUME task \in [Opens -> Tasks], NEW o \in Opens, NEW page \in Seq(Nat),
           task' = [task EXCEPT ![o].pc = "page", ![o].page = page]
    PROVE  /\ task' \in [Opens -> Tasks]
           /\ \A p \in Opens \ {o} : task'[p] = task[p]
           /\ task'[o].pc = "page" /\ task'[o].page = page
           /\ task'[o].session = task[o].session /\ task'[o].reply = task[o].reply
           /\ task'[o].offset = task[o].offset
<1>1. task' = [[task EXCEPT ![o].pc = "page"] EXCEPT ![o].page = page]
  OBVIOUS
<1> DEFINE u == [task[o] EXCEPT !.pc = "page"]
           v == [u EXCEPT !.page = page]
<1>2. /\ u \in Tasks /\ u.session = task[o].session /\ u.pc = "page"
      /\ u.reply = task[o].reply /\ u.offset = task[o].offset
  BY DEF Tasks, Loading
<1>3. /\ v \in Tasks /\ v.session = task[o].session /\ v.pc = "page"
      /\ v.reply = task[o].reply /\ v.page = page /\ v.offset = task[o].offset
  <2> HIDE DEF u
  <2>1. QED
    BY <1>2 DEF Tasks
<1>4. task' = [task EXCEPT ![o] = v]
  BY <1>1
<1> HIDE DEF u, v
<1>5. QED
  BY <1>3, <1>4

-----------------------------------------------------------------------------
(* The hub goes on *)

\* What was said stays said, and what is in the transcript stays in it.
Grows ==
    \A s \in Sessions :
        /\ Len(said[s]) <= Len(said[s]')
        /\ logged[s] <= logged[s]'
        /\ \A n \in 1 .. Len(said[s]) : said[s]'[n] = said[s][n]

LEMMA TranscriptIsOfMessages ==
    ASSUME NEW s PROVE Transcript(s) = Ascending(Written(s))
BY DEF Transcript

LEMMA MessagesBounded ==
    ASSUME HubTypes, NEW s \in Sessions
    PROVE  Bounded(Written(s)) /\ Written(s) \subseteq 1 .. logged[s]
<1>1. Written(s) \subseteq 1 .. logged[s] /\ logged[s] \in Nat
  BY DEF Written, HubTypes
<1> HIDE DEF Written
<1>2. \A x \in Written(s) : x \in Nat /\ x <= logged[s]
  BY <1>1
<1>3. QED
  BY <1>1, <1>2 DEF Bounded

\* Each message of the transcript has its place for good.
LEMMA TranscriptFacts ==
    ASSUME HubInv, NEW s \in Sessions
    PROVE  /\ Cardinality(Written(s)) \in Nat
           /\ Transcript(s) \in Seq(Nat)
           /\ Len(Transcript(s)) = Cardinality(Written(s))
           /\ \A i \in 1 .. Cardinality(Written(s)) :
                Transcript(s)[i] \in Written(s) /\ Transcript(s)[i] \in 1 .. logged[s]
           /\ \A i, j \in 1 .. Cardinality(Written(s)) :
                i < j => Transcript(s)[i] < Transcript(s)[j]
           /\ \A n \in Written(s) :
                \E i \in 1 .. Cardinality(Written(s)) : Transcript(s)[i] = n
<1>1. Bounded(Written(s)) /\ Written(s) \subseteq 1 .. logged[s]
  BY MessagesBounded DEF HubInv
<1> DEFINE N == Cardinality(Written(s))
           f == Transcript(s)
<1>2. /\ N \in Nat /\ f \in [1 .. N -> Written(s)] /\ f \in Seq(Nat) /\ Len(f) = N
      /\ ToSet(f) = Written(s)
      /\ \A i, j \in 1 .. N : i < j => f[i] < f[j]
  BY <1>1, AscendingFacts, TranscriptIsOfMessages
<1>3. \A n \in Written(s) : \E i \in 1 .. N : f[i] = n
  <2>1. DOMAIN f = 1 .. N
    BY <1>2
  <2>2. QED
    BY <1>2, <2>1 DEF ToSet
<1>4. \A i \in 1 .. N : f[i] \in Written(s) /\ f[i] \in 1 .. logged[s]
  BY <1>1, <1>2
<1>5. QED
  BY <1>2, <1>3, <1>4

LEMMA TranscriptGrows ==
    ASSUME HubInv, HubInv', Grows, NEW s \in Sessions
    PROVE  /\ Cardinality(Written(s)) \in Nat /\ Cardinality(Written(s))' \in Nat
           /\ Cardinality(Written(s)) <= Cardinality(Written(s))'
           /\ \A i \in 1 .. Cardinality(Written(s)) : Transcript(s)'[i] = Transcript(s)[i]
<1> DEFINE S == Written(s)
           T == Written(s)'
<1>1. /\ logged[s] \in Nat /\ logged[s]' \in Nat /\ logged[s] <= logged[s]'
      /\ logged[s] <= Len(said[s]) /\ Len(said[s]) \in Nat /\ Len(said[s]) <= Len(said[s]')
  <2>1. logged[s] \in Nat /\ logged[s]' \in Nat /\ said[s] \in Seq(Kinds)
    BY DEF HubInv, HubTypes
  <2>2. logged[s] <= Len(said[s])
    BY DEF HubInv, Counted
  <2>3. QED
    BY <2>1, <2>2 DEF Grows
<1>2. \A n \in 1 .. logged[s] : said[s]'[n] = said[s][n]
  BY <1>1 DEF Grows
<1>3. S \subseteq T
  BY <1>1, <1>2 DEF Written
<1>4. \A x \in S, y \in T \ S : x < y
  <2> SUFFICES ASSUME NEW x \in S, NEW y \in T \ S  PROVE x < y
    OBVIOUS
  <2>1. x \in 1 .. logged[s] /\ y \in 1 .. logged[s]' /\ said[s]'[y] \in InMessage
    BY DEF Written
  <2>2. y \in 1 .. logged[s] => y \in S
    BY <1>2, <2>1 DEF Written
  <2>3. QED
    BY <1>1, <2>1, <2>2
<1>5. Bounded(T)
  <2>1. T \subseteq 1 .. logged[s]'
    BY DEF Written
  <2>2. QED
    BY <1>1, <2>1 DEF Bounded
<1>6. /\ Cardinality(S) <= Cardinality(T)
      /\ \A i \in 1 .. Cardinality(S) : Ascending(T)[i] = Ascending(S)[i]
  <2> HIDE DEF S, T
  <2>1. QED
    BY <1>3, <1>4, <1>5, AscendingGrows
<1>7. Transcript(s) = Ascending(S) /\ Transcript(s)' = Ascending(T)
  BY DEF Transcript, Written
<1>8. Cardinality(S) \in Nat /\ Cardinality(T) \in Nat
  <2>1. Cardinality(T) \in Nat
    <3> HIDE DEF T
    <3>1. QED
      BY <1>5, AscendingFacts
  <2>2. QED
    BY <2>1, TranscriptFacts
<1>9. QED
  BY <1>6, <1>7, <1>8

LEMMA BufferFacts ==
    ASSUME HubInv, NEW s \in Sessions
    PROVE  /\ Buffer(s) \in Seq(Nat)
           /\ Len(Buffer(s)) = Len(said[s]) - start[s] - cut[s]
           /\ ToSet(Buffer(s)) = (start[s] + cut[s] + 1) .. Len(said[s])
<1> DEFINE N == Len(said[s]) - start[s] - cut[s]
           base == start[s] + cut[s]
<1>1. N \in Nat /\ base \in Nat /\ Len(said[s]) = base + N
  <2>1. said[s] \in Seq(Kinds) /\ start[s] \in Nat /\ cut[s] \in Nat
    BY DEF HubInv, HubTypes
  <2>2. start[s] + cut[s] <= Len(said[s])
    BY DEF HubInv, Counted
  <2>3. QED
    BY <2>1, <2>2
<1>2. Buffer(s) = [i \in 1 .. N |-> base + i]
  BY DEF Buffer
<1> HIDE DEF N, base
<1>3. Buffer(s) \in Seq(Nat) /\ Len(Buffer(s)) = N /\ DOMAIN Buffer(s) = 1 .. N
  BY <1>1, <1>2
<1>4. \A n \in (base + 1) .. (base + N) : n - base \in 1 .. N /\ base + (n - base) = n
  BY <1>1
<1>5. ToSet(Buffer(s)) = (base + 1) .. (base + N)
  <2>1. \A i \in 1 .. N : Buffer(s)[i] = base + i
    BY <1>2
  <2>2. ToSet(Buffer(s)) = {base + i : i \in 1 .. N}
    BY <1>3, <2>1 DEF ToSet
  <2>3. QED
    BY <1>1, <1>4, <2>2
<1>6. QED
  BY <1>1, <1>3, <1>5 DEF N, base

LEMMA EmitFacts ==
    ASSUME HubInv, NEW s \in Sessions, NEW kind \in Kinds, Emit(s, kind)
    PROVE  /\ said' \in [Sessions -> Seq(Kinds)]
           /\ Len(said[s]') = Len(said[s]) + 1 /\ Len(said[s]) \in Nat
           /\ said[s]'[Len(said[s]) + 1] = kind
           /\ \A n \in 1 .. Len(said[s]) : said[s]'[n] = said[s][n]
           /\ \A p \in Sessions \ {s} : said[p]' = said[p]
           /\ wire' \in Seq(Frames)
           /\ WireAscends'
           /\ s \in watched => ToSet(wire') = ToSet(wire) \cup {Frame(s, Len(said[s]) + 1)}
           /\ s \notin watched => wire' = wire
<1> DEFINE m == Len(said[s]) + 1
           f == Frame(s, m)
<1>1. /\ said \in [Sessions -> Seq(Kinds)] /\ wire \in Seq(Frames)
      /\ said' = [said EXCEPT ![s] = Append(@, kind)]
      /\ s \in Talking
      /\ wire' = IF s \in watched THEN Append(wire, f) ELSE wire
  <2>1. said \in [Sessions -> Seq(Kinds)] /\ wire \in Seq(Frames)
    BY DEF HubInv, HubTypes
  <2>2. /\ s \in Talking
        /\ said' = [said EXCEPT ![s] = Append(@, kind)]
        /\ wire' = IF s \in watched THEN Append(wire, Frame(s, Len(said[s]) + 1)) ELSE wire
    BY DEF Emit
  <2>3. QED
    BY <2>1, <2>2
<1>2. said[s]' = Append(said[s], kind) /\ said[s] \in Seq(Kinds)
  BY <1>1
<1>3. /\ said' \in [Sessions -> Seq(Kinds)]
      /\ Len(said[s]') = m /\ Len(said[s]) \in Nat /\ said[s]'[m] = kind
      /\ \A n \in 1 .. Len(said[s]) : said[s]'[n] = said[s][n]
      /\ \A p \in Sessions \ {s} : said[p]' = said[p]
  BY <1>1, <1>2
<1>4. f \in Frames /\ f.session = s /\ f.n = m
  BY <1>1, <1>3 DEF Frame, Frames
<1> HIDE DEF f
<1>5. \A i \in 1 .. Len(wire) : wire[i] \in Frames /\ wire[i].session \in Sessions
  <2>1. Talking \subseteq Sessions
    BY ClientAssumption
  <2>2. \A i \in 1 .. Len(wire) : wire[i] \in Frames
    BY <1>1
  <2>3. QED
    BY <2>1, <2>2 DEF Frames
<1>6. /\ \A i \in 1 .. Len(wire) : wire[i].n \in 1 .. Len(said[wire[i].session])
      /\ \A i, j \in 1 .. Len(wire) :
            i < j /\ wire[i].session = wire[j].session => wire[i].n < wire[j].n
  <2>1. DOMAIN wire = 1 .. Len(wire)
    BY <1>1
  <2>2. WireAscends
    BY DEF HubInv
  <2>3. QED
    BY <2>1, <2>2, Zenon DEF WireAscends
<1>7. \A i \in 1 .. Len(wire) : wire[i].n \in 1 .. Len(said'[wire[i].session])
  <2> SUFFICES ASSUME NEW i \in 1 .. Len(wire)
               PROVE  wire[i].n \in 1 .. Len(said'[wire[i].session])
    OBVIOUS
  <2>1. CASE wire[i].session = s
    BY <1>3, <1>6, <2>1
  <2>2. CASE wire[i].session # s
    BY <1>3, <1>5, <1>6, <2>2
  <2>3. QED
    BY <2>1, <2>2
<1>8. CASE s \notin watched
  <2>1. wire' = wire /\ DOMAIN wire = 1 .. Len(wire)
    BY <1>1, <1>8
  <2>2. WireAscends'
    BY <1>6, <1>7, <2>1 DEF WireAscends
  <2>3. QED
    BY <1>1, <1>3, <1>8, <2>1, <2>2
<1>9. CASE s \in watched
  <2> DEFINE L == Len(wire)
  <2>1. /\ wire' \in Seq(Frames) /\ Len(wire') = L + 1 /\ L \in Nat /\ DOMAIN wire' = 1 .. L + 1
        /\ \A i \in 1 .. L : wire'[i] = wire[i]
        /\ wire'[L + 1] = f
        /\ DOMAIN wire = 1 .. L
    BY <1>1, <1>4, <1>9
  <2>2. ToSet(wire') = ToSet(wire) \cup {f}
    BY <2>1 DEF ToSet
  <2>3. \A i \in 1 .. L + 1 : wire'[i].n \in 1 .. Len(said'[wire'[i].session])
    <3>1. m \in 1 .. Len(said[s]')
      BY <1>3
    <3>2. QED
      BY <1>4, <1>7, <2>1, <3>1
  <2>4. ASSUME NEW i \in 1 .. L + 1, NEW j \in 1 .. L + 1,
               i < j, wire'[i].session = wire'[j].session
        PROVE  wire'[i].n < wire'[j].n
    <3>1. i \in 1 .. L
      BY <2>1, <2>4
    <3>2. CASE j \in 1 .. L
      BY <1>6, <2>1, <2>4, <3>1, <3>2
    <3>3. CASE j = L + 1
      <4>1. wire[i].session = s /\ wire'[j].n = m /\ wire'[i].n = wire[i].n
        BY <1>4, <2>1, <2>4, <3>1, <3>3
      <4>2. wire[i].n \in 1 .. Len(said[s])
        BY <1>6, <3>1, <4>1
      <4>3. QED
        BY <1>3, <4>1, <4>2
    <3>4. QED
      BY <2>1, <3>2, <3>3
  <2>5. WireAscends'
    BY <2>1, <2>3, <2>4 DEF WireAscends
  <2>6. QED
    BY <1>3, <1>9, <2>1, <2>2, <2>5 DEF f
<1>10. QED
  BY <1>8, <1>9

\* A step of the hub says one thing more, or nothing.
SaysOne(s) ==
    /\ \E kind \in Kinds : Emit(s, kind)
    /\ \A p \in Sessions : waiting[p]' \subseteq
            waiting[p] \cup IF p = s THEN {Len(said[s]) + 1} ELSE {}

SaysNothing ==
    /\ UNCHANGED <<said, wire>>
    /\ \A p \in Sessions : waiting[p]' \subseteq waiting[p]

\* What every event does to the rest of its session, and that it leaves others alone.
OneEvent(s, kind) ==
    LET m == Len(said[s]) + 1 IN
    /\ phase' \in [Sessions -> Phases]
    /\ start' \in [Sessions -> Nat] /\ cut' \in [Sessions -> Nat]
    /\ pending' \in [Sessions -> SUBSET Nat] /\ waiting' \in [Sessions -> SUBSET Nat]
    /\ watched' = watched /\ logged' = logged
    /\ \A p \in Sessions \ {s} :
        /\ phase[p]' = phase[p] /\ start[p]' = start[p] /\ cut[p]' = cut[p]
        /\ pending[p]' = pending[p] /\ waiting[p]' = waiting[p]
    /\ start[s]' + cut[s]' <= m
    /\ phase[s]' # "running" => waiting[s]' = {}
    /\ waiting[s]' \subseteq pending[s]'
    /\ pending[s]' \subseteq pending[s] \cup IF kind = "prompt" THEN {m} ELSE {}
    /\ waiting[s]' \subseteq waiting[s] \cup {m}

LEMMA EventKeeps ==
    ASSUME HubInv, NEW s \in Sessions, NEW kind \in Kinds, Emit(s, kind), OneEvent(s, kind)
    PROVE  HubInv' /\ Grows /\ SaysOne(s)
<1> DEFINE m == Len(said[s]) + 1
<1>1. /\ \A p \in Sessions : said[p] \in Seq(Kinds) /\ Len(said[p]) \in Nat /\ logged[p] \in Nat
      /\ watched \subseteq Talking
  BY DEF HubInv, HubTypes
<1>2. \A p \in Sessions :
        /\ logged[p] <= Len(said[p])
        /\ start[p] + cut[p] <= Len(said[p])
        /\ phase[p] # "running" => waiting[p] = {}
        /\ waiting[p] \subseteq pending[p]
        /\ \A n \in pending[p] : n \in 1 .. Len(said[p]) /\ said[p][n] = "prompt"
  BY DEF HubInv, Counted
<1>3. /\ said' \in [Sessions -> Seq(Kinds)]
      /\ Len(said[s]') = m /\ said[s]'[m] = kind
      /\ \A n \in 1 .. Len(said[s]) : said[s]'[n] = said[s][n]
      /\ \A p \in Sessions \ {s} : said[p]' = said[p]
      /\ wire' \in Seq(Frames) /\ WireAscends'
  BY EmitFacts
<1>4. /\ phase' \in [Sessions -> Phases]
      /\ start' \in [Sessions -> Nat] /\ cut' \in [Sessions -> Nat]
      /\ pending' \in [Sessions -> SUBSET Nat] /\ waiting' \in [Sessions -> SUBSET Nat]
      /\ watched' = watched /\ logged' = logged /\ logged \in [Sessions -> Nat]
  BY DEF OneEvent, HubInv, HubTypes
<1>5. \A p \in Sessions \ {s} :
        /\ phase[p]' = phase[p] /\ start[p]' = start[p] /\ cut[p]' = cut[p]
        /\ pending[p]' = pending[p] /\ waiting[p]' = waiting[p]
  BY DEF OneEvent
<1>6. /\ start[s]' + cut[s]' <= m
      /\ phase[s]' # "running" => waiting[s]' = {}
      /\ waiting[s]' \subseteq pending[s]'
      /\ pending[s]' \subseteq pending[s] \cup IF kind = "prompt" THEN {m} ELSE {}
      /\ waiting[s]' \subseteq waiting[s] \cup {m}
  BY DEF OneEvent
<1> HIDE DEF m
<1>7. m \in Nat /\ m = Len(said[s]) + 1
  BY <1>1 DEF m
<1>8. HubTypes'
  BY <1>1, <1>3, <1>4 DEF HubTypes
<1>9. Counted'
  <2>1. ASSUME NEW n \in pending[s]'
        PROVE  n \in 1 .. Len(said[s]') /\ said[s]'[n] = "prompt"
    <3>1. CASE n \in pending[s]
      <4>1. n \in 1 .. Len(said[s]) /\ said[s][n] = "prompt"
        BY <1>2, <3>1
      <4>2. n \in 1 .. m
        BY <1>1, <1>7, <4>1
      <4>3. QED
        BY <1>3, <4>1, <4>2
    <3>2. CASE n \notin pending[s]
      <4>1. kind = "prompt" /\ n = m
        BY <1>6, <3>2
      <4>2. m \in 1 .. m
        BY <1>1, <1>7
      <4>3. QED
        BY <1>3, <4>1, <4>2
    <3>3. QED
      BY <3>1, <3>2
  <2>2. ASSUME NEW p \in Sessions \ {s}
        PROVE  /\ logged[p]' <= Len(said[p]')
               /\ start[p]' + cut[p]' <= Len(said[p]')
               /\ phase[p]' # "running" => waiting[p]' = {}
               /\ waiting[p]' \subseteq pending[p]'
               /\ \A n \in pending[p]' : n \in 1 .. Len(said[p]') /\ said[p]'[n] = "prompt"
    <3>1. /\ phase[p]' = phase[p] /\ start[p]' = start[p] /\ cut[p]' = cut[p] /\ said[p]' = said[p]
          /\ pending[p]' = pending[p] /\ waiting[p]' = waiting[p]
          /\ logged[p]' = logged[p]
      BY <1>3, <1>4, <1>5
    <3>2. QED
      BY <1>2, <3>1
  <2>3. start[s]' + cut[s]' <= Len(said[s]') /\ logged[s]' <= Len(said[s]')
    BY <1>1, <1>2, <1>3, <1>4, <1>6, <1>7
  <2>4. QED
    BY <1>6, <2>1, <2>2, <2>3 DEF Counted
<1>10. Grows
  <2>1. ASSUME NEW p \in Sessions
        PROVE  /\ Len(said[p]) <= Len(said[p]') /\ logged[p] <= logged[p]'
               /\ \A n \in 1 .. Len(said[p]) : said[p]'[n] = said[p][n]
    <3>1. CASE p = s
      BY <1>1, <1>3, <1>4, <1>7, <3>1
    <3>2. CASE p # s
      <4>1. said[p]' = said[p] /\ logged[p]' = logged[p]
        BY <1>3, <1>4, <3>2
      <4>2. QED
        BY <1>1, <4>1
    <3>3. QED
      BY <3>1, <3>2
  <2>2. QED
    BY <2>1 DEF Grows
<1>11. SaysOne(s)
  <2>1. \A p \in Sessions : waiting[p]' \subseteq waiting[p] \cup IF p = s THEN {m} ELSE {}
    BY <1>5, <1>6
  <2>2. QED
    BY <2>1 DEF SaysOne, m
<1>12. QED
  BY <1>3, <1>8, <1>9, <1>10, <1>11 DEF HubInv

LEMMA HubKeeps ==
    ASSUME HubInv, NEW s \in Sessions, Hub(s)
    PROVE  /\ HubInv' /\ Grows
           /\ UNCHANGED <<watched, task, view, ghosts>>
           /\ SaysOne(s) \/ SaysNothing
<1> DEFINE m == Len(said[s]) + 1
<1>1. /\ said \in [Sessions -> Seq(Kinds)] /\ logged \in [Sessions -> Nat]
      /\ phase \in [Sessions -> Phases]
      /\ start \in [Sessions -> Nat] /\ cut \in [Sessions -> Nat]
      /\ pending \in [Sessions -> SUBSET Nat]
      /\ waiting \in [Sessions -> SUBSET Nat] /\ wire \in Seq(Frames)
      /\ watched \subseteq Talking
      /\ \A p \in Sessions : Len(said[p]) \in Nat
  BY DEF HubInv, HubTypes
<1>2. \A p \in Sessions :
        /\ logged[p] <= Len(said[p])
        /\ start[p] + cut[p] <= Len(said[p])
        /\ phase[p] # "running" => waiting[p] = {}
        /\ waiting[p] \subseteq pending[p]
        /\ \A n \in pending[p] : n \in 1 .. Len(said[p]) /\ said[p][n] = "prompt"
  BY DEF HubInv, Counted
<1>3. Len(Buffer(s)) = Len(said[s]) - start[s] - cut[s]
  BY BufferFacts
<1> HIDE DEF m
<1>4. m \in Nat /\ m = Len(said[s]) + 1
  BY <1>1 DEF m
<1>5. ASSUME Trims(s)
      PROVE  /\ cut' \in [Sessions -> Nat]
             /\ \A p \in Sessions \ {s} : cut[p]' = cut[p]
             /\ start[s] + cut[s]' <= m
  <2>1. PICK n \in 0 .. 1 + Len(Buffer(s)) : cut' = [cut EXCEPT ![s] = @ + n]
    BY <1>5 DEF Trims
  <2>2. n \in Nat /\ n <= 1 + (Len(said[s]) - start[s] - cut[s])
    BY <1>1, <1>2, <1>3, <2>1
  <2>3. /\ cut' \in [Sessions -> Nat] /\ cut[s]' = cut[s] + n
        /\ \A p \in Sessions \ {s} : cut[p]' = cut[p]
    BY <1>1, <2>1, <2>2
  <2>4. QED
    BY <1>1, <1>4, <2>2, <2>3
<1>6. ASSUME NEW label \in Phases, Goto(s, label)
      PROVE  /\ phase' \in [Sessions -> Phases] /\ phase[s]' = label
             /\ \A p \in Sessions \ {s} : phase[p]' = phase[p]
  BY <1>1, <1>6 DEF Goto
<1>7. ASSUME UNCHANGED <<said, wire>>, Counted', Grows,
             phase' \in [Sessions -> Phases], logged' \in [Sessions -> Nat],
             start' \in [Sessions -> Nat], cut' \in [Sessions -> Nat],
             pending' \in [Sessions -> SUBSET Nat], waiting' \in [Sessions -> SUBSET Nat],
             watched' = watched, \A p \in Sessions : waiting[p]' \subseteq waiting[p]
      PROVE  HubInv' /\ SaysNothing
  <2>1. HubTypes'
    BY <1>1, <1>7 DEF HubTypes
  <2>2. WireAscends'
    BY <1>7 DEF WireAscends, HubInv
  <2>3. QED
    BY <1>7, <2>1, <2>2 DEF HubInv, SaysNothing
<1>8. (UNCHANGED <<said, logged>>) => Grows
  BY <1>1 DEF Grows
<1>9. CASE ReadsDepth(s)
  <2>1. /\ UNCHANGED <<said, logged, start, cut, pending, waiting, watched, wire>>
        /\ UNCHANGED <<task, view, ghosts>>
        /\ \/ phase[s] = "idle" /\ Goto(s, "opening")
           \/ phase[s] = "returned" /\ Goto(s, "settling")
    BY <1>9 DEF ReadsDepth, buffer, link
  <2>2. /\ phase' \in [Sessions -> Phases] /\ waiting[s] = {}
        /\ \A p \in Sessions \ {s} : phase[p]' = phase[p]
    BY <1>2, <1>6, <2>1 DEF Phases
  <2>3. Counted'
    BY <1>2, <2>1, <2>2 DEF Counted
  <2>4. QED
    BY <1>1, <1>7, <1>8, <2>1, <2>2, <2>3
<1>10. CASE OpensTurn(s)
  <2>1. /\ Emit(s, "user_message") /\ Goto(s, "running")
        /\ start' = [start EXCEPT ![s] = Len(said[s])]
        /\ \E n \in {0, 1} : cut' = [cut EXCEPT ![s] = n]
        /\ UNCHANGED <<logged, pending, waiting, watched, task, view, ghosts>>
    BY <1>10 DEF OpensTurn
  <2>2. /\ start' \in [Sessions -> Nat] /\ start[s]' = Len(said[s])
        /\ cut' \in [Sessions -> Nat] /\ cut[s]' \in {0, 1}
        /\ \A p \in Sessions \ {s} : start[p]' = start[p] /\ cut[p]' = cut[p]
    BY <1>1, <2>1
  <2>3. start[s]' + cut[s]' <= m
    BY <1>1, <1>4, <2>2
  <2>4. /\ phase' \in [Sessions -> Phases] /\ phase[s]' = "running"
        /\ \A p \in Sessions \ {s} : phase[p]' = phase[p]
    BY <1>6, <2>1 DEF Phases
  <2>5. OneEvent(s, "user_message")
    BY <1>1, <1>2, <2>1, <2>2, <2>3, <2>4 DEF OneEvent, m
  <2>6. "user_message" \in Kinds
    BY DEF Kinds, InMessage
  <2>7. QED
    BY <2>1, <2>5, <2>6, EventKeeps
<1>11. CASE Says(s)
  <2>1. /\ Emit(s, "text_delta") /\ Trims(s)
        /\ UNCHANGED <<phase, logged, start, pending, waiting, watched, task, view, ghosts>>
    BY <1>11 DEF Says, turn
  <2>2. OneEvent(s, "text_delta")
    BY <1>1, <1>2, <1>5, <2>1 DEF OneEvent, m
  <2>3. "text_delta" \in Kinds
    BY DEF Kinds, InMessage
  <2>4. QED
    BY <2>1, <2>2, <2>3, EventKeeps
<1>12. CASE Asks(s)
  <2>1. /\ Emit(s, "prompt") /\ Trims(s) /\ phase[s] = "running"
        /\ pending' = [pending EXCEPT ![s] = @ \cup {m}]
        /\ waiting' = [waiting EXCEPT ![s] = @ \cup {m}]
        /\ UNCHANGED <<phase, logged, start, watched, task, view, ghosts>>
    BY <1>12 DEF Asks, PendingKeeps, turn, m
  <2>2. /\ pending' \in [Sessions -> SUBSET Nat] /\ waiting' \in [Sessions -> SUBSET Nat]
        /\ \A p \in Sessions \ {s} : pending[p]' = pending[p] /\ waiting[p]' = waiting[p]
        /\ pending[s]' = pending[s] \cup {m} /\ waiting[s]' = waiting[s] \cup {m}
    BY <1>1, <1>4, <2>1
  <2>3. OneEvent(s, "prompt")
    BY <1>1, <1>2, <1>5, <2>1, <2>2 DEF OneEvent, m
  <2>4. "prompt" \in Kinds
    BY DEF Kinds, InMessage
  <2>5. QED
    BY <2>1, <2>3, <2>4, EventKeeps
<1>13. CASE Finishes(s)
  <2>1. /\ Emit(s, "turn_complete") /\ Trims(s) /\ waiting[s] = {} /\ Goto(s, "returned")
        /\ UNCHANGED <<logged, start, pending, waiting, watched, task, view, ghosts>>
    BY <1>13 DEF Finishes
  <2>2. "turn_complete" \in Kinds
    BY DEF Kinds
  <2>3. /\ phase' \in [Sessions -> Phases] /\ waiting[s]' = {}
        /\ \A p \in Sessions \ {s} : phase[p]' = phase[p]
    BY <1>6, <2>1 DEF Phases
  <2>4. OneEvent(s, "turn_complete")
    BY <1>1, <1>2, <1>5, <2>1, <2>3 DEF OneEvent, m
  <2>5. QED
    BY <2>1, <2>2, <2>4, EventKeeps
<1>14. CASE Logs(s)
  <2>1. PICK n \in logged[s] + 1 .. Len(said[s]) : logged' = [logged EXCEPT ![s] = n]
    BY <1>14 DEF Logs
  <2>2. /\ UNCHANGED <<said, phase, start, cut, pending, waiting, watched, wire>>
        /\ UNCHANGED <<task, view, ghosts>>
    BY <1>14 DEF Logs, turn, buffer, link
  <2>3. /\ logged' \in [Sessions -> Nat] /\ logged[s]' = n
        /\ logged[s] <= n /\ n <= Len(said[s])
        /\ \A p \in Sessions \ {s} : logged[p]' = logged[p]
    BY <1>1, <2>1
  <2>4. Grows
    <3>1. ASSUME NEW p \in Sessions
          PROVE  logged[p] <= logged[p]' /\ said[p]' = said[p]
      <4>1. logged[p] \in Nat /\ said[p]' = said[p]
        BY <1>1, <2>2
      <4>2. CASE p = s
        BY <2>3, <4>1, <4>2
      <4>3. CASE p # s
        BY <2>3, <4>1, <4>3
      <4>4. QED
        BY <4>2, <4>3
    <3>2. QED
      BY <1>1, <3>1 DEF Grows
  <2>5. Counted'
    BY <1>2, <2>2, <2>3 DEF Counted
  <2>6. QED
    BY <1>1, <1>7, <2>2, <2>3, <2>4, <2>5
<1>15. CASE Settles(s)
  <2>1. /\ phase[s] = "settling" /\ Goto(s, "idle")
        /\ pending' = [pending EXCEPT ![s] = {}]
        /\ \/ /\ start' = [start EXCEPT ![s] = Len(said[s])]
              /\ cut' = [cut EXCEPT ![s] = 0]
           \/ UNCHANGED <<start, cut>>
        /\ UNCHANGED <<said, logged, waiting, watched, wire, task, view, ghosts>>
    BY <1>15 DEF Settles, buffer, link
  <2>2. /\ pending' \in [Sessions -> SUBSET Nat] /\ pending[s]' = {} /\ waiting[s] = {}
        /\ \A p \in Sessions \ {s} : pending[p]' = pending[p]
    BY <1>1, <1>2, <2>1
  <2>3. /\ start' \in [Sessions -> Nat] /\ cut' \in [Sessions -> Nat]
        /\ start[s]' + cut[s]' <= Len(said[s])
        /\ \A p \in Sessions \ {s} : start[p]' = start[p] /\ cut[p]' = cut[p]
    <3>1. CASE /\ start' = [start EXCEPT ![s] = Len(said[s])]
               /\ cut' = [cut EXCEPT ![s] = 0]
      <4>1. start[s]' = Len(said[s]) /\ cut[s]' = 0 /\ Len(said[s]) \in Nat
        BY <1>1, <3>1
      <4>2. QED
        BY <1>1, <3>1, <4>1
    <3>2. CASE UNCHANGED <<start, cut>>
      BY <1>1, <1>2, <3>2
    <3>3. QED
      BY <2>1, <3>1, <3>2
  <2>4. /\ phase' \in [Sessions -> Phases]
        /\ \A p \in Sessions \ {s} : phase[p]' = phase[p]
    BY <1>6, <2>1 DEF Phases
  <2>5. Counted'
    <3>1. ASSUME NEW p \in Sessions \ {s}
          PROVE  /\ logged[p]' <= Len(said[p]')
                 /\ start[p]' + cut[p]' <= Len(said[p]')
                 /\ phase[p]' # "running" => waiting[p]' = {}
                 /\ waiting[p]' \subseteq pending[p]'
                 /\ \A n \in pending[p]' : n \in 1 .. Len(said[p]') /\ said[p]'[n] = "prompt"
      <4>1. /\ phase[p]' = phase[p] /\ start[p]' = start[p] /\ cut[p]' = cut[p]
            /\ pending[p]' = pending[p] /\ waiting[p]' = waiting[p]
            /\ said[p]' = said[p] /\ logged[p]' = logged[p]
        BY <2>1, <2>2, <2>3, <2>4
      <4>2. QED
        BY <1>2, <4>1
    <3>2. QED
      BY <1>2, <2>1, <2>2, <2>3, <3>1 DEF Counted
  <2>6. QED
    BY <1>1, <1>7, <1>8, <2>1, <2>2, <2>3, <2>4, <2>5
<1>16. CASE \E n \in waiting[s] : Answered(s, n)
  <2>1. PICK n : /\ waiting' = [waiting EXCEPT ![s] = @ \ {n}]
                 /\ UNCHANGED <<said, phase, logged, start, cut, pending, watched, wire>>
                 /\ UNCHANGED <<task, view, ghosts>>
    BY <1>16 DEF Answered, turn, buffer, link
  <2>2. /\ waiting' \in [Sessions -> SUBSET Nat]
        /\ \A p \in Sessions : waiting[p]' \subseteq waiting[p]
    BY <1>1, <2>1
  <2>3. Counted'
    BY <1>2, <2>1, <2>2 DEF Counted
  <2>4. QED
    BY <1>1, <1>7, <1>8, <2>1, <2>2, <2>3
<1>17. QED
  BY <1>9, <1>10, <1>11, <1>12, <1>13, <1>14, <1>15, <1>16 DEF Hub

\* Any other step takes frames off the wire at most.
LEMMA LinkKeeps ==
    ASSUME HubInv, UNCHANGED hub, watched' \subseteq Talking,
           \/ wire' = wire
           \/ wire # <<>> /\ wire' = Tail(wire)
           \/ wire' = <<>>
    PROVE  HubInv' /\ Grows
<1>1. /\ UNCHANGED <<said, phase, logged, start, cut, pending, waiting>>
      /\ wire \in Seq(Frames)
  BY DEF hub, turn, buffer, HubInv, HubTypes
<1>2. Grows
  <2>1. \A s \in Sessions : Len(said[s]) \in Nat /\ logged[s] \in Nat
    BY DEF HubInv, HubTypes
  <2>2. QED
    BY <1>1, <2>1 DEF Grows
<1>3. Counted'
  BY <1>1 DEF HubInv, Counted
<1>4. wire' \in Seq(Frames) /\ WireAscends'
  <2>1. CASE wire' = wire
    BY <1>1, <2>1 DEF HubInv, WireAscends
  <2>2. CASE wire # <<>> /\ wire' = Tail(wire)
    <3>1. /\ wire' \in Seq(Frames) /\ Len(wire) \in Nat \ {0}
          /\ DOMAIN wire' = 1 .. Len(wire) - 1
          /\ \A i \in 1 .. Len(wire) - 1 : wire'[i] = wire[i + 1]
          /\ DOMAIN wire = 1 .. Len(wire)
      BY <1>1, <2>2
    <3>2. \A i \in 1 .. Len(wire) - 1 : i + 1 \in 1 .. Len(wire)
      BY <3>1
    <3>3. /\ \A i \in 1 .. Len(wire) : wire[i].n \in 1 .. Len(said[wire[i].session])
          /\ \A i, j \in 1 .. Len(wire) :
                i < j /\ wire[i].session = wire[j].session => wire[i].n < wire[j].n
      BY <3>1 DEF HubInv, WireAscends
    <3>4. \A i \in 1 .. Len(wire) - 1 : wire'[i].n \in 1 .. Len(said'[wire'[i].session])
      BY <1>1, <3>1, <3>2, <3>3
    <3>5. ASSUME NEW i \in 1 .. Len(wire) - 1, NEW j \in 1 .. Len(wire) - 1,
                 i < j, wire'[i].session = wire'[j].session
          PROVE  wire'[i].n < wire'[j].n
      <4>1. /\ i + 1 \in 1 .. Len(wire) /\ j + 1 \in 1 .. Len(wire) /\ i + 1 < j + 1
            /\ wire'[i] = wire[i + 1] /\ wire'[j] = wire[j + 1]
        BY <3>1, <3>2, <3>5
      <4>2. QED
        BY <3>3, <3>5, <4>1
    <3>6. QED
      BY <3>1, <3>4, <3>5 DEF WireAscends
  <2>3. CASE wire' = <<>>
    BY <2>3 DEF WireAscends
  <2>4. QED
    BY <2>1, <2>2, <2>3
<1>5. HubTypes'
  BY <1>1, <1>4 DEF HubInv, HubTypes
<1>6. QED
  BY <1>2, <1>3, <1>4, <1>5 DEF HubInv

-----------------------------------------------------------------------------
(* What the steps of the browser do *)

LEMMA HubAsItWas ==
    ASSUME UNCHANGED hub, NEW s
    PROVE  /\ said[s]' = said[s] /\ logged[s]' = logged[s] /\ waiting[s]' = waiting[s]
           /\ Written(s)' = Written(s) /\ Transcript(s)' = Transcript(s)
           /\ Messages(s)' = Messages(s)
BY DEF hub, Written, Transcript, Messages

\* The first messages of the transcript.
History(s, total) == {Transcript(s)[i] : i \in 1 .. total}

LEMMA HistoryFacts ==
    ASSUME HubInv, NEW s \in Sessions, NEW total \in Nat, total <= Cardinality(Written(s))
    PROVE  ToSet(SubSeq(Transcript(s), 1, total)) = History(s, total)
<1> DEFINE all == Transcript(s)
           page == SubSeq(all, 1, total)
<1>1. /\ Cardinality(Written(s)) \in Nat /\ all \in Seq(Nat)
      /\ Len(all) = Cardinality(Written(s))
  BY TranscriptFacts
<1> HIDE DEF all
<1>2. \A i \in 1 .. total : all[i] \in Nat
  BY <1>1
<1>3. /\ page \in Seq(Nat)
      /\ Len(page) = IF 1 <= total THEN total - 1 + 1 ELSE 0
      /\ \A i \in 1 .. total - 1 + 1 : page[i] = all[1 + i - 1]
  BY <1>2, SubSeqProperties
<1> HIDE DEF page
<1>4. total - 1 + 1 = total /\ \A i \in 1 .. total : 1 + i - 1 = i
  OBVIOUS
<1>5. Len(page) = total /\ \A i \in 1 .. total : page[i] = all[i]
  BY <1>3, <1>4
<1>6. DOMAIN page = 1 .. total
  BY <1>3, <1>5
<1>7. ToSet(page) = {all[i] : i \in 1 .. total}
  BY <1>5, <1>6 DEF ToSet
<1>8. QED
  BY <1>7 DEF History, page, all

LEMMA DepthFacts ==
    ASSUME HubInv, NEW s \in Sessions, NEW n \in Depths(s)
    PROVE  n \in Nat /\ n <= Cardinality(Written(s))
<1>1. Len(Transcript(s)) = Cardinality(Written(s)) /\ Cardinality(Written(s)) \in Nat
  BY TranscriptFacts
<1>2. n = Len(Transcript(s)) \/ n = 0
  BY DEF Depths
<1>3. QED
  BY <1>1, <1>2

LEMMA CountsDoes ==
    ASSUME HubInv, ViewTypes, NEW o \in Opens, CountsHistory(o), task[o].session \in Sessions
    PROVE  /\ task' \in [Opens -> Tasks]
           /\ \A p \in Opens \ {o} : task'[p] = task[p]
           /\ task[o].pc = "calling" /\ task'[o].pc = "counted"
           /\ task'[o].session = task[o].session
           /\ task'[o].reply.total \in Nat
           /\ task'[o].reply.total <= Cardinality(Written(task[o].session))
<1>1. PICK n \in Depths(task[o].session) : CountsTo(o, n)
  BY DEF CountsHistory, CountsTo
<1>2. n \in Nat /\ n <= Cardinality(Written(task[o].session))
  BY DepthFacts
<1>3. task \in [Opens -> Tasks] /\ task[o].pc = "calling"
  BY DEF ViewTypes, CountsHistory
<1>4. QED
  BY <1>1, <1>2, <1>3, CountedFacts

\* The reply tells the first messages of the transcript, and with the buffer all that
\* came since it was cleared, but for what was trimmed.
Tells(s, r, since) ==
    /\ r.seq = Len(said[s]) /\ r.asks = pending[s] /\ r.truncated = (cut[s] > 0)
    /\ r.replay \in Seq(Nat)
    /\ \/ since = {} /\ ToSet(r.replay) = {}
       \/ /\ since = start[s] + 1 .. Len(said[s])
          /\ ToSet(r.replay) = start[s] + cut[s] + 1 .. Len(said[s])
    /\ r.untold = Messages(s) \ (History(s, r.total) \cup since)
    /\ r.again = History(s, r.total) \cap since

LEMMA AttachesDoes ==
    ASSUME HubInv, ViewTypes, NEW o \in Opens, Attaches(o), task[o].session \in Sessions,
           task[o].reply.total <= Cardinality(Written(task[o].session))
    PROVE  LET s == task[o].session
               r == task'[o].reply
           IN  /\ task' \in [Opens -> Tasks]
               /\ \A p \in Opens \ {o} : task'[p] = task[p]
               /\ task[o].pc = "counted" /\ task'[o].pc = "replied" /\ task'[o].session = s
               /\ r.total = task[o].reply.total
               /\ \E since \in SUBSET Nat : Tells(s, r, since)
<1> DEFINE s == task[o].session
           total == task[o].reply.total
           serves == ServesReplay(s, total)
           replay == IF serves THEN Buffer(s) ELSE <<>>
           since == IF serves THEN start[s] + 1 .. Len(said[s]) ELSE {}
           counted == ToSet(SubSeq(Transcript(s), 1, total))
           untold == Messages(s) \ (counted \cup since)
           again == counted \cap since
           truncated == cut[s] > 0
           r == [seq |-> Len(said[s]), total |-> total, replay |-> replay,
                 truncated |-> truncated, asks |-> pending[s],
                 untold |-> untold, again |-> again]
<1>1. /\ task[o].pc = "counted"
      /\ task' = [task EXCEPT ![o].pc = "replied", ![o].reply = r]
  BY DEF Attaches
<1>2. /\ Len(said[s]) \in Nat /\ start[s] \in Nat /\ cut[s] \in Nat
      /\ pending[s] \in SUBSET Nat
  BY DEF HubInv, HubTypes
<1>3. total \in Nat /\ task \in [Opens -> Tasks]
  BY DEF ViewTypes, Tasks, Replies
<1>4. counted = History(s, total)
  BY <1>3, HistoryFacts
<1>5. Buffer(s) \in Seq(Nat) /\ ToSet(Buffer(s)) = start[s] + cut[s] + 1 .. Len(said[s])
  BY BufferFacts
<1>6. /\ replay \in Seq(Nat)
      /\ \/ since = {} /\ ToSet(replay) = {}
         \/ /\ since = start[s] + 1 .. Len(said[s])
            /\ ToSet(replay) = start[s] + cut[s] + 1 .. Len(said[s])
  <2>1. CASE serves
    BY <1>5, <2>1
  <2>2. CASE ~serves
    <3>1. replay = <<>> /\ since = {}
      BY <2>2
    <3> HIDE DEF replay, since, serves
    <3>2. replay \in Seq(Nat) /\ DOMAIN replay = {}
      BY <3>1
    <3>3. ToSet(replay) = {}
      BY <3>2 DEF ToSet
    <3>4. QED
      BY <3>1, <3>2, <3>3
  <2>3. QED
    BY <2>1, <2>2
<1>7. since \in SUBSET Nat
  BY <1>2
<1>8. untold \in SUBSET Nat /\ again \in SUBSET Nat
  <2>1. Messages(s) \in SUBSET Nat
    BY <1>2 DEF Messages
  <2> HIDE DEF since, counted
  <2>2. QED
    BY <1>7, <2>1
<1>9. truncated \in BOOLEAN
  OBVIOUS
<1> HIDE DEF serves, replay, since, counted, untold, again, truncated
<1>10. r \in Replies
  BY <1>2, <1>3, <1>6, <1>8, <1>9 DEF Replies
<1>11. /\ r.seq = Len(said[s]) /\ r.total = total /\ r.replay = replay
       /\ r.truncated = truncated /\ r.asks = pending[s]
       /\ r.untold = untold /\ r.again = again
  OBVIOUS
<1> HIDE DEF r
<1>12. /\ task' \in [Opens -> Tasks]
       /\ \A p \in Opens \ {o} : task'[p] = task[p]
       /\ task'[o].pc = "replied" /\ task'[o].reply = r /\ task'[o].session = s
  BY <1>1, <1>3, <1>10, RepliedFacts
<1>13. Tells(s, r, since)
  BY <1>4, <1>6, <1>11 DEF Tells, untold, again, truncated
<1>14. QED
  BY <1>1, <1>7, <1>11, <1>12, <1>13

\* r is p and then q.
Joined(r, p, q) ==
    /\ Len(r) = Len(p) + Len(q)
    /\ \A i \in 1 .. Len(p) + Len(q) : r[i] = IF i <= Len(p) THEN p[i] ELSE q[i - Len(p)]

LEMMA ConcatFacts ==
    ASSUME NEW S, NEW p \in Seq(S), NEW q \in Seq(S), NEW r, r = p \o q
    PROVE  r \in Seq(S) /\ Joined(r, p, q)
BY ConcatProperties, Zenon DEF Joined

LEMMA DrawsDoes ==
    ASSUME blocks \in Seq(Blocks), NEW o \in Opens, NEW numbers \in Seq(Nat),
           NEW s \in Sessions, task[o].session = s, Draws(o, numbers)
    PROVE  /\ blocks' \in Seq(Blocks)
           /\ Len(blocks') = Len(blocks) + Len(numbers)
           /\ \A i \in 1 .. Len(blocks) : blocks'[i] = blocks[i]
           /\ \A i \in 1 .. Len(numbers) : blocks'[Len(blocks) + i] = Block(s, numbers[i])
           /\ ToSet(blocks') = ToSet(blocks) \cup {Block(s, n) : n \in ToSet(numbers)}
           /\ Drawn' = Drawn \cup ToSet(numbers)
<1> DEFINE new == [i \in DOMAIN numbers |-> Block(s, numbers[i])]
           L == Len(blocks)
           N == Len(numbers)
<1>1. L \in Nat /\ N \in Nat /\ DOMAIN numbers = 1 .. N /\ DOMAIN blocks = 1 .. L
  OBVIOUS
<1>2. \A n \in Nat : Block(s, n) \in Blocks /\ Block(s, n).n = n
  BY DEF Block, Blocks
<1>3. new \in Seq(Blocks) /\ Len(new) = N /\ \A i \in 1 .. N : new[i] = Block(s, numbers[i])
  <2>1. \A i \in 1 .. N : numbers[i] \in Nat
    BY <1>1
  <2>2. new \in [1 .. N -> Blocks]
    BY <1>1, <1>2, <2>1
  <2>3. QED
    BY <1>1, <2>2
<1>4. blocks' = blocks \o new
  BY DEF Draws
<1> HIDE DEF new
<1>5. /\ blocks' \in Seq(Blocks) /\ Len(blocks') = L + N /\ DOMAIN blocks' = 1 .. L + N
      /\ \A i \in 1 .. L : blocks'[i] = blocks[i]
      /\ \A i \in 1 .. N : blocks'[L + i] = Block(s, numbers[i])
  <2>1. /\ blocks' \in Seq(Blocks) /\ Len(blocks') = L + N
        /\ \A i \in 1 .. L + N : blocks'[i] = IF i <= L THEN blocks[i] ELSE new[i - L]
    <3>1. blocks' \in Seq(Blocks) /\ Joined(blocks', blocks, new)
      BY <1>3, <1>4, ConcatFacts, Zenon
    <3>2. QED
      BY <1>3, <3>1 DEF Joined
  <2>2. \A i \in 1 .. L : i \in 1 .. L + N /\ i <= L
    BY <1>1
  <2>3. \A i \in 1 .. N : L + i \in 1 .. L + N /\ ~(L + i <= L) /\ (L + i) - L = i
    BY <1>1
  <2>4. DOMAIN blocks' = 1 .. L + N
    BY <2>1
  <2>5. QED
    BY <1>3, <2>1, <2>2, <2>3, <2>4
<1>6. ToSet(blocks') = ToSet(blocks) \cup {Block(s, n) : n \in ToSet(numbers)}
  <2>1. ASSUME NEW i \in 1 .. L + N
        PROVE  blocks'[i] \in ToSet(blocks) \cup {Block(s, n) : n \in ToSet(numbers)}
    <3>1. CASE i \in 1 .. L
      BY <1>1, <1>5, <3>1 DEF ToSet
    <3>2. CASE i \notin 1 .. L
      <4>1. i - L \in 1 .. N /\ L + (i - L) = i
        BY <1>1, <3>2
      <4>2. blocks'[i] = Block(s, numbers[i - L]) /\ numbers[i - L] \in ToSet(numbers)
        BY <1>1, <1>5, <4>1 DEF ToSet
      <4>3. QED
        BY <4>2
    <3>3. QED
      BY <3>1, <3>2
  <2>2. ASSUME NEW b \in ToSet(blocks)  PROVE b \in ToSet(blocks')
    <3>1. PICK i \in 1 .. L : b = blocks[i]
      BY <1>1 DEF ToSet
    <3>2. i \in 1 .. L + N /\ blocks'[i] = b
      BY <1>1, <1>5, <3>1
    <3>3. QED
      BY <1>5, <3>2 DEF ToSet
  <2>3. ASSUME NEW n \in ToSet(numbers)  PROVE Block(s, n) \in ToSet(blocks')
    <3>1. PICK i \in 1 .. N : n = numbers[i]
      BY <1>1 DEF ToSet
    <3>2. L + i \in 1 .. L + N /\ blocks'[L + i] = Block(s, n)
      BY <1>1, <1>5, <3>1
    <3>3. QED
      BY <1>5, <3>2 DEF ToSet
  <2>4. ToSet(blocks') \subseteq ToSet(blocks) \cup {Block(s, n) : n \in ToSet(numbers)}
    BY <1>5, <2>1 DEF ToSet
  <2>5. QED
    BY <2>2, <2>3, <2>4
<1>7. Drawn' = Drawn \cup ToSet(numbers)
  <2>1. ToSet(numbers) \subseteq Nat
    BY <1>1 DEF ToSet
  <2>2. \A n \in ToSet(numbers) : Block(s, n).n = n
    BY <1>2, <2>1
  <2>3. Drawn' = {b.n : b \in ToSet(blocks')}
    BY DEF Drawn
  <2>4. QED
    BY <1>6, <2>2, <2>3 DEF Drawn
<1>8. QED
  BY <1>5, <1>6, <1>7

\* Three sequences one after the other.
LEMMA ThreeParts ==
    ASSUME NEW a \in Seq(Nat), NEW b \in Seq(Nat), NEW c \in Seq(Nat)
    PROVE  /\ a \o b \o c \in Seq(Nat)
           /\ Len(a \o b \o c) = Len(a) + Len(b) + Len(c)
           /\ \A i \in 1 .. Len(a) : (a \o b \o c)[i] = a[i]
           /\ \A i \in 1 .. Len(b) : (a \o b \o c)[Len(a) + i] = b[i]
           /\ \A i \in 1 .. Len(c) : (a \o b \o c)[Len(a) + Len(b) + i] = c[i]
           /\ ToSet(a \o b \o c) = ToSet(a) \cup ToSet(b) \cup ToSet(c)
<1> DEFINE A == Len(a)
           B == Len(b)
           C == Len(c)
           q == a \o b
           w == q \o c
<1>1. /\ A \in Nat /\ B \in Nat /\ C \in Nat
      /\ DOMAIN a = 1 .. A /\ DOMAIN b = 1 .. B /\ DOMAIN c = 1 .. C
  OBVIOUS
<1>2. /\ q \in Seq(Nat) /\ Len(q) = A + B
      /\ \A i \in 1 .. A + B : q[i] = IF i <= A THEN a[i] ELSE b[i - A]
  BY ConcatProperties
<1>3. /\ w \in Seq(Nat) /\ Len(w) = A + B + C
      /\ \A i \in 1 .. A + B + C : w[i] = IF i <= A + B THEN q[i] ELSE c[i - (A + B)]
  <2>1. w = q \o c
    OBVIOUS
  <2> HIDE DEF q, w
  <2>2. w \in Seq(Nat) /\ Joined(w, q, c)
    BY <1>2, <2>1, ConcatFacts, Zenon
  <2>3. QED
    BY <1>1, <1>2, <2>2 DEF Joined
<1> HIDE DEF q, w, A, B, C
<1>4. \A i \in 1 .. A : w[i] = a[i]
  <2>1. \A i \in 1 .. A : i \in 1 .. A + B /\ i \in 1 .. A + B + C /\ i <= A + B /\ i <= A
    BY <1>1
  <2>2. QED
    BY <1>2, <1>3, <2>1
<1>5. \A i \in 1 .. B : w[A + i] = b[i]
  <2>1. \A i \in 1 .. B : /\ A + i \in 1 .. A + B /\ A + i \in 1 .. A + B + C
                          /\ A + i <= A + B /\ ~(A + i <= A) /\ (A + i) - A = i
    BY <1>1
  <2>2. QED
    BY <1>2, <1>3, <2>1
<1>6. \A i \in 1 .. C : w[A + B + i] = c[i]
  <2>1. \A i \in 1 .. C : /\ A + B + i \in 1 .. A + B + C
                          /\ ~(A + B + i <= A + B) /\ (A + B + i) - (A + B) = i
    BY <1>1
  <2>2. QED
    BY <1>3, <2>1
<1>7. ToSet(w) = ToSet(a) \cup ToSet(b) \cup ToSet(c)
  <2>1. DOMAIN w = 1 .. A + B + C
    BY <1>1, <1>3
  <2>2. ASSUME NEW i \in 1 .. A + B + C
        PROVE  w[i] \in ToSet(a) \cup ToSet(b) \cup ToSet(c)
    <3>1. CASE i \in 1 .. A
      BY <1>1, <1>4, <3>1 DEF ToSet
    <3>2. CASE i \in A + 1 .. A + B
      <4>1. i - A \in 1 .. B /\ A + (i - A) = i
        BY <1>1, <3>2
      <4>2. w[i] = b[i - A]
        BY <1>5, <4>1
      <4>3. QED
        BY <1>1, <4>1, <4>2 DEF ToSet
    <3>3. CASE i \in A + B + 1 .. A + B + C
      <4>1. i - (A + B) \in 1 .. C /\ A + B + (i - (A + B)) = i
        BY <1>1, <3>3
      <4>2. w[i] = c[i - (A + B)]
        BY <1>6, <4>1
      <4>3. QED
        BY <1>1, <4>1, <4>2 DEF ToSet
    <3>4. QED
      BY <1>1, <3>1, <3>2, <3>3
  <2>3. ToSet(a) \subseteq ToSet(w)
    <3>1. \A i \in 1 .. A : i \in 1 .. A + B + C
      BY <1>1
    <3>2. QED
      BY <1>1, <1>4, <2>1, <3>1 DEF ToSet
  <2>4. ToSet(b) \subseteq ToSet(w)
    <3>1. \A i \in 1 .. B : A + i \in 1 .. A + B + C
      BY <1>1
    <3>2. QED
      BY <1>1, <1>5, <2>1, <3>1 DEF ToSet
  <2>5. ToSet(c) \subseteq ToSet(w)
    <3>1. \A i \in 1 .. C : A + B + i \in 1 .. A + B + C
      BY <1>1
    <3>2. QED
      BY <1>1, <1>6, <2>1, <3>1 DEF ToSet
  <2>6. ToSet(w) \subseteq ToSet(a) \cup ToSet(b) \cup ToSet(c)
    BY <2>1, <2>2 DEF ToSet
  <2>7. QED
    BY <2>3, <2>4, <2>5, <2>6
<1>8. QED
  BY <1>3, <1>4, <1>5, <1>6, <1>7 DEF A, B, C, w, q

-----------------------------------------------------------------------------
(* What the view and the opens under way hold is of the open session *)

\* The opens that may still draw in the view, and the one that emptied it.
Live == rivals \cup {last}

\* A page is a stretch of the transcript, whole or up to the end of what was told.
PageFits(o) ==
    LET s == task[o].session
        k == task[o].offset
        page == task[o].page
    IN  /\ Len(page) <= PageSize /\ k + Len(page) <= Cardinality(Written(s))
        /\ Len(page) = PageSize \/ k + Len(page) >= task[o].reply.total
        /\ \A i \in 1 .. Len(page) : page[i] = Transcript(s)[k + i]

\* What the hub told an open, and how far into the pages it is.
ReplyFits(o) ==
    LET s == task[o].session
        reply == task[o].reply
    IN  /\ reply.seq <= Len(said[s])
        /\ \A n \in ToSet(reply.replay) : n \in 1 .. reply.seq
        /\ \A i \in 1 .. reply.total : Transcript(s)[i] <= reply.seq
        /\ \A i \in 1 .. reply.total, n \in ToSet(reply.replay) : said[s][n] \in InMessage =>
                Transcript(s)[i] < n \/ {Transcript(s)[i], n} \subseteq reply.again
        /\ \A n \in reply.asks : n \in 1 .. reply.seq /\ said[s][n] = "prompt"

TaskFits(o) ==
    task[o].pc \in Loading =>
        /\ last # None
        /\ task[o].session \in Sessions
        /\ task[o].session = open <=> o \in Live
        /\ task[o].reply.total <= Cardinality(Written(task[o].session))
        /\ task[o].pc \in Pending => ReplyFits(o)
        /\ task[o].pc \in {"paging", "page"} => task[o].offset < task[o].reply.total
        /\ task[o].pc = "page" => PageFits(o)

OpenFits ==
    /\ last = None => open = None
    /\ last # None =>
        /\ open \in Sessions
        /\ seq <= Len(said[open])
        /\ \A o \in Live : task[o].reply.total <= Cardinality(Written(open))

BlocksFit ==
    \A b \in ToSet(blocks) : b.n # 0 =>
        last # None /\ b.session = open /\ b.n \in 1 .. Len(said[open])

ViewInv ==
    /\ ViewTypes
    /\ \A o \in Opens : TaskFits(o)
    /\ OpenFits
    /\ BlocksFit

\* What an open was told stays true while the session goes on.
LEMMA TaskFitsOn ==
    ASSUME HubInv, HubInv', Grows, ViewTypes, NEW o \in Opens, TaskFits(o), task'[o] = task[o],
           task[o].pc \in Loading =>
                last' # None /\ (task[o].session = open' <=> o \in Live')
    PROVE  TaskFits(o)'
<1> SUFFICES ASSUME task[o].pc \in Loading  PROVE TaskFits(o)'
  BY DEF TaskFits
<1>1. task[o] \in Tasks
  BY DEF ViewTypes
<1> DEFINE reply == task[o].reply
           k == task[o].offset
           page == task[o].page
<1>2. PICK s \in Sessions : s = task[o].session /\ s = task'[o].session
  BY DEF TaskFits
<1>3. /\ Len(said[s]) <= Len(said[s]') /\ Len(said[s]) \in Nat /\ Len(said[s]') \in Nat
      /\ \A n \in 1 .. Len(said[s]) : said[s]'[n] = said[s][n]
  <2>1. said[s] \in Seq(Kinds) /\ said[s]' \in Seq(Kinds)
    BY DEF HubInv, HubTypes
  <2>2. QED
    BY <2>1 DEF Grows
<1>4. /\ Cardinality(Written(s)) <= Cardinality(Written(s))'
      /\ \A i \in 1 .. Cardinality(Written(s)) : Transcript(s)'[i] = Transcript(s)[i]
  BY TranscriptGrows
<1>5. Cardinality(Written(s)) \in Nat /\ Cardinality(Written(s))' \in Nat
  BY TranscriptGrows
<1>6. /\ reply.seq \in Nat /\ reply.total \in Nat /\ reply.replay \in Seq(Nat)
      /\ k \in Nat /\ page \in Seq(Nat) /\ Len(page) \in Nat
  BY <1>1 DEF Tasks, Replies
<1>7. /\ reply.total <= Cardinality(Written(s))
      /\ task[o].pc \in {"paging", "page"} => k < reply.total
  BY <1>2 DEF TaskFits
<1>8. task[o].pc \in Pending => ReplyFits(o)'
  <2> SUFFICES ASSUME task[o].pc \in Pending  PROVE ReplyFits(o)'
    OBVIOUS
  <2>1. /\ reply.seq <= Len(said[s])
        /\ \A n \in ToSet(reply.replay) : n \in 1 .. reply.seq
        /\ \A i \in 1 .. reply.total : Transcript(s)[i] <= reply.seq
        /\ \A i \in 1 .. reply.total, n \in ToSet(reply.replay) : said[s][n] \in InMessage =>
                Transcript(s)[i] < n \/ {Transcript(s)[i], n} \subseteq reply.again
        /\ \A n \in reply.asks : n \in 1 .. reply.seq /\ said[s][n] = "prompt"
    BY <1>2 DEF TaskFits, ReplyFits
  <2> HIDE DEF reply
  <2>2. \A i \in 1 .. reply.total : Transcript(s)'[i] = Transcript(s)[i]
    <3>1. \A i \in 1 .. reply.total : i \in 1 .. Cardinality(Written(s))
      <4> DEFINE c == Cardinality(Written(s))
      <4>1. c \in Nat /\ reply.total \in Nat /\ reply.total <= c
        BY <1>5, <1>6, <1>7
      <4> HIDE DEF c
      <4>2. \A i \in 1 .. reply.total : i \in 1 .. c
        BY <4>1
      <4>3. QED
        BY <4>2 DEF c
    <3>2. QED
      BY <1>4, <3>1
  <2>3. reply.seq <= Len(said[s]')
    BY <1>3, <1>6, <2>1
  <2>4. \A n \in 1 .. reply.seq : said[s]'[n] = said[s][n]
    <3>1. \A n \in 1 .. reply.seq : n \in 1 .. Len(said[s])
      BY <1>3, <1>6, <2>1
    <3>2. QED
      BY <1>3, <3>1
  <2>5. /\ reply.seq <= Len(said[s]')
        /\ \A n \in ToSet(reply.replay) : n \in 1 .. reply.seq
        /\ \A i \in 1 .. reply.total : Transcript(s)'[i] <= reply.seq
        /\ \A i \in 1 .. reply.total, n \in ToSet(reply.replay) : said[s]'[n] \in InMessage =>
                Transcript(s)'[i] < n \/ {Transcript(s)'[i], n} \subseteq reply.again
        /\ \A n \in reply.asks : n \in 1 .. reply.seq /\ said[s]'[n] = "prompt"
    BY <2>1, <2>2, <2>3, <2>4
  <2>6. task'[o].reply = reply /\ said'[task'[o].session] = said[s]'
    BY <1>2 DEF reply
  <2>7. QED
    BY <1>2, <2>5, <2>6 DEF ReplyFits
<1>9. task[o].pc = "page" => PageFits(o)'
  <2> SUFFICES ASSUME task[o].pc = "page"  PROVE PageFits(o)'
    OBVIOUS
  <2>1. /\ Len(page) <= PageSize /\ k + Len(page) <= Cardinality(Written(s))
        /\ Len(page) = PageSize \/ k + Len(page) >= reply.total
        /\ \A i \in 1 .. Len(page) : page[i] = Transcript(s)[k + i]
    BY <1>2 DEF TaskFits, PageFits
  <2>2. \A i \in 1 .. Len(page) : k + i \in 1 .. Cardinality(Written(s))
    <3> DEFINE N == Cardinality(Written(s))
               L == Len(page)
    <3>1. N \in Nat /\ L \in Nat /\ k \in Nat /\ k + L <= N
      BY <1>5, <1>6, <2>1
    <3> HIDE DEF N, L, k
    <3>2. \A i \in 1 .. L : k + i \in 1 .. N
      BY <3>1
    <3>3. QED
      BY <3>2 DEF N, L
  <2>3. \A i \in 1 .. Len(page) : page[i] = Transcript(s)'[k + i]
    BY <1>4, <2>1, <2>2
  <2>4. k + Len(page) <= Cardinality(Written(s))'
    BY <1>4, <1>5, <1>6, <2>1
  <2>5. /\ task'[o].page = page /\ task'[o].offset = k /\ task'[o].reply.total = reply.total
    OBVIOUS
  <2> HIDE DEF k, page, reply
  <2>6. QED
    BY <1>2, <2>1, <2>3, <2>4, <2>5 DEF PageFits
<1>10. reply.total <= Cardinality(Written(s))'
  BY <1>4, <1>5, <1>6, <1>7
<1>11. QED
  BY <1>2, <1>7, <1>8, <1>9, <1>10 DEF TaskFits

-----------------------------------------------------------------------------
(* Steps that keep what the view and the opens hold *)

\* What is added to the view is a note or of the open session.
LEMMA BlocksFitOn ==
    ASSUME HubInv, HubInv', Grows, BlocksFit, OpenFits,
           blocks \in Seq(Blocks), UNCHANGED <<open, last>>,
           \A b \in ToSet(blocks') : b \in ToSet(blocks) \/ b.n = 0
                \/ (last # None /\ b.session = open /\ b.n \in 1 .. Len(said[open]))
    PROVE  BlocksFit'
<1> SUFFICES ASSUME NEW b \in ToSet(blocks'), b.n # 0
             PROVE  last # None /\ b.session = open /\ b.n \in 1 .. Len(said'[open])
  BY DEF BlocksFit
<1>1. last # None /\ b.session = open /\ b.n \in 1 .. Len(said[open])
  BY DEF BlocksFit
<1>2. open \in Sessions
  BY <1>1 DEF OpenFits
<1>3. said[open] \in Seq(Kinds) /\ said'[open] \in Seq(Kinds)
  BY <1>2 DEF HubInv, HubTypes
<1>4. Len(said[open]) <= Len(said'[open])
  <2>1. PICK s \in Sessions : s = open
    BY <1>2
  <2>2. Len(said[s]) <= Len(said[s]')
    BY DEF Grows
  <2>3. QED
    BY <2>1, <2>2
<1>5. QED
  BY <1>1, <1>3, <1>4

LEMMA OpenFitsOn ==
    ASSUME HubInv, HubInv', Grows, ViewTypes, ViewTypes', OpenFits,
           UNCHANGED <<open, last, rivals>>,
           last # None => seq' <= seq \/ seq' <= Len(said[open]),
           last # None => \A o \in Live : task'[o].reply.total <= Cardinality(Written(open))
    PROVE  OpenFits'
<1> SUFFICES ASSUME last # None
             PROVE  /\ open \in Sessions /\ seq' <= Len(said'[open])
                    /\ \A o \in Live : task'[o].reply.total <= Cardinality(Written(open))'
  BY DEF OpenFits, Live
<1>1. PICK s \in Sessions : s = open
  BY DEF OpenFits
<1>2. /\ Len(said[s]) <= Len(said[s]') /\ Len(said[s]) \in Nat /\ Len(said[s]') \in Nat
  <2>1. said[s] \in Seq(Kinds) /\ said[s]' \in Seq(Kinds)
    BY DEF HubInv, HubTypes
  <2>2. QED
    BY <2>1 DEF Grows
<1>3. seq <= Len(said[s]) /\ (seq' <= seq \/ seq' <= Len(said[s]))
  BY <1>1 DEF OpenFits
<1>4. seq \in Nat /\ seq' \in Nat
  BY DEF ViewTypes
<1>5. /\ Cardinality(Written(s)) \in Nat /\ Cardinality(Written(s))' \in Nat
      /\ Cardinality(Written(s)) <= Cardinality(Written(s))'
  BY TranscriptGrows
<1>6. ASSUME NEW o \in Live  PROVE task'[o].reply.total <= Cardinality(Written(s))'
  <2>1. task'[o].reply.total <= Cardinality(Written(s))
    BY <1>1
  <2>2. o \in Opens
    BY DEF Live, ViewTypes
  <2>3. task'[o].reply.total \in Nat
    BY <2>2 DEF ViewTypes, Tasks, Replies
  <2>4. QED
    BY <1>5, <2>1, <2>3
<1>7. Cardinality(Written(open))' = Cardinality(Written(s))'
  BY <1>1
<1>8. QED
  BY <1>1, <1>2, <1>3, <1>4, <1>6, <1>7

\* A step that leaves the browser alone.
LEMMA ViewKept ==
    ASSUME HubInv, HubInv', Grows, ViewInv, UNCHANGED <<task, view, ghosts>>
    PROVE  ViewInv'
<1>1. UNCHANGED <<task, last, rivals, open, seq, blocks, warned>>
  BY DEF view, ghosts
<1>2. ViewTypes'
  BY <1>1 DEF ViewInv, ViewTypes
<1>3. \A o \in Opens : TaskFits(o)'
  <2>1. ASSUME NEW o \in Opens  PROVE TaskFits(o)'
    <3>1. TaskFits(o) /\ ViewTypes
      BY DEF ViewInv
    <3>2. task[o].pc \in Loading => last' # None /\ (task[o].session = open' <=> o \in Live')
      BY <1>1, <3>1 DEF TaskFits, Live
    <3>3. QED
      BY <1>1, <3>1, <3>2, TaskFitsOn
  <2>2. QED
    BY <2>1
<1>4. OpenFits'
  <2>1. last # None => \A o \in Live : task'[o].reply.total <= Cardinality(Written(open))
    BY <1>1 DEF ViewInv, OpenFits
  <2>2. seq \in Nat
    BY DEF ViewInv, ViewTypes
  <2>3. QED
    BY <1>1, <1>2, <2>1, <2>2, OpenFitsOn DEF ViewInv
<1>5. BlocksFit'
  <2>1. BlocksFit /\ OpenFits /\ blocks \in Seq(Blocks)
    BY DEF ViewInv, ViewTypes
  <2>2. \A b \in ToSet(blocks') : b \in ToSet(blocks) \/ b.n = 0
                \/ (last # None /\ b.session = open /\ b.n \in 1 .. Len(said[open]))
    BY <1>1
  <2>3. UNCHANGED <<open, last>>
    BY <1>1
  <2>4. QED
    BY <2>1, <2>2, <2>3, BlocksFitOn, Zenon
<1>6. QED
  BY <1>2, <1>3, <1>4, <1>5 DEF ViewInv

\* A step of one open.
LEMMA OpenKeeps ==
    ASSUME HubInv, HubInv', Grows, ViewInv, UNCHANGED <<open, last, rivals>>, ViewTypes',
           NEW o \in Opens, task[o].pc \in Loading,
           \A p \in Opens \ {o} : task'[p] = task[p],
           TaskFits(o)',
           task'[o].reply.total <= Cardinality(Written(task[o].session)),
           last # None => seq' <= seq \/ seq' <= Len(said[open]),
           BlocksFit'
    PROVE  ViewInv'
<1>2. \A p \in Opens : TaskFits(p)'
  <2>1. ASSUME NEW p \in Opens \ {o}  PROVE TaskFits(p)'
    <3>1. TaskFits(p) /\ ViewTypes /\ task'[p] = task[p]
      BY DEF ViewInv
    <3>2. task[p].pc \in Loading => last' # None /\ (task[p].session = open' <=> p \in Live')
      BY <3>1 DEF TaskFits, Live
    <3>3. QED
      BY <3>1, <3>2, TaskFitsOn
  <2>2. QED
    BY <2>1
<1>3. ASSUME last # None, NEW p \in Live
      PROVE  task'[p].reply.total <= Cardinality(Written(open))
  <2>1. p \in Opens
    BY <1>3 DEF Live, ViewInv, ViewTypes
  <2>2. CASE p = o
    BY <1>3, <2>2 DEF ViewInv, TaskFits
  <2>3. CASE p # o
    BY <1>3, <2>1, <2>3 DEF ViewInv, OpenFits
  <2>4. QED
    BY <2>2, <2>3
<1>4. OpenFits'
  BY <1>3, OpenFitsOn DEF ViewInv
<1>5. QED
  BY <1>2, <1>4 DEF ViewInv

-----------------------------------------------------------------------------
(* The steps of an open *)

\* An open that gives up: the view is of another session, or a page failed.
Leaves(o) ==
    /\ task[o].pc \in Loading
    /\ task' = [task EXCEPT ![o] = NoTask]
    /\ UNCHANGED <<hub, link, view, ghosts>>

\* It has its reply and a transcript to page through.
Begins(o) ==
    /\ task[o].pc = "replied" /\ StillOpen(o) /\ task[o].reply.total # 0
    /\ seq' = task[o].reply.seq
    /\ warned' = (warned \/ task[o].reply.truncated)
    /\ task' = [task EXCEPT ![o].pc = "paging", ![o].offset = Start(task[o].reply.total)]
    /\ UNCHANGED <<hub, link, open, blocks, ghosts>>

\* What its page holds beyond what it was told.
Ahead(o) ==
    ToSet(SubSeq(task[o].page, task[o].reply.total - task[o].offset + 1, Len(task[o].page)))

\* It draws a page and asks for the next.
Continues(o) ==
    /\ task[o].pc = "page" /\ StillOpen(o)
    /\ task[o].offset + PageSize < task[o].reply.total
    /\ Draws(o, task[o].page)
    /\ task' = [task EXCEPT ![o].pc = "paging", ![o].offset = task[o].offset + PageSize]
    /\ overtaken' = overtaken \cup Ahead(o)
    /\ UNCHANGED <<hub, link, last, rivals, open, seq, warned>>

\* It draws the last of the history, the replay and the asks.
EndsAtOnce(o) ==
    /\ task[o].pc = "replied" /\ StillOpen(o) /\ task[o].reply.total = 0
    /\ Draws(o, HistoryFirst(o, <<>>)) /\ Done(o)
    /\ seq' = task[o].reply.seq
    /\ warned' = (warned \/ task[o].reply.truncated)
    /\ UNCHANGED <<hub, link, open, ghosts>>

EndsWithPage(o) ==
    /\ task[o].pc = "page" /\ StillOpen(o)
    /\ ~(task[o].offset + PageSize < task[o].reply.total)
    /\ Draws(o, HistoryFirst(o, task[o].page)) /\ Done(o)
    /\ seq' = Max({seq} \cup ToSet(task[o].reply.replay))
    /\ overtaken' = overtaken \cup Ahead(o)
    /\ UNCHANGED <<hub, link, last, rivals, open, warned>>

LEMMA OpenMoves ==
    ASSUME NEW o, Open(o)
    PROVE  \/ CountsHistory(o) \/ Attaches(o) \/ AttachFails(o) \/ Leaves(o) \/ Begins(o) \/ ReadsPage(o)
           \/ Continues(o) \/ EndsAtOnce(o) \/ EndsWithPage(o)
<1>1. CASE TakesReply(o)
  <2>1. CASE ~StillOpen(o)
    <3>1. /\ task[o].pc = "replied" /\ task' = [task EXCEPT ![o] = NoTask]
          /\ UNCHANGED <<seq, blocks, warned>> /\ UNCHANGED <<hub, link, open, ghosts>>
      BY <1>1, <2>1 DEF TakesReply
    <3>2. QED
      BY <3>1 DEF Leaves, Loading, view
  <2>2. CASE StillOpen(o) /\ task[o].reply.total = 0
    BY <1>1, <2>2 DEF TakesReply, EndsAtOnce
  <2>3. CASE StillOpen(o) /\ task[o].reply.total # 0
    BY <1>1, <2>3 DEF TakesReply, Begins
  <2>4. QED
    BY <2>1, <2>2, <2>3
<1>2. CASE PageFails(o)
  BY <1>2 DEF PageFails, Leaves, Loading
<1>3. CASE DrawsPage(o)
  <2>1. CASE ~StillOpen(o)
    <3>1. /\ task[o].pc = "page" /\ task' = [task EXCEPT ![o] = NoTask]
          /\ UNCHANGED <<seq, blocks, overtaken>>
          /\ UNCHANGED <<hub, link, last, rivals, open, warned>>
      BY <1>3, <2>1 DEF DrawsPage
    <3>2. QED
      BY <3>1 DEF Leaves, Loading, view, ghosts
  <2>2. CASE StillOpen(o) /\ task[o].offset + PageSize < task[o].reply.total
    BY <1>3, <2>2 DEF DrawsPage, Continues, Ahead
  <2>3. CASE StillOpen(o) /\ ~(task[o].offset + PageSize < task[o].reply.total)
    BY <1>3, <2>3 DEF DrawsPage, DrawsReplay, EndsWithPage, Ahead
  <2>4. QED
    BY <2>1, <2>2, <2>3
<1>4. QED
  BY <1>1, <1>2, <1>3 DEF Open

\* A note adds nothing of a conversation.
LEMMA NoteDoes ==
    ASSUME blocks \in Seq(Blocks), NEW s \in Sessions, blocks' = Append(blocks, Note(s))
    PROVE  /\ blocks' \in Seq(Blocks) /\ Len(blocks') = Len(blocks) + 1
           /\ \A i \in 1 .. Len(blocks) : blocks'[i] = blocks[i]
           /\ blocks'[Len(blocks) + 1].n = 0
           /\ \A b \in ToSet(blocks') : b \in ToSet(blocks) \/ b.n = 0
           /\ Drawn' = Drawn \cup {0}
<1> DEFINE note == Note(s)
           L == Len(blocks)
<1>1. note \in Blocks /\ note.n = 0
  BY DEF Note, Block, Blocks
<1> HIDE DEF note
<1>2. blocks' = Append(blocks, note)
  BY DEF note
<1>3. /\ blocks' \in Seq(Blocks) /\ Len(blocks') = L + 1 /\ L \in Nat
      /\ DOMAIN blocks = 1 .. L /\ DOMAIN blocks' = 1 .. L + 1
      /\ \A i \in 1 .. L : blocks'[i] = blocks[i]
      /\ blocks'[L + 1] = note
  BY <1>1, <1>2
<1>4. ToSet(blocks') = ToSet(blocks) \cup {note}
  BY <1>3 DEF ToSet
<1>5. Drawn' = {b.n : b \in ToSet(blocks')}
  BY DEF Drawn
<1>6. QED
  BY <1>1, <1>3, <1>4, <1>5 DEF Drawn

LEMMA StartFacts ==
    ASSUME NEW total \in Nat
    PROVE  /\ Start(total) \in Nat /\ Start(total) <= total
           /\ total # 0 => Start(total) < total
<1> DEFINE W == PageSize * PagesAtOpen
<1>1. W \in Nat /\ W # 0
  BY ClientAssumption
<1>2. Start(total) = IF total > W THEN total - W ELSE 0
  BY DEF Start
<1> HIDE DEF W
<1>3. QED
  BY <1>1, <1>2

LEMMA TaskTypes ==
    ASSUME ViewTypes, NEW o \in Opens
    PROVE  LET r == task[o].reply IN
           /\ task[o].offset \in Nat /\ task[o].page \in Seq(Nat) /\ Len(task[o].page) \in Nat
           /\ r.seq \in Nat /\ r.total \in Nat /\ r.replay \in Seq(Nat)
           /\ r.truncated \in BOOLEAN /\ r.asks \in SUBSET Nat
           /\ r.untold \in SUBSET Nat /\ r.again \in SUBSET Nat
<1>1. task[o] \in Tasks
  BY DEF ViewTypes
<1>2. task[o].offset \in Nat /\ task[o].page \in Seq(Nat) /\ task[o].reply \in Replies
  BY <1>1 DEF Tasks
<1> DEFINE r == task[o].reply
           page == task[o].page
<1>3. page \in Seq(Nat) /\ r \in Replies
  BY <1>2
<1> HIDE DEF r, page
<1>4. Len(page) \in Nat
  BY <1>3
<1>5. /\ r.seq \in Nat /\ r.total \in Nat /\ r.replay \in Seq(Nat)
      /\ r.truncated \in BOOLEAN /\ r.asks \in SUBSET Nat
      /\ r.untold \in SUBSET Nat /\ r.again \in SUBSET Nat
  BY <1>3 DEF Replies
<1>6. QED
  BY <1>2, <1>4, <1>5 DEF r, page

LEMMA ReplyFitsOn ==
    ASSUME UNCHANGED hub, NEW o, task'[o].session = task[o].session,
           task'[o].reply = task[o].reply, ReplyFits(o)
    PROVE  ReplyFits(o)'
<1> DEFINE s == task[o].session
           reply == task[o].reply
<1>1. said' = said /\ \A p : Transcript(p)' = Transcript(p)
  BY HubAsItWas DEF hub
<1>2. /\ reply.seq <= Len(said[s])
      /\ \A n \in ToSet(reply.replay) : n \in 1 .. reply.seq
      /\ \A i \in 1 .. reply.total : Transcript(s)[i] <= reply.seq
      /\ \A i \in 1 .. reply.total, n \in ToSet(reply.replay) : said[s][n] \in InMessage =>
              Transcript(s)[i] < n \/ {Transcript(s)[i], n} \subseteq reply.again
      /\ \A n \in reply.asks : n \in 1 .. reply.seq /\ said[s][n] = "prompt"
  BY DEF ReplyFits
<1>3. Transcript(task[o].session)' = Transcript(s)
  <2>1. PICK p : p = s /\ p = task'[o].session
    OBVIOUS
  <2>2. Transcript(p)' = Transcript(p)
    BY <1>1
  <2>3. QED
    BY <2>1, <2>2
<1>4. task'[o].session = s /\ task'[o].reply = reply
  OBVIOUS
<1> HIDE DEF s, reply
<1>5. QED
  BY <1>1, <1>2, <1>3, <1>4 DEF ReplyFits

\* Of what an open under way holds, all is in its session.
LEMMA HeldIsSaid ==
    ASSUME HubInv, ViewInv, NEW o \in Opens, task[o].pc \in Loading
    PROVE  LET s == task[o].session
               reply == task[o].reply
               page == task[o].page
           IN  /\ s \in Sessions /\ last # None /\ Len(said[s]) \in Nat
               /\ Cardinality(Written(s)) \in Nat
               /\ reply.total <= Cardinality(Written(s))
               /\ s = open <=> o \in Live
               /\ task[o].pc \in Pending => ReplyFits(o)
               /\ task[o].pc \in {"paging", "page"} => task[o].offset < reply.total
               /\ task[o].pc = "page" =>
                    /\ PageFits(o)
                    /\ \A i \in 1 .. Len(page) :
                            page[i] \in Written(s) /\ page[i] \in 1 .. Len(said[s])
<1> DEFINE s == task[o].session
           reply == task[o].reply
           page == task[o].page
           k == task[o].offset
<1>1. TaskFits(o)
  BY DEF ViewInv
<1>2. s \in Sessions
  BY <1>1 DEF TaskFits
<1>3. Len(said[s]) \in Nat /\ logged[s] \in Nat /\ logged[s] <= Len(said[s])
  <2>1. said[s] \in Seq(Kinds) /\ logged[s] \in Nat
    BY <1>2 DEF HubInv, HubTypes
  <2>2. logged[s] <= Len(said[s])
    BY <1>2 DEF HubInv, Counted
  <2>3. QED
    BY <2>1, <2>2
<1>4. /\ Cardinality(Written(s)) \in Nat
      /\ \A i \in 1 .. Cardinality(Written(s)) :
                Transcript(s)[i] \in Written(s) /\ Transcript(s)[i] \in 1 .. logged[s]
  BY <1>2, TranscriptFacts
<1>5. ASSUME task[o].pc = "page"
      PROVE  /\ PageFits(o)
             /\ \A i \in 1 .. Len(page) : page[i] \in Written(s) /\ page[i] \in 1 .. Len(said[s])
  <2>1. PageFits(o)
    BY <1>1, <1>5 DEF TaskFits
  <2>2. /\ k + Len(page) <= Cardinality(Written(s))
        /\ \A i \in 1 .. Len(page) : page[i] = Transcript(s)[k + i]
    BY <2>1 DEF PageFits
  <2>3. k \in Nat /\ Len(page) \in Nat
    BY TaskTypes DEF ViewInv
  <2> HIDE DEF s, page, k
  <2>4. \A i \in 1 .. Len(page) : k + i \in 1 .. Cardinality(Written(s))
    BY <1>4, <2>2, <2>3
  <2>5. QED
    BY <1>3, <1>4, <2>1, <2>2, <2>4
<1>6. /\ last # None /\ reply.total <= Cardinality(Written(s))
      /\ s = open <=> o \in Live
      /\ task[o].pc \in Pending => ReplyFits(o)
      /\ task[o].pc \in {"paging", "page"} => k < reply.total
  BY <1>1 DEF TaskFits
<1>7. QED
  BY <1>2, <1>3, <1>4, <1>5, <1>6

LEMMA CountKeepsView ==
    ASSUME HubInv, HubInv', Grows, ViewInv, NEW o \in Opens, CountsHistory(o)
    PROVE  ViewInv'
<1>1. task[o].pc \in Loading
  BY DEF CountsHistory, Loading
<1>2. PICK s \in Sessions : s = task[o].session
  BY <1>1, HeldIsSaid
<1>3. UNCHANGED <<hub, open, seq, blocks, warned, ghosts>>
  BY DEF CountsHistory, view
<1>4. /\ task' \in [Opens -> Tasks] /\ \A p \in Opens \ {o} : task'[p] = task[p]
      /\ task'[o].pc = "counted" /\ task'[o].session = s
      /\ task'[o].reply.total <= Cardinality(Written(s))
  BY <1>2, CountsDoes DEF ViewInv
<1>5. ViewTypes'
  BY <1>3, <1>4 DEF ViewInv, ViewTypes, ghosts
<1>6. last # None /\ (s = open <=> o \in Live)
  BY <1>1, <1>2, HeldIsSaid
<1>7. TaskFits(o)'
  <2>1. /\ last' # None /\ (s = open' <=> o \in Live')
        /\ task'[o].reply.total <= Cardinality(Written(s))'
    <3>1. Written(s)' = Written(s)
      BY <1>3, HubAsItWas
    <3>2. QED
      BY <1>3, <1>4, <1>6, <3>1 DEF Live, ghosts
  <2>2. QED
    BY <1>4, <2>1 DEF TaskFits, Pending
<1>8. seq \in Nat
  BY DEF ViewInv, ViewTypes
<1>9. BlocksFit'
  BY <1>3 DEF ViewInv, BlocksFit, hub, ghosts
<1>10. QED
  BY <1>1, <1>2, <1>3, <1>4, <1>5, <1>7, <1>8, <1>9, OpenKeeps DEF ghosts

\* What the reply tells is told in order, but for what it tells twice.
LEMMA TellsInOrder ==
    ASSUME HubInv, NEW s \in Sessions, NEW r, NEW since \in SUBSET Nat, Tells(s, r, since),
           r.total \in Nat, r.total <= Cardinality(Written(s)),
           NEW i \in 1 .. r.total, NEW n \in ToSet(r.replay), said[s][n] \in InMessage
    PROVE  /\ n \in 1 .. Len(said[s])
           /\ Transcript(s)[i] \in 1 .. Len(said[s])
           /\ Transcript(s)[i] < n \/ {Transcript(s)[i], n} \subseteq r.again
<1>1. /\ said[s] \in Seq(Kinds) /\ Len(said[s]) \in Nat /\ logged[s] \in Nat
      /\ start[s] \in Nat /\ cut[s] \in Nat /\ logged[s] <= Len(said[s])
  BY DEF HubInv, HubTypes, Counted
<1>2. since = start[s] + 1 .. Len(said[s]) /\ n \in start[s] + cut[s] + 1 .. Len(said[s])
  BY DEF Tells
<1>3. n \in since /\ n \in 1 .. Len(said[s])
  BY <1>1, <1>2
<1> DEFINE m == Transcript(s)[i]
           N == Cardinality(Written(s))
<1>4. N \in Nat /\ i \in 1 .. N
  BY TranscriptFacts
<1>5. /\ m \in Written(s) /\ m \in 1 .. logged[s]
      /\ \A j \in 1 .. N : i < j => m < Transcript(s)[j]
      /\ n \in Written(s) => \E j \in 1 .. N : Transcript(s)[j] = n
  BY <1>4, TranscriptFacts
<1>6. m \in History(s, r.total)
  BY DEF History
<1>7. m \in 1 .. Len(said[s])
  BY <1>1, <1>5
<1> HIDE DEF m, N
<1>8. CASE m <= start[s]
  <2>1. m < n
    BY <1>1, <1>2, <1>7, <1>8
  <2>2. QED
    BY <1>3, <1>7, <2>1 DEF m
<1>9. CASE ~(m <= start[s])
  <2>1. m \in since
    BY <1>1, <1>2, <1>7, <1>9
  <2>2. m \in r.again
    BY <1>6, <2>1 DEF Tells
  <2>3. CASE n \in History(s, r.total)
    <3>1. n \in r.again
      BY <1>3, <2>3 DEF Tells
    <3>2. QED
      BY <1>3, <1>7, <2>2, <3>1 DEF m
  <2>4. CASE n \notin History(s, r.total) /\ n \in Written(s)
    <3>1. PICK j \in 1 .. N : Transcript(s)[j] = n
      BY <1>5, <2>4
    <3>2. j \notin 1 .. r.total
      BY <2>4, <3>1 DEF History
    <3>3. i < j
      BY <1>4, <3>2
    <3>4. m < n
      BY <1>5, <3>1, <3>3
    <3>5. QED
      BY <1>3, <1>7, <3>4 DEF m
  <2>5. CASE n \notin Written(s)
    <3>1. n \notin 1 .. logged[s]
      BY <2>5 DEF Written
    <3>2. m < n
      BY <1>1, <1>3, <1>5, <3>1
    <3>3. QED
      BY <1>3, <1>7, <3>2 DEF m
  <2>6. QED
    BY <2>3, <2>4, <2>5
<1>10. QED
  BY <1>8, <1>9

LEMMA AttachKeepsView ==
    ASSUME HubInv, HubInv', Grows, ViewInv, NEW o \in Opens, Attaches(o)
    PROVE  ViewInv'
<1> DEFINE r == task'[o].reply
<1>1. task[o].pc = "counted" /\ task[o].pc \in Loading
  BY DEF Attaches, Loading
<1>2. PICK s \in Sessions : s = task[o].session
  BY <1>1, HeldIsSaid
<1>3. UNCHANGED <<hub, open, seq, blocks, warned, ghosts>>
  BY DEF Attaches, view
<1>4. task[o].reply.total <= Cardinality(Written(s)) /\ task[o].reply.total \in Nat
  BY <1>1, <1>2, HeldIsSaid, TaskTypes DEF ViewInv
<1>5. /\ task' \in [Opens -> Tasks] /\ \A p \in Opens \ {o} : task'[p] = task[p]
      /\ task'[o].pc = "replied" /\ task'[o].session = s
      /\ r.total = task[o].reply.total
      /\ \E since \in SUBSET Nat : Tells(s, r, since)
  BY <1>1, <1>2, <1>4, AttachesDoes DEF ViewInv
<1>6. ViewTypes'
  BY <1>3, <1>5 DEF ViewInv, ViewTypes, ghosts
<1>7. /\ said'[s] = said[s] /\ Transcript(s)' = Transcript(s)
      /\ Written(s)' = Written(s)
  BY <1>3, HubAsItWas DEF hub
<1>8. /\ Len(said[s]) \in Nat /\ logged[s] \in Nat /\ logged[s] <= Len(said[s])
      /\ start[s] \in Nat /\ cut[s] \in Nat
      /\ \A n \in pending[s] : n \in 1 .. Len(said[s]) /\ said[s][n] = "prompt"
  <2>1. /\ said[s] \in Seq(Kinds) /\ logged[s] \in Nat
        /\ start[s] \in Nat /\ cut[s] \in Nat
    BY DEF HubInv, HubTypes
  <2>2. QED
    BY <2>1 DEF HubInv, Counted
<1>9. \A i \in 1 .. r.total : Transcript(s)[i] <= Len(said[s])
  <2>1. \A i \in 1 .. Cardinality(Written(s)) : Transcript(s)[i] \in 1 .. logged[s]
    BY TranscriptFacts
  <2>2. Cardinality(Written(s)) \in Nat
    BY TranscriptFacts
  <2> HIDE DEF r
  <2>3. \A i \in 1 .. r.total : i \in 1 .. Cardinality(Written(s))
    BY <1>4, <1>5, <2>2
  <2>4. QED
    BY <1>8, <2>1, <2>3
<1>10. ReplyFits(o)'
  <2>1. PICK since \in SUBSET Nat : Tells(s, r, since)
    BY <1>5
  <2>2. r.seq = Len(said[s]) /\ r.asks = pending[s]
    BY <2>1 DEF Tells
  <2>3. \A n \in ToSet(r.replay) : n \in 1 .. r.seq
    BY <1>8, <2>1 DEF Tells
  <2>4. \A i \in 1 .. r.total, n \in ToSet(r.replay) : said[s][n] \in InMessage =>
            Transcript(s)[i] < n \/ {Transcript(s)[i], n} \subseteq r.again
    BY <1>4, <1>5, <2>1, TellsInOrder
  <2> HIDE DEF r
  <2>5. /\ r.seq <= Len(said'[s])
        /\ \A n \in ToSet(r.replay) : n \in 1 .. r.seq
        /\ \A n \in r.asks : n \in 1 .. r.seq /\ said'[s][n] = "prompt"
        /\ \A i \in 1 .. r.total : Transcript(s)'[i] <= r.seq
        /\ \A i \in 1 .. r.total, n \in ToSet(r.replay) : said'[s][n] \in InMessage =>
                Transcript(s)'[i] < n \/ {Transcript(s)'[i], n} \subseteq r.again
    BY <1>7, <1>8, <1>9, <2>2, <2>3, <2>4
  <2>6. task'[o].reply = r
    BY DEF r
  <2>7. QED
    BY <1>5, <2>5, <2>6 DEF ReplyFits
<1>11. last # None /\ (s = open <=> o \in Live)
  BY <1>1, <1>2, HeldIsSaid
<1>12. TaskFits(o)'
  <2>1. /\ last' # None /\ (s = open' <=> o \in Live')
        /\ task'[o].reply.total <= Cardinality(Written(s))'
    BY <1>3, <1>4, <1>5, <1>7, <1>11 DEF Live, ghosts
  <2>2. QED
    BY <1>5, <1>10, <2>1 DEF TaskFits, Pending
<1>13. r.total <= Cardinality(Written(task[o].session))
  BY <1>2, <1>4, <1>5
<1>14. seq \in Nat
  BY DEF ViewInv, ViewTypes
<1>15. BlocksFit'
  BY <1>3 DEF ViewInv, BlocksFit, hub, ghosts
<1>16. QED
  BY <1>1, <1>3, <1>5, <1>6, <1>12, <1>13, <1>14, <1>15, OpenKeeps DEF ghosts

\* An open that ends without having drawn holds nothing.
LEMMA EndedKeepsView ==
    ASSUME HubInv, HubInv', Grows, ViewInv, NEW o \in Opens, task[o].pc \in Loading,
           NEW t \in Tasks, t.pc \notin Loading, t.reply = NoReply, task' = [task EXCEPT ![o] = t],
           UNCHANGED <<open, seq, warned, ghosts>>, blocks' \in Seq(Blocks), BlocksFit'
    PROVE  ViewInv'
<1>1. task' \in [Opens -> Tasks] /\ task'[o] = t /\ \A p \in Opens \ {o} : task'[p] = task[p]
  BY DEF ViewInv, ViewTypes
<1>2. ViewTypes'
  BY <1>1 DEF ViewInv, ViewTypes, ghosts
<1>3. TaskFits(o)'
  BY <1>1 DEF TaskFits
<1>4. task'[o].reply.total <= Cardinality(Written(task[o].session)) /\ seq \in Nat
  BY <1>1, NoReplyFacts, HeldIsSaid DEF ViewInv, ViewTypes
<1>5. QED
  BY <1>1, <1>2, <1>3, <1>4, OpenKeeps DEF ghosts

LEMMA FailKeepsView ==
    ASSUME HubInv, HubInv', Grows, ViewInv, NEW o \in Opens, AttachFails(o)
    PROVE  ViewInv' /\ blocks \in Seq(Blocks) /\ task[o].session \in Sessions
<1>1. /\ task[o].pc \in Loading /\ task' = [task EXCEPT ![o] = Refused]
      /\ blocks' = Append(blocks, Note(task[o].session))
      /\ UNCHANGED <<hub, open, seq, warned, ghosts>>
  BY DEF AttachFails, Loading
<1>2. blocks \in Seq(Blocks) /\ BlocksFit /\ OpenFits
  BY DEF ViewInv, ViewTypes
<1>3. PICK s \in Sessions : s = task[o].session
  BY <1>1, HeldIsSaid
<1>4. blocks' \in Seq(Blocks) /\ \A b \in ToSet(blocks') : b \in ToSet(blocks) \/ b.n = 0
  BY <1>1, <1>2, <1>3, NoteDoes
<1>5. BlocksFit'
  <2>1. UNCHANGED <<open, last>>
    BY <1>1 DEF ghosts
  <2>2. QED
    BY <1>2, <1>4, <2>1, BlocksFitOn, Zenon
<1>6. Refused \in Tasks /\ Refused.pc \notin Loading /\ Refused.reply = NoReply
  BY RefusedFacts DEF Loading
<1>7. ViewInv'
  BY <1>1, <1>4, <1>5, <1>6, EndedKeepsView
<1>8. QED
  BY <1>2, <1>3, <1>7

LEMMA LeavingKeepsView ==
    ASSUME HubInv, HubInv', Grows, ViewInv, NEW o \in Opens, Leaves(o)
    PROVE  ViewInv'
<1>1. /\ task[o].pc \in Loading /\ task' = [task EXCEPT ![o] = NoTask]
      /\ UNCHANGED <<hub, open, seq, blocks, warned, ghosts>>
  BY DEF Leaves, view
<1>2. NoTask \in Tasks /\ NoTask.pc \notin Loading /\ NoTask.reply = NoReply
  BY NoTaskFacts DEF Loading
<1>3. blocks \in Seq(Blocks) /\ BlocksFit'
  BY <1>1 DEF ViewInv, ViewTypes, BlocksFit, hub, ghosts
<1>4. QED
  BY <1>1, <1>2, <1>3, EndedKeepsView

LEMMA BeginKeepsView ==
    ASSUME HubInv, HubInv', Grows, ViewInv, NEW o \in Opens, Begins(o)
    PROVE  /\ ViewInv'
           /\ \A p \in Opens \ {o} : task'[p] = task[p]
           /\ task'[o].pc = "paging" /\ task'[o].reply = task[o].reply
           /\ task'[o].session = task[o].session
           /\ task'[o].offset = Start(task[o].reply.total)
<1> DEFINE r == task[o].reply
<1>1. /\ task[o].pc = "replied" /\ task[o].pc \in Loading /\ task[o].pc \in Pending
      /\ open = task[o].session /\ r.total # 0
      /\ seq' = r.seq /\ warned' = (warned \/ r.truncated)
      /\ task' = [task EXCEPT ![o].pc = "paging", ![o].offset = Start(r.total)]
      /\ UNCHANGED <<hub, open, blocks, ghosts>>
  BY DEF Begins, StillOpen, Loading, Pending
<1>2. r.total \in Nat /\ r.seq \in Nat
  BY TaskTypes DEF ViewInv
<1>3. Start(r.total) \in Nat /\ Start(r.total) < r.total
  BY <1>1, <1>2, StartFacts
<1>4. task \in [Opens -> Tasks]
  BY DEF ViewInv, ViewTypes
<1>5. /\ task' \in [Opens -> Tasks] /\ \A p \in Opens \ {o} : task'[p] = task[p]
      /\ task'[o].pc = "paging" /\ task'[o].offset = Start(r.total)
      /\ task'[o].session = task[o].session /\ task'[o].reply = r
  BY <1>1, <1>3, <1>4, PagingFacts
<1>6. ViewTypes'
  <2>1. warned' \in BOOLEAN
    BY <1>1
  <2>2. QED
    BY <1>1, <1>2, <1>5, <2>1 DEF ViewInv, ViewTypes, ghosts
<1>7. PICK s \in Sessions : s = task[o].session
  BY <1>1, HeldIsSaid
<1>8. /\ last # None /\ r.total <= Cardinality(Written(s)) /\ ReplyFits(o)
      /\ (s = open <=> o \in Live)
  BY <1>1, <1>7, HeldIsSaid
<1>9. ReplyFits(o)'
  BY <1>1, <1>5, <1>8, ReplyFitsOn
<1>10. Written(s)' = Written(s)
  BY <1>1, HubAsItWas
<1>11. TaskFits(o)'
  <2>1. /\ last' # None /\ (s = open' <=> o \in Live')
        /\ task'[o].reply.total <= Cardinality(Written(s))'
    BY <1>1, <1>5, <1>8, <1>10 DEF Live, ghosts
  <2>2. task'[o].session = s /\ task'[o].offset < task'[o].reply.total
    BY <1>3, <1>5, <1>7
  <2>3. QED
    BY <1>5, <1>9, <2>1, <2>2 DEF TaskFits, Pending
<1>12. r.total <= Cardinality(Written(task[o].session)) /\ task'[o].reply.total = r.total
  BY <1>5, <1>7, <1>8
<1>13. seq' <= Len(said[open])
  BY <1>1, <1>8 DEF ReplyFits
<1>14. BlocksFit'
  BY <1>1 DEF ViewInv, BlocksFit, hub, ghosts
<1>15. ViewInv'
  BY <1>1, <1>5, <1>6, <1>11, <1>12, <1>13, <1>14, OpenKeeps DEF ghosts
<1>16. QED
  BY <1>5, <1>15

LEMMA SmallerIs ==
    ASSUME NEW m \in Int, NEW n \in Int
    PROVE  Min({m, n}) \in {m, n} /\ Min({m, n}) <= m /\ Min({m, n}) <= n
<1>1. \E x \in {m, n} : \A y \in {m, n} : x <= y
  OBVIOUS
<1>2. Min({m, n}) \in {m, n} /\ \A y \in {m, n} : Min({m, n}) <= y
  BY <1>1, Zenon DEF Min
<1>3. QED
  BY <1>2

LEMMA ReadKeepsView ==
    ASSUME HubInv, HubInv', Grows, ViewInv, NEW o \in Opens, ReadsPage(o)
    PROVE  /\ ViewInv'
           /\ \A p \in Opens \ {o} : task'[p] = task[p]
           /\ task'[o].pc = "page" /\ task'[o].reply = task[o].reply
           /\ task'[o].session = task[o].session
           /\ task'[o].offset = task[o].offset
<1> DEFINE r == task[o].reply
           k == task[o].offset
           all == Transcript(task[o].session)
           to == Min({Len(all), k + PageSize})
           page == SubSeq(all, k + 1, to)
<1>1. /\ task[o].pc = "paging" /\ task[o].pc \in Loading /\ task[o].pc \in Pending
      /\ task' = [task EXCEPT ![o].pc = "page", ![o].page = page]
      /\ UNCHANGED <<hub, open, seq, blocks, warned, ghosts>>
  BY DEF ReadsPage, Loading, Pending, view
<1>2. PICK s \in Sessions : s = task[o].session
  BY <1>1, HeldIsSaid
<1>3. /\ last # None /\ r.total <= Cardinality(Written(s)) /\ ReplyFits(o)
      /\ (s = open <=> o \in Live) /\ k < r.total
  BY <1>1, <1>2, HeldIsSaid
<1>4. /\ Cardinality(Written(s)) \in Nat /\ all \in Seq(Nat)
      /\ Len(all) = Cardinality(Written(s))
  BY <1>2, TranscriptFacts
<1>5. k \in Nat /\ r.total \in Nat /\ PageSize \in Nat \ {0}
  BY TaskTypes, ClientAssumption DEF ViewInv
<1> HIDE DEF r, all, k
<1>6. /\ to \in Nat /\ to <= Len(all) /\ to <= k + PageSize /\ to >= k + 1
      /\ to = Len(all) \/ to = k + PageSize
  <2>1. Len(all) \in Int /\ k + PageSize \in Int
    BY <1>4, <1>5
  <2>2. to \in {Len(all), k + PageSize} /\ to <= Len(all) /\ to <= k + PageSize
    BY <2>1, SmallerIs
  <2> HIDE DEF to
  <2>3. QED
    BY <1>3, <1>4, <1>5, <2>2
<1> HIDE DEF to
<1>7. /\ page \in Seq(Nat) /\ Len(page) = to - k
      /\ \A i \in 1 .. to - k : page[i] = all[k + i]
  <2>1. \A i \in k + 1 .. to : all[i] \in Nat
    BY <1>4, <1>5, <1>6
  <2>2. /\ page \in Seq(Nat)
        /\ Len(page) = IF k + 1 <= to THEN to - (k + 1) + 1 ELSE 0
        /\ \A i \in 1 .. to - (k + 1) + 1 : page[i] = all[(k + 1) + i - 1]
    BY <1>5, <1>6, <2>1, SubSeqProperties
  <2> HIDE DEF page
  <2>3. to - (k + 1) + 1 = to - k /\ \A i \in 1 .. to - k : (k + 1) + i - 1 = k + i
    BY <1>5, <1>6
  <2>4. QED
    BY <1>5, <1>6, <2>2, <2>3
<1> HIDE DEF page
<1>8. task \in [Opens -> Tasks]
  BY DEF ViewInv, ViewTypes
<1>9. /\ task' \in [Opens -> Tasks] /\ \A p \in Opens \ {o} : task'[p] = task[p]
      /\ task'[o].pc = "page" /\ task'[o].page = page
      /\ task'[o].session = task[o].session /\ task'[o].reply = task[o].reply
      /\ task'[o].offset = task[o].offset
  BY <1>1, <1>7, <1>8, PageFacts
<1>10. ViewTypes'
  BY <1>1, <1>9 DEF ViewInv, ViewTypes, ghosts
<1>11. ReplyFits(o)'
  BY <1>1, <1>3, <1>9, ReplyFitsOn
<1>12. Written(s)' = Written(s) /\ Transcript(s)' = Transcript(s)
  BY <1>1, HubAsItWas
<1>13. PageFits(o)'
  <2>1. /\ Len(page) <= PageSize /\ k + Len(page) <= Cardinality(Written(s))
        /\ Len(page) = PageSize \/ k + Len(page) >= r.total
    <3>1. Len(page) = to - k /\ Len(all) = Cardinality(Written(s))
          /\ r.total <= Len(all) /\ Len(all) \in Nat
      BY <1>3, <1>4, <1>7
    <3>2. to <= Len(all) /\ to <= k + PageSize /\ (to = Len(all) \/ to = k + PageSize)
          /\ to \in Nat /\ k \in Nat /\ r.total \in Nat /\ PageSize \in Nat
      BY <1>5, <1>6
    <3> HIDE DEF page
    <3>3. k + Len(page) = to
      BY <3>1, <3>2
    <3>4. Len(page) <= PageSize
      BY <3>1, <3>2
    <3>5. CASE to = Len(all)
      BY <3>1, <3>3, <3>4, <3>5
    <3>6. CASE to = k + PageSize
      <4>1. Len(page) = PageSize
        BY <3>1, <3>2, <3>6
      <4>2. QED
        BY <3>1, <3>2, <3>3, <3>4, <4>1
    <3>7. QED
      BY <3>2, <3>5, <3>6
  <2>2. \A i \in 1 .. Len(page) : page[i] = Transcript(s)[k + i]
    <3>1. all = Transcript(s)
      BY <1>2 DEF all
    <3>2. \A i \in 1 .. Len(page) : page[i] = all[k + i]
      BY <1>7
    <3>3. QED
      BY <3>1, <3>2
  <2>3. task'[o].session = s /\ task'[o].offset = k /\ task'[o].reply.total = r.total
    BY <1>2, <1>9 DEF k, r
  <2>4. QED
    BY <1>9, <1>12, <2>1, <2>2, <2>3 DEF PageFits
<1>14. TaskFits(o)'
  <2>1. /\ last' # None /\ (s = open' <=> o \in Live')
        /\ task'[o].reply.total <= Cardinality(Written(s))'
    BY <1>1, <1>3, <1>9, <1>12 DEF Live, ghosts, r
  <2>2. task'[o].session = s /\ task'[o].offset < task'[o].reply.total
    BY <1>2, <1>3, <1>9 DEF k, r
  <2>3. QED
    BY <1>9, <1>11, <1>13, <2>1, <2>2 DEF TaskFits, Pending
<1>15. task'[o].reply.total <= Cardinality(Written(task[o].session))
  BY <1>2, <1>3, <1>9 DEF r
<1>16. seq \in Nat /\ BlocksFit'
  BY <1>1 DEF ViewInv, ViewTypes, BlocksFit, hub, ghosts
<1>17. ViewInv'
  BY <1>1, <1>9, <1>10, <1>14, <1>15, <1>16, OpenKeeps DEF ghosts
<1>18. QED
  BY <1>9, <1>17

LEMMA ContinueKeepsView ==
    ASSUME HubInv, HubInv', Grows, ViewInv, NEW o \in Opens, Continues(o)
    PROVE  /\ ViewInv'
           /\ \A p \in Opens \ {o} : task'[p] = task[p]
           /\ task'[o].pc = "paging" /\ task'[o].reply = task[o].reply
           /\ task'[o].session = task[o].session
           /\ task'[o].offset = task[o].offset + PageSize
           /\ Drawn' = Drawn \cup ToSet(task[o].page)
           /\ Len(blocks') = Len(blocks) + Len(task[o].page)
           /\ \A i \in 1 .. Len(blocks) : blocks'[i] = blocks[i]
           /\ \A i \in 1 .. Len(task[o].page) : blocks'[Len(blocks) + i].n = task[o].page[i]
<1> DEFINE r == task[o].reply
           k == task[o].offset
           page == task[o].page
<1>1. /\ task[o].pc = "page" /\ task[o].pc \in Loading /\ task[o].pc \in Pending
      /\ open = task[o].session /\ k + PageSize < r.total
      /\ Draws(o, page)
      /\ task' = [task EXCEPT ![o].pc = "paging", ![o].offset = k + PageSize]
      /\ UNCHANGED <<hub, last, rivals, open, seq, warned>>
  BY DEF Continues, StillOpen, Loading, Pending
<1>2. PICK s \in Sessions : s = task[o].session
  BY <1>1, HeldIsSaid
<1>3. /\ last # None /\ r.total <= Cardinality(Written(s)) /\ ReplyFits(o)
      /\ (s = open <=> o \in Live)
      /\ \A i \in 1 .. Len(page) : page[i] \in 1 .. Len(said[s])
  BY <1>1, <1>2, HeldIsSaid
<1>4. k \in Nat /\ r.total \in Nat /\ page \in Seq(Nat) /\ PageSize \in Nat
  BY TaskTypes, ClientAssumption DEF ViewInv
<1>5. task \in [Opens -> Tasks] /\ blocks \in Seq(Blocks)
  BY DEF ViewInv, ViewTypes
<1>6. /\ task' \in [Opens -> Tasks] /\ \A p \in Opens \ {o} : task'[p] = task[p]
      /\ task'[o].pc = "paging" /\ task'[o].offset = k + PageSize
      /\ task'[o].session = task[o].session /\ task'[o].reply = r
  <2> DEFINE next == k + PageSize
  <2>1. next \in Nat /\ task' = [task EXCEPT ![o].pc = "paging", ![o].offset = next]
    BY <1>1, <1>4
  <2> HIDE DEF next
  <2>2. /\ task' \in [Opens -> Tasks] /\ \A p \in Opens \ {o} : task'[p] = task[p]
        /\ task'[o].pc = "paging" /\ task'[o].offset = next
        /\ task'[o].session = task[o].session /\ task'[o].reply = task[o].reply
    BY <1>5, <2>1, PagingFacts
  <2>3. QED
    BY <2>2 DEF next
<1>7. /\ blocks' \in Seq(Blocks) /\ Len(blocks') = Len(blocks) + Len(page)
      /\ \A i \in 1 .. Len(blocks) : blocks'[i] = blocks[i]
      /\ \A i \in 1 .. Len(page) : blocks'[Len(blocks) + i] = Block(s, page[i])
      /\ ToSet(blocks') = ToSet(blocks) \cup {Block(s, n) : n \in ToSet(page)}
      /\ Drawn' = Drawn \cup ToSet(page)
  <2> HIDE DEF page, r, k
  <2>1. Draws(o, page) /\ task[o].session = s
    BY <1>1, <1>2
  <2>2. QED
    BY <1>4, <1>5, <2>1, DrawsDoes
<1>8. ViewTypes'
  BY <1>1, <1>6, <1>7 DEF ViewInv, ViewTypes
<1>9. ReplyFits(o)'
  BY <1>1, <1>3, <1>6, ReplyFitsOn
<1>10. Written(s)' = Written(s)
  BY <1>1, HubAsItWas
<1>11. TaskFits(o)'
  <2>1. /\ last' # None /\ (s = open' <=> o \in Live')
        /\ task'[o].reply.total <= Cardinality(Written(s))'
    BY <1>1, <1>3, <1>6, <1>10 DEF Live
  <2>2. task'[o].session = s /\ task'[o].offset < task'[o].reply.total
    BY <1>1, <1>2, <1>6
  <2>3. QED
    BY <1>6, <1>9, <2>1, <2>2 DEF TaskFits, Pending
<1>12. task'[o].reply.total <= Cardinality(Written(task[o].session))
  BY <1>2, <1>3, <1>6
<1>13. \A n \in ToSet(page) : Block(s, n).n = n /\ Block(s, n).session = s
  BY DEF Block
<1>14. UNCHANGED <<open, last>>
  BY <1>1
<1>15. BlocksFit'
  <2>1. \A n \in ToSet(page) : n \in 1 .. Len(said[s])
    BY <1>3, <1>4 DEF ToSet
  <2>2. \A b \in ToSet(blocks') : b \in ToSet(blocks) \/ b.n = 0
                \/ (last # None /\ b.session = open /\ b.n \in 1 .. Len(said[open]))
    BY <1>1, <1>2, <1>3, <1>7, <1>13, <2>1
  <2>3. BlocksFit /\ OpenFits
    BY DEF ViewInv
  <2>4. QED
    BY <1>5, <1>14, <2>2, <2>3, BlocksFitOn, Zenon
<1>16. ViewInv'
  BY <1>1, <1>6, <1>8, <1>11, <1>12, <1>15, OpenKeeps DEF ViewInv, ViewTypes
<1>17. \A i \in 1 .. Len(page) : Block(s, page[i]).n = page[i]
  BY DEF Block
<1>18. QED
  BY <1>6, <1>7, <1>16, <1>17

\* What of the replay draws a block.
Replayed(s, o) == {n \in ToSet(task[o].reply.replay) : said[s][n] # "turn_complete"}

\* What an open draws last: history, replay and asks, each in order.
EndsInOrder(o, s, history) ==
    LET numbers == HistoryFirst(o, history)
        texts == Texts(s, task[o].reply.replay)
        asks == Ascending(task[o].reply.asks)
    IN  /\ numbers \in Seq(Nat) /\ texts \in Seq(Nat) /\ asks \in Seq(Nat)
        /\ ToSet(texts) = Replayed(s, o) /\ ToSet(asks) = task[o].reply.asks
        /\ ToSet(numbers) = ToSet(history) \cup Replayed(s, o) \cup task[o].reply.asks
        /\ Len(numbers) = Len(history) + Len(texts) + Len(asks)
        /\ \A i \in 1 .. Len(history) : numbers[i] = history[i]
        /\ \A i \in 1 .. Len(texts) : numbers[Len(history) + i] = texts[i]
        /\ \A i \in 1 .. Len(asks) : numbers[Len(history) + Len(texts) + i] = asks[i]
        /\ \A i, j \in 1 .. Len(texts) : i < j => texts[i] < texts[j]

\* So does every open that has its reply, whatever pages it read.
LEMMA LastIsInOrder ==
    ASSUME HubInv, ViewInv, NEW o \in Opens, task[o].pc \in Pending,
           NEW s \in Sessions, s = task[o].session, NEW history \in Seq(Nat)
    PROVE  EndsInOrder(o, s, history)
<1> DEFINE r == task[o].reply
           texts == Texts(s, r.replay)
           asks == Ascending(r.asks)
           drawn == Replayed(s, o)
<1>1. ReplyFits(o) /\ r.seq \in Nat
  BY HeldIsSaid, TaskTypes DEF ViewInv, Pending, Loading
<1>2. Bounded(drawn) /\ Bounded(r.asks)
  <2>1. \A n \in drawn : n \in 1 .. r.seq
    BY <1>1 DEF ReplyFits, Replayed
  <2>2. \A n \in r.asks : n \in 1 .. r.seq
    BY <1>1 DEF ReplyFits
  <2> HIDE DEF drawn, r
  <2>3. \A n \in 1 .. r.seq : n \in Nat /\ n <= r.seq
    BY <1>1
  <2>4. QED
    BY <1>1, <2>1, <2>2, <2>3 DEF Bounded
<1>3. texts = Ascending(drawn)
  BY DEF Texts, Replayed
<1> HIDE DEF drawn
<1>4. /\ texts \in Seq(Nat) /\ ToSet(texts) = drawn
      /\ \A i, j \in 1 .. Len(texts) : i < j => texts[i] < texts[j]
  BY <1>2, <1>3, AscendingFacts
<1>5. asks \in Seq(Nat) /\ ToSet(asks) = r.asks
  BY <1>2, AscendingFacts
<1>6. HistoryFirst(o, history) = history \o texts \o asks
  BY DEF HistoryFirst
<1> HIDE DEF texts, asks
<1>7. /\ history \o texts \o asks \in Seq(Nat)
      /\ Len(history \o texts \o asks) = Len(history) + Len(texts) + Len(asks)
      /\ \A i \in 1 .. Len(history) : (history \o texts \o asks)[i] = history[i]
      /\ \A i \in 1 .. Len(texts) : (history \o texts \o asks)[Len(history) + i] = texts[i]
      /\ \A i \in 1 .. Len(asks) :
            (history \o texts \o asks)[Len(history) + Len(texts) + i] = asks[i]
      /\ ToSet(history \o texts \o asks) = ToSet(history) \cup ToSet(texts) \cup ToSet(asks)
  BY <1>4, <1>5, ThreeParts
<1>8. QED
  BY <1>4, <1>5, <1>6, <1>7 DEF EndsInOrder, texts, asks, drawn, r

\* An open that has drawn everything.
LEMMA EndKeepsView ==
    ASSUME HubInv, HubInv', Grows, ViewInv, NEW o \in Opens, UNCHANGED <<hub, open, last, rivals>>,
           task[o].pc \in Pending, open = task[o].session,
           NEW history \in Seq(Nat), \A n \in ToSet(history) : n \in 1 .. Len(said[open]),
           Draws(o, HistoryFirst(o, history)), Done(o),
           seq' \in {seq, task[o].reply.seq} \cup ToSet(task[o].reply.replay),
           warned' \in BOOLEAN
    PROVE  /\ ViewInv'
           /\ \A p \in Opens \ {o} : task'[p] = task[p]
           /\ task'[o].pc = "drawn" /\ task'[o].session = None
           /\ task'[o].reply.total = task[o].reply.total
           /\ task'[o].reply.untold = task[o].reply.untold
           /\ task'[o].reply.again = task[o].reply.again
           /\ Drawn' = Drawn \cup ToSet(history) \cup Replayed(open, o) \cup task[o].reply.asks
           /\ Len(blocks') = Len(blocks) + Len(HistoryFirst(o, history))
           /\ \A i \in 1 .. Len(blocks) : blocks'[i] = blocks[i]
           /\ \A i \in 1 .. Len(HistoryFirst(o, history)) :
                    blocks'[Len(blocks) + i].n = HistoryFirst(o, history)[i]
<1> DEFINE r == task[o].reply
           numbers == HistoryFirst(o, history)
<1>1. task[o].pc \in Loading
  BY DEF Pending, Loading
<1>2. PICK s \in Sessions : s = task[o].session
  BY <1>1, HeldIsSaid
<1>3. /\ last # None /\ r.total <= Cardinality(Written(s)) /\ ReplyFits(o)
      /\ Len(said[s]) \in Nat
  BY <1>1, <1>2, HeldIsSaid
<1>4. /\ r.total \in Nat /\ r.seq \in Nat /\ r.replay \in Seq(Nat)
      /\ r.untold \in SUBSET Nat /\ r.again \in SUBSET Nat
  BY TaskTypes DEF ViewInv
<1>5. task \in [Opens -> Tasks] /\ blocks \in Seq(Blocks)
  BY DEF ViewInv, ViewTypes
<1>6. /\ task' \in [Opens -> Tasks] /\ \A p \in Opens \ {o} : task'[p] = task[p]
      /\ task'[o].pc = "drawn" /\ task'[o].session = None /\ task'[o].reply.total = r.total
      /\ task'[o].reply.untold = r.untold /\ task'[o].reply.again = r.again
  <2> DEFINE t == [NoTask EXCEPT !.pc = "drawn", !.reply.total = r.total,
                                 !.reply.untold = r.untold, !.reply.again = r.again]
  <2>1. task' = [task EXCEPT ![o] = t]
    BY DEF Done
  <2>2. /\ t \in Tasks /\ t.pc = "drawn" /\ t.session = None /\ t.reply.total = r.total
        /\ t.reply.untold = r.untold /\ t.reply.again = r.again
    <3>1. t = DrawnTask(r.total, r.untold, r.again)
      BY DEF DrawnTask
    <3> DEFINE total == r.total
               untold == r.untold
               again == r.again
    <3>2. total \in Nat /\ untold \in SUBSET Nat /\ again \in SUBSET Nat
      BY <1>4
    <3>3. t = DrawnTask(total, untold, again)
      BY <3>1
    <3> HIDE DEF t, total, untold, again
    <3>4. /\ t \in Tasks /\ t.pc = "drawn" /\ t.session = None
          /\ t.reply.total = total /\ t.reply.untold = untold /\ t.reply.again = again
      BY <3>2, <3>3, DrawnFacts
    <3>5. QED
      BY <3>4 DEF total, untold, again
  <2> HIDE DEF t, r
  <2>3. QED
    BY <1>5, <2>1, <2>2
<1>7. /\ numbers \in Seq(Nat)
      /\ ToSet(numbers) = ToSet(history) \cup Replayed(s, o) \cup r.asks
  <2>1. EndsInOrder(o, s, history)
    BY <1>2, LastIsInOrder
  <2>2. QED
    BY <2>1 DEF EndsInOrder
<1> HIDE DEF numbers
<1>8. Draws(o, numbers) /\ task[o].session = s
  BY <1>2 DEF numbers
<1>9. /\ blocks' \in Seq(Blocks) /\ Len(blocks') = Len(blocks) + Len(numbers)
      /\ \A i \in 1 .. Len(blocks) : blocks'[i] = blocks[i]
      /\ \A i \in 1 .. Len(numbers) : blocks'[Len(blocks) + i] = Block(s, numbers[i])
      /\ ToSet(blocks') = ToSet(blocks) \cup {Block(s, n) : n \in ToSet(numbers)}
      /\ Drawn' = Drawn \cup ToSet(numbers)
  BY <1>5, <1>7, <1>8, DrawsDoes
<1>10. /\ \A n \in ToSet(r.replay) : n \in 1 .. r.seq
       /\ r.seq <= Len(said[s])
       /\ \A n \in r.asks : n \in 1 .. r.seq
  BY <1>2, <1>3 DEF ReplyFits
<1>11. \A n \in 1 .. r.seq : n \in 1 .. Len(said[s])
  <2> HIDE DEF r
  <2>1. QED
    BY <1>3, <1>4, <1>10
<1>12. \A n \in ToSet(numbers) : n \in 1 .. Len(said[s])
  BY <1>2, <1>7, <1>10, <1>11 DEF Replayed
<1>13. \A n : Block(s, n).n = n /\ Block(s, n).session = s
  BY DEF Block
<1>14. BlocksFit'
  <2>1. \A b \in ToSet(blocks') : b \in ToSet(blocks) \/ b.n = 0
                \/ (last # None /\ b.session = open /\ b.n \in 1 .. Len(said[open]))
    BY <1>2, <1>3, <1>9, <1>12, <1>13
  <2>2. BlocksFit /\ OpenFits
    BY DEF ViewInv
  <2>3. UNCHANGED <<open, last>>
    OBVIOUS
  <2>4. QED
    BY <1>5, <2>1, <2>2, <2>3, BlocksFitOn, Zenon
<1>15. seq' \in Nat /\ (seq' <= seq \/ seq' <= Len(said[open]))
  <2>1. seq \in Nat
    BY DEF ViewInv, ViewTypes
  <2>2. CASE seq' = seq
    BY <2>1, <2>2
  <2>3. CASE seq' = r.seq
    BY <1>2, <1>4, <1>10, <2>3
  <2>4. CASE seq' \in ToSet(r.replay)
    <3>1. seq' \in 1 .. Len(said[s])
      BY <1>10, <1>11, <2>4
    <3>2. QED
      BY <1>2, <1>3, <3>1
  <2>5. QED
    BY <2>2, <2>3, <2>4
<1>16. ViewTypes'
  BY <1>6, <1>9, <1>15 DEF ViewInv, ViewTypes
<1>17. TaskFits(o)'
  BY <1>6 DEF TaskFits, Loading
<1>18. task'[o].reply.total <= Cardinality(Written(task[o].session))
  BY <1>2, <1>3, <1>6
<1>19. ViewInv'
  BY <1>1, <1>6, <1>14, <1>15, <1>16, <1>17, <1>18, OpenKeeps
<1>20. \A i \in 1 .. Len(numbers) : blocks'[Len(blocks) + i].n = numbers[i]
  BY <1>9, <1>13
<1>21. QED
  BY <1>2, <1>6, <1>7, <1>9, <1>19, <1>20 DEF numbers

-----------------------------------------------------------------------------
(* The other steps of the browser *)

LEMMA OpeningKeepsView ==
    ASSUME HubInv, HubInv', UNCHANGED hub, Grows, ViewInv, NEW o \in Opens, NEW s \in Sessions,
           Opening(o, s)
    PROVE  ViewInv'
<1>1. /\ task[o].pc \notin Loading /\ last' = o /\ open' = s /\ seq' = 0 /\ warned' = FALSE
      /\ rivals' = {other \in Opens : task[other].session = s /\ task[other].pc \in Loading}
      /\ task' = [task EXCEPT ![o] =
            IF up' THEN [NoTask EXCEPT !.pc = "calling", !.session = s] ELSE Refused]
      /\ blocks' = IF up' THEN <<>> ELSE <<Note(s)>>
  BY DEF Opening
<1>2. ViewTypes /\ \A p \in Opens : TaskFits(p)
  BY DEF ViewInv
<1>3. PICK t \in Tasks : /\ task' = [task EXCEPT ![o] = t]
                         /\ t.pc \in {"calling", "refused"} /\ t.reply = NoReply
                         /\ t.pc = "calling" => t.session = s
  <2>1. CASE up'
    <3> DEFINE t == [NoTask EXCEPT !.pc = "calling", !.session = s]
    <3>1. task' = [task EXCEPT ![o] = t]
      BY <1>1, <2>1
    <3>2. t \in Tasks /\ t.pc = "calling" /\ t.session = s /\ t.reply = NoReply
      BY CallingFacts
    <3> HIDE DEF t
    <3>3. QED
      BY <3>1, <3>2
  <2>2. CASE ~up'
    <3>1. task' = [task EXCEPT ![o] = Refused]
      BY <1>1, <2>2
    <3>2. QED
      BY <3>1, RefusedFacts
  <2>3. QED
    BY <2>1, <2>2
<1>4. task' \in [Opens -> Tasks] /\ task'[o] = t /\ \A p \in Opens \ {o} : task'[p] = task[p]
  BY <1>2, <1>3 DEF ViewTypes
<1>5. blocks' \in Seq(Blocks) /\ \A b \in ToSet(blocks') : b.n = 0
  <2>1. CASE up'
    <3>1. blocks' = <<>>
      BY <1>1, <2>1
    <3>2. QED
      BY <3>1 DEF ToSet
  <2>2. CASE ~up'
    <3> DEFINE note == Note(s)
    <3>1. note \in Blocks /\ note.n = 0
      BY DEF Note, Block, Blocks
    <3> HIDE DEF note
    <3>2. blocks' = <<note>>
      BY <1>1, <2>2 DEF note
    <3>3. QED
      BY <3>1, <3>2 DEF ToSet
  <2>3. QED
    BY <2>1, <2>2
<1>6. ViewTypes'
  BY <1>1, <1>4, <1>5 DEF ViewTypes
<1>7. None \notin Opens
  BY ClientAssumption
<1>8. Written(s)' = Written(s) /\ said'[s] = said[s]
  BY HubAsItWas
<1>9. NoReply.total = 0 /\ Cardinality(Written(s)) \in Nat /\ Len(said[s]) \in Nat
  <2>1. said[s] \in Seq(Kinds)
    BY DEF HubInv, HubTypes
  <2>2. QED
    BY <2>1, NoReplyFacts, TranscriptFacts
<1>10. TaskFits(o)'
  <2> SUFFICES ASSUME t.pc \in Loading  PROVE TaskFits(o)'
    BY <1>4 DEF TaskFits
  <2>1. t.pc = "calling" /\ t.session = s
    BY <1>3 DEF Loading
  <2>2. o \in Live' /\ s = open' /\ last' # None
    BY <1>1, <1>7 DEF Live
  <2>3. Cardinality(Written(task[o].session))' = Cardinality(Written(s))
    <3>1. task'[o].session = s
      BY <1>4, <2>1
    <3>2. QED
      BY <1>8, <3>1
  <2>4. QED
    BY <1>3, <1>4, <1>9, <2>1, <2>2, <2>3 DEF TaskFits, Pending
<1>11. \A p \in Opens : TaskFits(p)'
  <2>1. ASSUME NEW p \in Opens \ {o}  PROVE TaskFits(p)'
    <3>1. task[p].pc \in Loading => last' # None /\ (task[p].session = open' <=> p \in Live')
      BY <1>1, <1>7, <2>1 DEF Live
    <3>2. TaskFits(p) /\ task'[p] = task[p]
      BY <1>2, <1>4
    <3>3. QED
      BY <1>2, <3>1, <3>2, TaskFitsOn
  <2>2. QED
    BY <1>10, <2>1
<1>12. ASSUME NEW p \in Live'  PROVE task'[p].reply.total <= Cardinality(Written(s))
  <2>1. CASE p = o
    BY <1>3, <1>4, <1>9, <2>1
  <2>2. CASE p # o
    <3>1. p \in Opens /\ task[p].session = s /\ task[p].pc \in Loading
      BY <1>1, <1>12, <2>2 DEF Live
    <3>2. task'[p] = task[p]
      BY <1>4, <2>2, <3>1
    <3>3. QED
      BY <1>2, <3>1, <3>2 DEF TaskFits
  <2>3. QED
    BY <2>1, <2>2
<1>13. OpenFits'
  <2>1. Written(open)' = Written(s)
    BY <1>1, <1>8
  <2>2. last' # None /\ open' \in Sessions /\ seq' <= Len(said'[open'])
    BY <1>1, <1>7, <1>8, <1>9
  <2>3. QED
    BY <1>12, <2>1, <2>2 DEF OpenFits
<1>14. BlocksFit'
  BY <1>5 DEF BlocksFit
<1>15. QED
  BY <1>6, <1>11, <1>13, <1>14 DEF ViewInv

\* A frame is drawn if it is of the open session and new, and is what the wire
\* loses in any case.
LEMMA FrameDoes ==
    ASSUME HubInv, ViewInv, TakesFrame
    PROVE  LET f == wire[1]
               new == f.session = open /\ f.n > seq
           IN  /\ UNCHANGED <<hub, task, last, rivals, open, warned>>
               /\ wire \in Seq(Frames) /\ wire # <<>> /\ wire' = Tail(wire)
               /\ blocks' \in Seq(Blocks)
               /\ new => /\ last # None /\ open \in Sessions
                         /\ f.n \in 1 .. Len(said[open]) /\ seq' = f.n
                         /\ overtaken' = overtaken \cup
                                (IF task[last].pc \in Loading THEN {f.n} ELSE {})
                         /\ \/ /\ said[open][f.n] = "turn_complete" /\ blocks' = blocks
                            \/ blocks' = Append(blocks, Block(open, f.n))
               /\ ~new => UNCHANGED <<seq, blocks, overtaken>>
<1> DEFINE f == wire[1]
<1>1. /\ wire # <<>> /\ wire' = Tail(wire)
      /\ UNCHANGED <<hub, task, last, rivals, open, warned>>
  BY DEF TakesFrame
<1>2. wire \in Seq(Frames) /\ blocks \in Seq(Blocks)
  BY DEF HubInv, HubTypes, ViewInv, ViewTypes
<1>3. Head(wire) = f /\ f \in Frames /\ 1 \in DOMAIN wire
  BY <1>1, <1>2
<1>4. CASE f.session = open /\ f.n > seq
  <2>1. /\ seq' = f.n
        /\ blocks' = IF said[open][f.n] = "turn_complete" THEN blocks
                     ELSE Append(blocks, Block(open, f.n))
        /\ overtaken' = overtaken \cup (IF task[last].pc \in Loading THEN {f.n} ELSE {})
    BY <1>3, <1>4 DEF TakesFrame, IsNew
  <2>2. open \in Sessions /\ f.n \in Nat
    BY <1>3, <1>4, ClientAssumption DEF Frames
  <2>3. last # None
    <3>1. None \notin Sessions
      BY ClientAssumption
    <3>2. QED
      BY <2>2, <3>1 DEF ViewInv, OpenFits
  <2>4. f.n \in 1 .. Len(said[open])
    BY <1>3, <1>4 DEF HubInv, WireAscends
  <2>5. Block(open, f.n) \in Blocks
    BY <2>2 DEF Block, Blocks
  <2>6. blocks' \in Seq(Blocks)
    BY <1>2, <2>1, <2>5
  <2>7. QED
    BY <1>1, <1>2, <1>4, <2>1, <2>2, <2>3, <2>4, <2>6
<1>5. CASE ~(f.session = open /\ f.n > seq)
  <2>1. UNCHANGED <<seq, blocks, overtaken>>
    BY <1>3, <1>5 DEF TakesFrame, IsNew
  <2>2. QED
    BY <1>1, <1>2, <1>5, <2>1
<1>6. QED
  BY <1>4, <1>5

LEMMA FrameKeepsView ==
    ASSUME HubInv, HubInv', Grows, ViewInv, TakesFrame
    PROVE  ViewInv'
<1> DEFINE f == wire[1]
           new == f.session = open /\ f.n > seq
<1>1. /\ UNCHANGED <<hub, task, last, rivals, open, warned>>
      /\ blocks' \in Seq(Blocks)
      /\ new => /\ last # None /\ open \in Sessions
                /\ f.n \in 1 .. Len(said[open]) /\ seq' = f.n
                /\ \/ blocks' = blocks
                   \/ blocks' = Append(blocks, Block(open, f.n))
      /\ ~new => UNCHANGED <<seq, blocks>>
  BY FrameDoes
<1> HIDE DEF new, f
<1>2. ViewTypes /\ OpenFits /\ BlocksFit /\ blocks \in Seq(Blocks) /\ seq \in Nat
  BY DEF ViewInv, ViewTypes
<1>3. seq' \in Nat /\ (seq' <= seq \/ seq' <= Len(said[open]))
  <2>1. CASE new
    <3>1. said[open] \in Seq(Kinds)
      BY <1>1, <2>1 DEF HubInv, HubTypes
    <3>2. QED
      BY <1>1, <2>1, <3>1
  <2>2. CASE ~new
    BY <1>1, <1>2, <2>2
  <2>3. QED
    BY <2>1, <2>2
<1>4. ViewTypes'
  BY <1>1, <1>2, <1>3 DEF ViewTypes
<1>5. \A o \in Opens : TaskFits(o)'
  <2>1. ASSUME NEW o \in Opens  PROVE TaskFits(o)'
    <3>1. TaskFits(o) /\ task'[o] = task[o]
      BY <1>1 DEF ViewInv
    <3>2. task[o].pc \in Loading => last' # None /\ (task[o].session = open' <=> o \in Live')
      BY <1>1, <3>1 DEF TaskFits, Live
    <3>3. QED
      BY <1>2, <3>1, <3>2, TaskFitsOn
  <2>2. QED
    BY <2>1
<1>6. OpenFits'
  <2>1. last # None => \A o \in Live : task'[o].reply.total <= Cardinality(Written(open))
    BY <1>1, <1>2 DEF OpenFits
  <2>2. last # None => seq' <= seq \/ seq' <= Len(said[open])
    BY <1>3
  <2>3. QED
    BY <1>1, <1>2, <1>4, <2>1, <2>2, OpenFitsOn
<1>7. BlocksFit'
  <2>1. ASSUME NEW b \in ToSet(blocks')
        PROVE  b \in ToSet(blocks) \/ b.n = 0
                \/ (last # None /\ b.session = open /\ b.n \in 1 .. Len(said[open]))
    <3>1. CASE blocks' = blocks
      BY <2>1, <3>1
    <3>2. CASE new /\ blocks' = Append(blocks, Block(open, f.n))
      <4> DEFINE block == Block(open, f.n)
      <4>1. block.session = open /\ block.n = f.n
        BY DEF Block
      <4>2. block \in Blocks
        BY <1>1, <3>2 DEF Block, Blocks
      <4> HIDE DEF block
      <4>3. blocks' = Append(blocks, block)
        BY <3>2 DEF block
      <4>4. ToSet(blocks') = ToSet(blocks) \cup {block}
        <5>1. /\ Len(blocks') = Len(blocks) + 1 /\ Len(blocks) \in Nat
              /\ DOMAIN blocks = 1 .. Len(blocks) /\ DOMAIN blocks' = 1 .. Len(blocks) + 1
              /\ \A i \in 1 .. Len(blocks) : blocks'[i] = blocks[i]
              /\ blocks'[Len(blocks) + 1] = block
          BY <1>2, <4>2, <4>3
        <5>2. QED
          BY <5>1 DEF ToSet
      <4>5. QED
        BY <1>1, <2>1, <3>2, <4>1, <4>4
    <3>3. QED
      BY <1>1, <3>1, <3>2
  <2>2. UNCHANGED <<open, last>>
    BY <1>1
  <2>3. QED
    BY <1>2, <2>1, <2>2, BlocksFitOn, Zenon
<1>8. QED
  BY <1>4, <1>5, <1>6, <1>7 DEF ViewInv

\* When the connection drops, notes are all that is drawn.
LEMMA DropDoes ==
    ASSUME ViewInv, ConnectionDrops
    PROVE  /\ UNCHANGED <<hub, last, rivals, open, seq, warned, overtaken>>
           /\ watched' = {} /\ wire' = <<>>
           /\ \A o \in Opens : task'[o] = IF task[o].pc \in Loading THEN NoTask ELSE task[o]
           /\ task' \in [Opens -> Tasks]
           /\ blocks' \in Seq(Blocks) /\ Len(blocks) <= Len(blocks')
           /\ \A i \in 1 .. Len(blocks) : blocks'[i] = blocks[i]
           /\ \A i \in 1 .. Len(blocks') : i > Len(blocks) => blocks'[i].n = 0
<1> DEFINE attaching == {o \in Opens : task[o].pc \in {"calling", "counted", "replied"}}
<1>1. /\ UNCHANGED <<hub, last, rivals, open, seq, warned, overtaken>>
      /\ watched' = {} /\ wire' = <<>>
      /\ task' = [o \in Opens |-> IF task[o].pc \in Loading THEN NoTask ELSE task[o]]
  BY DEF ConnectionDrops, ghosts
<1>2. task' \in [Opens -> Tasks]
  BY <1>1, NoTaskFacts DEF ViewInv, ViewTypes
<1>3. PICK order \in SetToSeqs(attaching) :
            blocks' = blocks \o [i \in DOMAIN order |-> Note(task[order[i]].session)]
  BY DEF ConnectionDrops
<1>4. Cardinality(attaching) \in Nat
  <2>1. attaching \subseteq Opens /\ IsFiniteSet(Opens)
    BY ClientAssumption
  <2>2. QED
    BY <2>1, FS_Subset, FS_CardinalityType
<1>5. order \in [1 .. Cardinality(attaching) -> attaching]
  BY DEF SetToSeqs
<1> DEFINE N == Cardinality(attaching)
           notes == [i \in DOMAIN order |-> Note(task[order[i]].session)]
           L == Len(blocks)
<1>6. notes \in Seq(Blocks) /\ Len(notes) = N /\ \A i \in 1 .. N : notes[i].n = 0
  <2>1. \A o \in attaching : Note(task[o].session) \in Blocks /\ Note(task[o].session).n = 0
    <3>1. ASSUME NEW o \in attaching
          PROVE  Note(task[o].session) \in Blocks /\ Note(task[o].session).n = 0
      <4>1. task[o].session \in Sessions
        BY DEF ViewInv, TaskFits, Loading
      <4>2. QED
        BY <4>1 DEF Note, Block, Blocks
    <3>2. QED
      BY <3>1
  <2>2. DOMAIN order = 1 .. N
    BY <1>5
  <2>3. \A i \in 1 .. N : notes[i] \in Blocks /\ notes[i].n = 0
    BY <1>5, <2>1, <2>2
  <2>4. DOMAIN notes = 1 .. N /\ notes = [i \in 1 .. N |-> notes[i]]
    BY <2>2
  <2> HIDE DEF notes, N
  <2>5. notes \in [1 .. N -> Blocks]
    BY <2>3, <2>4
  <2>6. N \in Nat
    BY <1>4 DEF N
  <2>7. QED
    BY <2>3, <2>5, <2>6
<1>7. blocks \in Seq(Blocks)
  BY DEF ViewInv, ViewTypes
<1> HIDE DEF notes
<1>8. blocks' = blocks \o notes
  BY <1>3 DEF notes
<1>9. blocks' \in Seq(Blocks) /\ Joined(blocks', blocks, notes)
  BY <1>6, <1>7, <1>8, ConcatFacts, Zenon
<1> HIDE DEF attaching, N
<1>10. N \in Nat /\ L \in Nat
  BY <1>4, <1>7 DEF N
<1>11. /\ Len(blocks') = L + N
       /\ \A i \in 1 .. L + N : blocks'[i] = IF i <= L THEN blocks[i] ELSE notes[i - L]
  BY <1>6, <1>9 DEF Joined
<1> HIDE DEF L
<1>12. /\ \A i \in 1 .. L : i \in 1 .. L + N /\ i <= L
       /\ \A i \in 1 .. L + N : i > L => ~(i <= L) /\ i - L \in 1 .. N
  BY <1>10
<1>13. /\ \A i \in 1 .. L : blocks'[i] = blocks[i]
       /\ \A i \in 1 .. L + N : i > L => blocks'[i].n = 0
  BY <1>6, <1>11, <1>12
<1>14. L <= L + N
  BY <1>10
<1>15. QED
  BY <1>1, <1>2, <1>9, <1>11, <1>13, <1>14 DEF L

\* An open whose transcript was empty draws at once, any other with its last page.
Ends(o, history) ==
    /\ task[o].pc \in Pending /\ open = task[o].session
    /\ history \in Seq(Nat) /\ \A n \in ToSet(history) : n \in 1 .. Len(said[open])
    /\ Draws(o, HistoryFirst(o, history)) /\ Done(o)
    /\ warned' \in BOOLEAN
    /\ UNCHANGED <<hub, link, open, last, rivals>>

LEMMA EndsAtOnceIs ==
    ASSUME HubInv, ViewInv, NEW o \in Opens, EndsAtOnce(o)
    PROVE  /\ Ends(o, <<>>)
           /\ task[o].pc = "replied" /\ task[o].reply.total = 0
           /\ seq' = task[o].reply.seq /\ warned' = (warned \/ task[o].reply.truncated)
           /\ overtaken' = overtaken
<1>1. /\ task[o].pc = "replied" /\ open = task[o].session /\ task[o].reply.total = 0
      /\ Draws(o, HistoryFirst(o, <<>>)) /\ Done(o)
      /\ seq' = task[o].reply.seq
      /\ warned' = (warned \/ task[o].reply.truncated)
      /\ UNCHANGED <<hub, link, open, last, rivals, overtaken>>
  BY DEF EndsAtOnce, StillOpen, ghosts
<1>2. warned \in BOOLEAN /\ task[o].reply.truncated \in BOOLEAN
  BY TaskTypes DEF ViewInv, ViewTypes
<1>3. <<>> \in Seq(Nat) /\ ToSet(<<>>) = {}
  BY DEF ToSet
<1>4. QED
  BY <1>1, <1>2, <1>3 DEF Ends, Pending

LEMMA EndsWithPageIs ==
    ASSUME HubInv, ViewInv, NEW o \in Opens, EndsWithPage(o)
    PROVE  LET reply == task[o].reply
               page == task[o].page
           IN  /\ Ends(o, page)
               /\ task[o].pc = "page" /\ ~(task[o].offset + PageSize < reply.total)
               /\ seq' \in {seq} \cup ToSet(reply.replay)
               /\ \A n \in ToSet(reply.replay) : n <= seq'
               /\ seq <= seq'
               /\ warned' = warned
               /\ overtaken' = overtaken \cup Ahead(o)
<1> DEFINE reply == task[o].reply
           page == task[o].page
<1>1. /\ task[o].pc = "page" /\ open = task[o].session
      /\ ~(task[o].offset + PageSize < reply.total)
      /\ Draws(o, HistoryFirst(o, page)) /\ Done(o)
      /\ seq' = Max({seq} \cup ToSet(reply.replay))
      /\ overtaken' = overtaken \cup Ahead(o)
      /\ UNCHANGED <<hub, link, last, rivals, open, warned>>
  BY DEF EndsWithPage, StillOpen
<1>2. warned \in BOOLEAN /\ page \in Seq(Nat) /\ seq \in Nat /\ reply.seq \in Nat
  BY TaskTypes DEF ViewInv, ViewTypes
<1>3. task[o].pc \in Loading /\ task[o].pc \in Pending
  BY <1>1 DEF Loading, Pending
<1>4. ReplyFits(o) /\ \A i \in 1 .. Len(page) : page[i] \in 1 .. Len(said[open])
  BY <1>1, <1>3, HeldIsSaid
<1>5. \A n \in ToSet(page) : n \in 1 .. Len(said[open])
  BY <1>2, <1>4 DEF ToSet
<1>6. Bounded({seq} \cup ToSet(reply.replay))
  <2>1. \A n \in ToSet(reply.replay) : n \in 1 .. reply.seq
    BY <1>4 DEF ReplyFits
  <2> DEFINE numbers == {seq} \cup ToSet(reply.replay)
             b == seq + reply.seq
  <2>2. b \in Nat /\ \A n \in numbers : n \in Nat /\ n <= b
    <3> HIDE DEF reply
    <3>1. QED
      BY <1>2, <2>1
  <2> HIDE DEF b, numbers
  <2>3. Bounded(numbers)
    BY <2>2 DEF Bounded
  <2>4. QED
    BY <2>3 DEF numbers
<1>7. /\ seq' \in {seq} \cup ToSet(reply.replay)
      /\ \A n \in {seq} \cup ToSet(reply.replay) : n <= seq'
  BY <1>1, <1>6, MaxIsThere
<1>8. Ends(o, page)
  BY <1>1, <1>2, <1>3, <1>5 DEF Ends
<1>9. QED
  BY <1>1, <1>7, <1>8

LEMMA EndingKeepsView ==
    ASSUME HubInv, HubInv', Grows, ViewInv, NEW o \in Opens, NEW history, Ends(o, history),
           seq' \in {seq, task[o].reply.seq} \cup ToSet(task[o].reply.replay)
    PROVE  ViewInv'
<1>1. /\ task[o].pc \in Pending /\ open = task[o].session
      /\ history \in Seq(Nat) /\ \A n \in ToSet(history) : n \in 1 .. Len(said[open])
      /\ Draws(o, HistoryFirst(o, history)) /\ Done(o)
      /\ warned' \in BOOLEAN
      /\ UNCHANGED <<hub, open, last, rivals>>
  BY DEF Ends
<1>2. QED
  BY <1>1, EndKeepsView

LEMMA DropKeepsView ==
    ASSUME HubInv, HubInv', Grows, ViewInv, ConnectionDrops
    PROVE  ViewInv'
<1>1. /\ UNCHANGED <<hub, last, rivals, open, seq, warned>>
      /\ \A o \in Opens : task'[o] = IF task[o].pc \in Loading THEN NoTask ELSE task[o]
      /\ task' \in [Opens -> Tasks]
      /\ blocks' \in Seq(Blocks) /\ Len(blocks) <= Len(blocks')
      /\ \A i \in 1 .. Len(blocks) : blocks'[i] = blocks[i]
      /\ \A i \in 1 .. Len(blocks') : i > Len(blocks) => blocks'[i].n = 0
  BY DropDoes
<1>2. ViewTypes /\ OpenFits /\ BlocksFit /\ blocks \in Seq(Blocks) /\ seq \in Nat
  BY DEF ViewInv, ViewTypes
<1>3. ViewTypes'
  BY <1>1, <1>2 DEF ViewTypes
<1>4. NoTask.pc = "idle" /\ NoTask.reply.total = 0
  BY NoTaskFacts, NoReplyFacts
<1>5. \A o \in Opens : TaskFits(o)'
  BY <1>1, <1>4 DEF TaskFits, Loading
<1>6. OpenFits'
  <2>1. ASSUME last # None, NEW o \in Live
        PROVE  task'[o].reply.total <= Cardinality(Written(open))
    <3>1. o \in Opens /\ open \in Sessions
      BY <1>2, <2>1 DEF Live, ViewTypes, OpenFits
    <3>2. Cardinality(Written(open)) \in Nat
      BY <3>1, TranscriptFacts
    <3>3. QED
      BY <1>1, <1>2, <1>4, <2>1, <3>1, <3>2 DEF OpenFits
  <2>2. last # None => seq' <= seq \/ seq' <= Len(said[open])
    BY <1>1, <1>2
  <2>3. QED
    BY <1>1, <1>2, <1>3, <2>1, <2>2, OpenFitsOn
<1>7. BlocksFit'
  <2>1. ASSUME NEW b \in ToSet(blocks')
        PROVE  b \in ToSet(blocks) \/ b.n = 0
    <3>1. PICK i \in 1 .. Len(blocks') : blocks'[i] = b
      BY <1>1, <2>1 DEF ToSet
    <3>2. Len(blocks) \in Nat /\ Len(blocks') \in Nat /\ DOMAIN blocks = 1 .. Len(blocks)
      BY <1>1, <1>2
    <3>3. CASE i > Len(blocks)
      BY <1>1, <3>1, <3>3
    <3>4. CASE i \in 1 .. Len(blocks)
      BY <1>1, <3>1, <3>2, <3>4 DEF ToSet
    <3>5. QED
      BY <3>2, <3>3, <3>4
  <2>2. UNCHANGED <<open, last>>
    BY <1>1
  <2>3. \A b \in ToSet(blocks') : b \in ToSet(blocks) \/ b.n = 0
                \/ (last # None /\ b.session = open /\ b.n \in 1 .. Len(said[open]))
    BY <2>1
  <2>4. QED
    BY <1>2, <2>2, <2>3, BlocksFitOn, Zenon
<1>8. QED
  BY <1>3, <1>5, <1>6, <1>7 DEF ViewInv

-----------------------------------------------------------------------------
(* Every step *)

Safe == HubInv /\ ViewInv

\* What Next does, by what it does to the hub and to the view.
Idles == UNCHANGED <<hub, wire, task, view, ghosts>> /\ watched' \subseteq watched

Opened == UNCHANGED <<hub, watched, wire>> /\ \E o \in Opens, s \in Sessions : Opening(o, s)

Moves(o) ==
    \/ CountsHistory(o) \/ Attaches(o) \/ AttachFails(o) \/ Leaves(o) \/ Begins(o) \/ ReadsPage(o)
    \/ Continues(o) \/ EndsAtOnce(o) \/ EndsWithPage(o)

LEMMA NextDoes ==
    ASSUME Safe, [Next]_vars
    PROVE  \/ Idles
           \/ \E s \in Sessions : Hub(s)
           \/ Opened
           \/ \E o \in Opens : Moves(o)
           \/ TakesFrame
           \/ ConnectionDrops
<1>1. CASE UNCHANGED vars
  BY <1>1 DEF vars, Idles, link, view, ghosts
<1>2. ASSUME NEW s \in Sessions, Detaches(s)  PROVE Idles
  BY <1>2 DEF Detaches, Idles
<1>3. ASSUME NEW o \in Opens, NEW s \in Sessions, OpenSession(o, s)  PROVE Opened
  BY <1>3 DEF OpenSession, Opening, Opened
<1>4. ASSUME NEW o \in Opens, Open(o)  PROVE Moves(o)
  BY <1>4, OpenMoves DEF Moves
<1>5. CASE Reconnects
  BY <1>5 DEF Reconnects, Idles
<1>6. CASE BootFails
  BY <1>6 DEF BootFails, Idles
<1>7. CASE Boots
  <2>1. CASE open = None
    BY <1>7, <2>1 DEF Boots, Idles
  <2>2. CASE open # None
    <3>1. open \in Sessions
      BY <2>2 DEF Safe, ViewInv, ViewTypes
    <3>2. PICK o \in Opens : Opening(o, open)
      BY <1>7, <2>2 DEF Boots
    <3>3. QED
      BY <3>1, <3>2 DEF Opening, Opened
  <2>3. QED
    BY <2>1, <2>2
<1>8. QED
  BY <1>1, <1>2, <1>3, <1>4, <1>5, <1>6, <1>7 DEF Next

LEMMA MovesKeep ==
    ASSUME Safe, NEW o \in Opens, Moves(o)
    PROVE  Safe' /\ Grows /\ UNCHANGED <<hub, wire>>
<1>1. UNCHANGED <<hub, wire>> /\ watched' \subseteq Talking
  <2>1. watched \subseteq Talking
    BY DEF Safe, HubInv, HubTypes
  <2>2. CASE Attaches(o)
    BY <2>1, <2>2 DEF Attaches
  <2>3. CASE ~Attaches(o)
    BY <2>1, <2>3 DEF Moves, CountsHistory, AttachFails, Leaves, Begins, ReadsPage, Continues, EndsAtOnce,
                EndsWithPage, link
  <2>4. QED
    BY <2>2, <2>3
<1>2. HubInv' /\ Grows
  BY <1>1, LinkKeeps DEF Safe
<1>3. HubInv /\ ViewInv
  BY DEF Safe
<1>4. CASE Attaches(o) \/ CountsHistory(o)
  BY <1>1, <1>2, <1>3, <1>4, AttachKeepsView, CountKeepsView DEF Safe
<1>5. CASE AttachFails(o)
  BY <1>1, <1>2, <1>3, <1>5, FailKeepsView DEF Safe
<1>6. CASE Leaves(o)
  BY <1>1, <1>2, <1>3, <1>6, LeavingKeepsView DEF Safe
<1>7. CASE Begins(o)
  BY <1>1, <1>2, <1>3, <1>7, BeginKeepsView DEF Safe
<1>8. CASE ReadsPage(o)
  BY <1>1, <1>2, <1>3, <1>8, ReadKeepsView DEF Safe
<1>9. CASE Continues(o)
  BY <1>1, <1>2, <1>3, <1>9, ContinueKeepsView DEF Safe
<1>10. CASE EndsAtOnce(o)
  <2>1. Ends(o, <<>>) /\ seq' = task[o].reply.seq
    BY <1>3, <1>10, EndsAtOnceIs
  <2>2. QED
    BY <1>1, <1>2, <1>3, <2>1, EndingKeepsView DEF Safe
<1>11. CASE EndsWithPage(o)
  <2>1. Ends(o, task[o].page) /\ seq' \in {seq} \cup ToSet(task[o].reply.replay)
    BY <1>3, <1>11, EndsWithPageIs
  <2>2. QED
    BY <1>1, <1>2, <1>3, <2>1, EndingKeepsView DEF Safe
<1>12. QED
  BY <1>4, <1>5, <1>6, <1>7, <1>8, <1>9, <1>10, <1>11 DEF Moves

LEMMA NextKeeps ==
    ASSUME Safe, [Next]_vars
    PROVE  Safe' /\ Grows
<1>1. HubInv /\ ViewInv /\ watched \subseteq Talking
  BY DEF Safe, HubInv, HubTypes
<1>2. CASE Idles
  <2>1. UNCHANGED hub /\ wire' = wire /\ watched' \subseteq Talking
        /\ UNCHANGED <<task, view, ghosts>>
    BY <1>1, <1>2 DEF Idles
  <2>2. HubInv' /\ Grows
    BY <1>1, <2>1, LinkKeeps
  <2>3. QED
    BY <1>1, <2>1, <2>2, ViewKept DEF Safe
<1>3. ASSUME NEW s \in Sessions, Hub(s)  PROVE Safe' /\ Grows
  <2>1. HubInv' /\ Grows /\ UNCHANGED <<task, view, ghosts>>
    BY <1>1, <1>3, HubKeeps
  <2>2. QED
    BY <1>1, <2>1, ViewKept DEF Safe
<1>4. CASE Opened
  <2>1. UNCHANGED hub /\ wire' = wire /\ watched' \subseteq Talking
    BY <1>1, <1>4 DEF Opened
  <2>2. HubInv' /\ Grows
    BY <1>1, <2>1, LinkKeeps
  <2>3. PICK o \in Opens, s \in Sessions : Opening(o, s)
    BY <1>4 DEF Opened
  <2>4. ViewInv'
    BY <1>1, <2>1, <2>2, <2>3, OpeningKeepsView
  <2>5. QED
    BY <2>2, <2>4 DEF Safe
<1>5. ASSUME NEW o \in Opens, Moves(o)  PROVE Safe' /\ Grows
  BY <1>5, MovesKeep
<1>6. CASE TakesFrame
  <2>1. UNCHANGED hub /\ wire # <<>> /\ wire' = Tail(wire) /\ watched' \subseteq Talking
    BY <1>1, <1>6 DEF TakesFrame
  <2>2. HubInv' /\ Grows
    BY <1>1, <2>1, LinkKeeps
  <2>3. QED
    BY <1>1, <1>6, <2>2, FrameKeepsView DEF Safe
<1>7. CASE ConnectionDrops
  <2>1. UNCHANGED hub /\ wire' = <<>> /\ watched' \subseteq Talking
    BY <1>7 DEF ConnectionDrops
  <2>2. HubInv' /\ Grows
    BY <1>1, <2>1, LinkKeeps
  <2>3. QED
    BY <1>1, <1>7, <2>2, DropKeepsView DEF Safe
<1>8. QED
  BY <1>2, <1>3, <1>4, <1>5, <1>6, <1>7, NextDoes

LEMMA InitIsSafe == Init => Safe
<1> SUFFICES ASSUME Init  PROVE Safe
  OBVIOUS
<1> DEFINE begun == <<"user_message", "turn_complete">>
<1>1. begun \in Seq(Kinds)
  BY DEF Kinds, InMessage
<1>2. said = [s \in Sessions |-> IF s \in Begun THEN begun ELSE <<>>]
  BY DEF Init
<1> HIDE DEF begun
<1>3. /\ said \in [Sessions -> Seq(Kinds)]
      /\ \A s \in Sessions : Len(said[s]) \in Nat
  BY <1>1, <1>2
<1>4. /\ logged = [s \in Sessions |-> Len(said[s])]
      /\ phase = [s \in Sessions |-> "idle"]
      /\ start = [s \in Sessions |-> Len(said[s])] /\ cut = [s \in Sessions |-> 0]
      /\ pending = [s \in Sessions |-> {}] /\ waiting = [s \in Sessions |-> {}]
      /\ wire = <<>> /\ watched = {}
  BY DEF Init
<1>5. HubInv
  <2>1. HubTypes
    BY <1>3, <1>4 DEF HubTypes, Phases
  <2>2. Counted
    BY <1>3, <1>4 DEF Counted
  <2>3. WireAscends
    BY <1>4 DEF WireAscends
  <2>4. QED
    BY <2>1, <2>2, <2>3 DEF HubInv
<1>6. /\ task = [o \in Opens |-> NoTask] /\ last = None /\ rivals = {}
      /\ open = None /\ seq = 0 /\ blocks = <<>> /\ warned = FALSE
  BY DEF Init
<1>7. NoTask \in Tasks /\ NoTask.pc = "idle"
  BY NoTaskFacts
<1>8. ViewTypes
  <2>1. task \in [Opens -> Tasks]
    BY <1>6, <1>7
  <2>2. blocks \in Seq(Blocks) /\ seq \in Nat
    BY <1>6
  <2>3. warned \in BOOLEAN /\ last \in Opens \cup {None} /\ open \in Sessions \cup {None}
    BY <1>6
  <2>4. QED
    BY <1>6, <2>1, <2>2, <2>3 DEF ViewTypes
<1>9. \A o \in Opens : TaskFits(o)
  BY <1>6, <1>7 DEF TaskFits, Loading
<1>10. OpenFits /\ BlocksFit
  BY <1>6 DEF OpenFits, BlocksFit, ToSet
<1>11. QED
  BY <1>5, <1>8, <1>9, <1>10 DEF Safe, ViewInv

\* The browser draws of a conversation nothing but what belongs to the open session,
\* however many opens overlap and whatever arrives late (openSession's checks after
\* each await, handleNotification's session test).
THEOREM OnlyTheOpenSessionIsDrawn == Spec => []OnlyTheOpenSession
<1>1. Init => Safe
  BY InitIsSafe
<1>2. Safe /\ [Next]_vars => Safe'
  BY NextKeeps
<1>3. Safe => OnlyTheOpenSession
  BY DEF Safe, ViewInv, BlocksFit, OnlyTheOpenSession
<1>4. QED
  BY <1>1, <1>2, <1>3, PTL DEF Spec

-----------------------------------------------------------------------------
(* Nothing is missed *)

\* What the user is to see: the messages, and the asks that wait for an answer.
Wanted(n) ==
    /\ n \in 1 .. Len(said[open])
    /\ said[open][n] \in InMessage \/ n \in waiting[open]

\* At a place of the transcript before the pages an open loads.
Skipped(o, n) ==
    /\ task[o].pc \in Pending \cup {"drawn"}
    /\ \E i \in 1 .. Start(task[o].reply.total) : Transcript(open)[i] = n

Old(n) == \E o \in Live : Skipped(o, n)

\* What the hub told it neither by the depth of the transcript nor by the buffer.
Unheard(o, n) == task[o].pc \in Pending \cup {"drawn"} /\ n \in task[o].reply.untold

Untold(n) == \E o \in Live : Unheard(o, n)

\* Drawn, or a message that is announced as cut, too old, or nothing the hub told.
Settled(n) ==
    \/ n \in Drawn
    \/ said[open][n] \in InMessage /\ (warned \/ Old(n) \/ Untold(n))

\* The first place of the transcript an open has not drawn follows this one.
From(o) == IF task[o].pc = "replied" THEN Start(task[o].reply.total) ELSE task[o].offset

\* An open is going to draw it, or to announce that it is cut.
Owes(o, n) ==
    /\ task[o].pc \in Pending
    /\ \/ n \in task[o].reply.asks
       \/ /\ said[open][n] \in InMessage
          /\ \/ n \in ToSet(task[o].reply.replay)
             \/ task[o].pc = "replied" /\ task[o].reply.truncated
             \/ \E i \in 1 .. task[o].reply.total : i > From(o) /\ Transcript(open)[i] = n

\* The view is as an open that did not fail makes it.
Going ==
    /\ last # None /\ task[last].pc \in Pending \cup {"drawn"}
    /\ \A o \in rivals : task[o].pc # "idle"

\* seq is set to what an open was told: up to there no frame is needed any more.
Told ==
    Going => \A o \in Live : task[o].pc \in Pending =>
        \A n \in 1 .. task[o].reply.seq :
            Wanted(n) => Settled(n) \/ Owes(o, n) \/ Owes(last, n)

Covered ==
    Going /\ open \in watched =>
        \A n : Wanted(n) => Settled(n) \/ n \in OnItsWay \/ \E o \in Live : Owes(o, n)

LEMMA SettledStays ==
    ASSUME Safe, HubInv', Grows, last # None, UNCHANGED <<open, last, rivals>>,
           NEW n \in 1 .. Len(said[open]), Settled(n),
           Drawn \subseteq Drawn', warned => warned',
           \A o \in Live : task[o].pc \in Pending \cup {"drawn"} =>
                /\ task'[o].pc \in Pending \cup {"drawn"}
                /\ task'[o].reply.total = task[o].reply.total
                /\ task'[o].reply.untold = task[o].reply.untold
    PROVE  Settled(n)'
<1>1. PICK s \in Sessions : s = open /\ s = open'
  BY DEF Safe, ViewInv, OpenFits
<1>2. said[s]'[n] = said[s][n]
  BY <1>1 DEF Grows
<1>3. HubInv /\ ViewInv
  BY DEF Safe
<1>4. /\ Cardinality(Written(s)) \in Nat
      /\ \A i \in 1 .. Cardinality(Written(s)) : Transcript(s)'[i] = Transcript(s)[i]
  BY <1>3, TranscriptGrows
<1>5. ASSUME NEW o \in Live, Skipped(o, n)  PROVE Skipped(o, n)'
  <2> DEFINE total == task[o].reply.total
  <2>1. PICK i \in 1 .. Start(total) : Transcript(s)[i] = n
    BY <1>1, <1>5 DEF Skipped
  <2>2. o \in Opens
    BY DEF Safe, ViewInv, ViewTypes, Live
  <2>3. total \in Nat /\ total <= Cardinality(Written(s))
    BY <1>1, <1>3, <2>2, TaskTypes DEF ViewInv, OpenFits
  <2>4. Start(total) \in Nat /\ Start(total) <= total
    BY <2>3, StartFacts
  <2>5. i \in 1 .. Cardinality(Written(s))
    <3> HIDE DEF total
    <3>1. QED
      BY <1>4, <2>3, <2>4
  <2>6. Transcript(s)'[i] = n
    BY <1>4, <2>1, <2>5
  <2>7. task'[o].pc \in Pending \cup {"drawn"} /\ task'[o].reply.total = total
    BY <1>5 DEF Skipped
  <2>8. \E j \in 1 .. Start(task'[o].reply.total) : Transcript(s)'[j] = n
    BY <2>6, <2>7
  <2>9. QED
    BY <1>1, <2>7, <2>8 DEF Skipped
<1>6. Old(n) => Old(n)'
  BY <1>5 DEF Old, Live
<1>7. Untold(n) => Untold(n)'
  <2>1. ASSUME NEW o \in Live, Unheard(o, n)  PROVE Unheard(o, n)'
    BY <2>1 DEF Unheard
  <2>2. QED
    BY <2>1 DEF Untold, Live
<1>8. QED
  BY <1>1, <1>2, <1>6, <1>7 DEF Settled

LEMMA OwesStays ==
    ASSUME Safe, HubInv', Grows, last # None, UNCHANGED open,
           NEW n \in 1 .. Len(said[open]), NEW o \in Live, Owes(o, n), task'[o] = task[o]
    PROVE  Owes(o, n)'
<1>1. PICK s \in Sessions : s = open /\ s = open'
  BY DEF Safe, ViewInv, OpenFits
<1>2. said[s]'[n] = said[s][n]
  BY <1>1 DEF Grows
<1>3. HubInv /\ ViewInv
  BY DEF Safe
<1>4. /\ Cardinality(Written(s)) \in Nat
      /\ \A i \in 1 .. Cardinality(Written(s)) : Transcript(s)'[i] = Transcript(s)[i]
  BY <1>3, TranscriptGrows
<1> DEFINE total == task[o].reply.total
<1>5. o \in Opens
  BY DEF Safe, ViewInv, ViewTypes, Live
<1>6. total \in Nat /\ total <= Cardinality(Written(s))
  BY <1>1, <1>3, <1>5, TaskTypes DEF ViewInv, OpenFits
<1>7. \A i \in 1 .. total : Transcript(s)'[i] = Transcript(s)[i]
  <2> HIDE DEF total
  <2>1. QED
    BY <1>4, <1>6
<1>8. From(o)' = From(o)
  BY DEF From
<1>9. QED
  BY <1>1, <1>2, <1>7, <1>8 DEF Owes

\* A step no open of the session draws anything at.
LEMMA CoverKept ==
    ASSUME Safe, Safe', Grows, Told, Covered, UNCHANGED <<open, last, rivals>>,
           Drawn \subseteq Drawn', warned => warned',
           open \in watched' => open \in watched,
           \A n : Wanted(n)' => \/ Wanted(n)
                                \/ /\ n \notin 1 .. Len(said[open])
                                   /\ open \in watched => n \in OnItsWay',
           \A n \in OnItsWay : Wanted(n) => n \in OnItsWay' \/ n \in Drawn',
           Going' => Going,
           last # None => \A o \in Live :
                /\ task[o].pc \in Pending \cup {"drawn"} => task'[o] = task[o]
                /\ task'[o].pc \in Pending => task[o].pc \in Pending
    PROVE  Told' /\ Covered'
<1> SUFFICES ASSUME Going'  PROVE Told' /\ Covered'
  BY DEF Told, Covered
<1>1. Going /\ last # None
  BY DEF Going
<1>2. HubInv'
  BY DEF Safe
<1>3. ASSUME NEW n, Wanted(n), Settled(n)  PROVE Settled(n)'
  <2>1. n \in 1 .. Len(said[open])
    BY <1>3 DEF Wanted
  <2>2. QED
    BY <1>1, <1>2, <1>3, <2>1, SettledStays
<1>4. ASSUME NEW n, Wanted(n), NEW o \in Live, Owes(o, n)  PROVE Owes(o, n)'
  <2>1. n \in 1 .. Len(said[open])
    BY <1>4 DEF Wanted
  <2>2. task'[o] = task[o]
    BY <1>1, <1>4 DEF Owes
  <2>3. QED
    BY <1>1, <1>2, <1>4, <2>1, <2>2, OwesStays
<1>5. last \in Live /\ Live' = Live
  BY DEF Live
<1>6. Told'
  <2> SUFFICES ASSUME NEW o \in Live, task'[o].pc \in Pending,
                      NEW n \in 1 .. task'[o].reply.seq, Wanted(n)'
               PROVE  Settled(n)' \/ Owes(o, n)' \/ Owes(last, n)'
    BY <1>5 DEF Told
  <2>1. task[o].pc \in Pending /\ task'[o] = task[o]
    BY <1>1
  <2>2. Wanted(n)
    <3>1. o \in Opens /\ task[o].pc \in Loading
      BY <1>1, <2>1 DEF Live, Safe, ViewInv, ViewTypes, Pending, Loading
    <3>2. /\ task[o].session = open /\ ReplyFits(o) /\ Len(said[open]) \in Nat
      BY <2>1, <3>1, HeldIsSaid DEF Safe
    <3>3. task[o].reply.seq <= Len(said[open]) /\ task[o].reply.seq \in Nat
      BY <3>1, <3>2, TaskTypes DEF ReplyFits, Safe, ViewInv
    <3>4. n \in 1 .. Len(said[open])
      BY <2>1, <3>2, <3>3
    <3>5. QED
      BY <3>4
  <2>3. Settled(n) \/ Owes(o, n) \/ Owes(last, n)
    BY <1>1, <2>1, <2>2 DEF Told
  <2>4. QED
    BY <1>3, <1>4, <1>5, <2>2, <2>3
<1>7. Covered'
  <2> SUFFICES ASSUME open \in watched', NEW n, Wanted(n)'
               PROVE  Settled(n)' \/ n \in OnItsWay' \/ \E o \in Live : Owes(o, n)'
    BY <1>5 DEF Covered
  <2>1. CASE ~Wanted(n)
    BY <2>1
  <2>2. CASE Wanted(n)
    <3>1. Settled(n) \/ n \in OnItsWay \/ \E o \in Live : Owes(o, n)
      BY <1>1, <2>2 DEF Covered
    <3>2. n \in Drawn' => Settled(n)'
      BY DEF Settled
    <3>3. QED
      BY <1>3, <1>4, <2>2, <3>1, <3>2
  <2>3. QED
    BY <2>1, <2>2
<1>8. QED
  BY <1>6, <1>7

\* A step at which an open of the session does what it owes, or some of it.
LEMMA CoverMoved ==
    ASSUME Safe, Safe', Grows, Told, Covered, UNCHANGED <<hub, wire, watched, open, last, rivals>>,
           NEW o \in Live, last # None,
           \A p \in Opens \ {o} : task'[p] = task[p],
           task[o].pc \in Pending, task'[o].pc \in Pending \cup {"drawn"},
           task'[o].reply.total = task[o].reply.total,
           task'[o].reply.untold = task[o].reply.untold,
           task'[o].pc \in Pending => task'[o].reply.seq = task[o].reply.seq,
           Drawn \subseteq Drawn', warned => warned',
           \A n : Wanted(n) /\ Owes(o, n) => Owes(o, n)' \/ Settled(n)',
           \A n \in Nat : seq < n => seq' < n \/ n <= task[o].reply.seq
    PROVE  Told' /\ Covered'
<1> SUFFICES ASSUME Going'  PROVE Told' /\ Covered'
  BY DEF Told, Covered
<1>1. Live \subseteq Opens /\ last \in Live /\ Live' = Live
  BY DEF Live, Safe, ViewInv, ViewTypes
<1>2. Going
  BY <1>1 DEF Going, Pending, Live
<1>3. HubInv' /\ \A n : Wanted(n)' <=> Wanted(n)
  BY DEF Safe, Wanted, hub
<1>4. ASSUME NEW n, Wanted(n), Settled(n)  PROVE Settled(n)'
  <2>1. n \in 1 .. Len(said[open])
    BY <1>4 DEF Wanted
  <2>2. \A p \in Live : task[p].pc \in Pending \cup {"drawn"} =>
                /\ task'[p].pc \in Pending \cup {"drawn"}
                /\ task'[p].reply.total = task[p].reply.total
                /\ task'[p].reply.untold = task[p].reply.untold
    BY <1>1
  <2>3. QED
    BY <1>3, <1>4, <2>1, <2>2, SettledStays
<1>5. ASSUME NEW n, Wanted(n), NEW p \in Live, Owes(p, n)  PROVE Owes(p, n)' \/ Settled(n)'
  <2>1. CASE p = o
    BY <1>5, <2>1
  <2>2. CASE p # o
    <3>1. n \in 1 .. Len(said[open]) /\ task'[p] = task[p]
      BY <1>1, <1>5, <2>2 DEF Wanted
    <3>2. QED
      BY <1>3, <1>5, <3>1, OwesStays
  <2>3. QED
    BY <2>1, <2>2
<1>6. Told'
  <2> SUFFICES ASSUME NEW p \in Live, task'[p].pc \in Pending,
                      NEW n \in 1 .. task'[p].reply.seq, Wanted(n)
               PROVE  Settled(n)' \/ Owes(p, n)' \/ Owes(last, n)'
    BY <1>1, <1>3 DEF Told
  <2>1. task[p].pc \in Pending /\ task[p].reply.seq = task'[p].reply.seq
    BY <1>1
  <2>2. Settled(n) \/ Owes(p, n) \/ Owes(last, n)
    BY <1>2, <2>1 DEF Told
  <2>3. QED
    BY <1>1, <1>4, <1>5, <2>2
<1>7. Covered'
  <2> SUFFICES ASSUME open \in watched, NEW n, Wanted(n)
               PROVE  Settled(n)' \/ n \in OnItsWay' \/ \E p \in Live : Owes(p, n)'
    BY <1>1, <1>3 DEF Covered
  <2>1. CASE Settled(n) \/ \E p \in Live : Owes(p, n)
    BY <1>4, <1>5, <2>1
  <2>2. CASE n \in OnItsWay /\ n \notin OnItsWay'
    <3>1. n \in Nat /\ seq < n /\ ~(seq' < n)
      <4>1. PICK f \in ToSet(wire) : f.session = open /\ f.n > seq /\ f.n = n
        BY <2>2 DEF OnItsWay
      <4>2. wire \in Seq(Frames)
        BY DEF Safe, HubInv, HubTypes
      <4>3. f \in Frames
        BY <4>1, <4>2 DEF ToSet
      <4>4. n \in Nat /\ seq \in Nat /\ seq' \in Nat
        BY <4>1, <4>3 DEF Frames, Safe, ViewInv, ViewTypes
      <4>5. n > seq' => n \in OnItsWay'
        BY <4>1 DEF OnItsWay
      <4>6. QED
        BY <2>2, <4>1, <4>4, <4>5
    <3>2. n <= task[o].reply.seq /\ n \in 1 .. task[o].reply.seq
      <4>1. task[o].reply.seq \in Nat /\ seq \in Nat
        BY <1>1, TaskTypes DEF Safe, ViewInv, ViewTypes
      <4>2. QED
        BY <3>1, <4>1
    <3>3. Settled(n) \/ Owes(o, n) \/ Owes(last, n)
      BY <1>2, <3>2 DEF Told
    <3>4. QED
      BY <1>1, <1>4, <1>5, <3>3
  <2>3. Settled(n) \/ n \in OnItsWay \/ \E p \in Live : Owes(p, n)
    BY <1>2 DEF Covered
  <2>4. QED
    BY <2>1, <2>2, <2>3
<1>8. QED
  BY <1>6, <1>7

Cover == Told /\ Covered

\* What changes neither the view nor the opens.
LEMMA IdlesCovered ==
    ASSUME Safe, Safe', Grows, Cover, Idles
    PROVE  Cover'
<1>1. /\ UNCHANGED <<said, waiting, wire, task, open, seq, blocks, warned, last, rivals>>
      /\ watched' \subseteq watched
  BY DEF Idles, hub, view, ghosts
<1>2. Drawn' = Drawn /\ OnItsWay' = OnItsWay
  BY <1>1 DEF Drawn, OnItsWay
<1>3. (\A n : Wanted(n)' <=> Wanted(n)) /\ (Going' <=> Going)
  BY <1>1 DEF Wanted, Going
<1>4. QED
  BY <1>1, <1>2, <1>3, CoverKept DEF Cover

\* The hub: what is said anew is on its way to a client that is watching.
LEMMA HubCovered ==
    ASSUME Safe, Safe', Grows, Cover, NEW s \in Sessions, Hub(s)
    PROVE  Cover'
<1>1. /\ UNCHANGED <<watched, task, open, seq, blocks, warned, last, rivals>>
      /\ SaysOne(s) \/ SaysNothing
  BY HubKeeps DEF Safe, view, ghosts
<1>2. Drawn' = Drawn /\ (Going' <=> Going)
  BY <1>1 DEF Drawn, Going
<1> SUFFICES ASSUME Going  PROVE Cover'
  BY <1>2 DEF Cover, Told, Covered
<1>3. PICK p \in Sessions : p = open /\ p = open'
  BY <1>1 DEF Going, Safe, ViewInv, OpenFits
<1>4. /\ said[p] \in Seq(Kinds) /\ Len(said[p]) \in Nat
      /\ said[p]' \in Seq(Kinds) /\ Len(said[p]') \in Nat
      /\ waiting[p] \subseteq 1 .. Len(said[p])
  <2>1. said[p] \in Seq(Kinds) /\ said[p]' \in Seq(Kinds)
    BY DEF Safe, HubInv, HubTypes
  <2>2. waiting[p] \subseteq 1 .. Len(said[p])
    BY DEF Safe, HubInv, Counted
  <2>3. QED
    BY <2>1, <2>2
<1>5. seq <= Len(said[p]) /\ seq \in Nat
  BY <1>3 DEF Going, Safe, ViewInv, OpenFits, ViewTypes
<1>6. CASE SaysNothing
  <2>1. UNCHANGED <<said, wire>> /\ waiting[p]' \subseteq waiting[p]
    BY <1>6 DEF SaysNothing
  <2>2. OnItsWay' = OnItsWay
    BY <1>1, <2>1 DEF OnItsWay
  <2>3. \A n : Wanted(n)' => Wanted(n)
    BY <1>3, <2>1 DEF Wanted
  <2>4. QED
    BY <1>1, <1>2, <2>2, <2>3, CoverKept DEF Cover
<1>7. CASE SaysOne(s)
  <2> DEFINE m == Len(said[s]) + 1
             f == Frame(s, m)
  <2>1. PICK kind \in Kinds : Emit(s, kind)
    BY <1>7 DEF SaysOne
  <2>2. /\ Len(said[s]') = m /\ Len(said[s]) \in Nat
        /\ \A n \in 1 .. Len(said[s]) : said[s]'[n] = said[s][n]
        /\ \A q \in Sessions \ {s} : said[q]' = said[q]
        /\ s \in watched => ToSet(wire') = ToSet(wire) \cup {f}
        /\ s \notin watched => wire' = wire
    BY <2>1, EmitFacts DEF Safe
  <2>3. f.session = s /\ f.n = m
    BY DEF Frame
  <2>4. waiting[p]' \subseteq waiting[p] \cup IF p = s THEN {m} ELSE {}
    BY <1>7 DEF SaysOne
  <2> HIDE DEF m, f
  <2>5. OnItsWay \subseteq OnItsWay' /\ (p = s /\ s \in watched => m \in OnItsWay')
    <3>1. /\ OnItsWay = {g.n : g \in {g \in ToSet(wire) : g.session = p /\ g.n > seq}}
          /\ OnItsWay' = {g.n : g \in {g \in ToSet(wire') : g.session = p /\ g.n > seq}}
      BY <1>1, <1>3 DEF OnItsWay
    <3>2. ToSet(wire) \subseteq ToSet(wire')
      BY <2>2
    <3>3. ASSUME p = s, s \in watched  PROVE m \in OnItsWay'
      <4>1. f \in ToSet(wire') /\ f.session = p
        BY <2>2, <2>3, <3>3
      <4>2. m > seq
        BY <1>4, <1>5, <3>3 DEF m
      <4>3. QED
        BY <2>3, <3>1, <4>1, <4>2
    <3>4. QED
      BY <3>1, <3>2, <3>3
  <2>6. ASSUME NEW n, Wanted(n)'
        PROVE  \/ Wanted(n)
               \/ n \notin 1 .. Len(said[open]) /\ (open \in watched => n \in OnItsWay')
    <3>1. /\ n \in 1 .. Len(said[p]')
          /\ said[p]'[n] \in InMessage \/ n \in waiting[p]'
      BY <1>3, <2>6 DEF Wanted
    <3>2. CASE n \in 1 .. Len(said[p])
      <4>1. said[p]'[n] = said[p][n]
        BY <2>2, <3>2
      <4>2. n \in waiting[p]' => n \in waiting[p]
        <5>1. p = s => n # m
          BY <1>4, <3>2 DEF m
        <5>2. QED
          BY <2>4, <5>1
      <4>3. QED
        BY <1>3, <3>1, <3>2, <4>1, <4>2 DEF Wanted
    <3>3. CASE n \notin 1 .. Len(said[p])
      <4>1. p = s /\ n = m
        <5>1. p = s
          BY <2>2, <3>1, <3>3
        <5>2. QED
          BY <2>2, <3>1, <3>3, <5>1 DEF m
      <4>2. QED
        BY <1>3, <2>5, <3>3, <4>1
    <3>4. QED
      BY <3>2, <3>3
  <2>7. QED
    BY <1>1, <1>2, <2>5, <2>6, CoverKept DEF Cover
<1>8. QED
  BY <1>1, <1>6, <1>7

\* A frame that leaves the wire is drawn, or is of no matter to the view.
LEMMA FrameCovered ==
    ASSUME Safe, Safe', Grows, Cover, TakesFrame
    PROVE  Cover'
<1> DEFINE f == wire[1]
           new == f.session = open /\ f.n > seq
<1>1. /\ UNCHANGED <<hub, watched, task, last, rivals, open, warned>>
      /\ wire \in Seq(Frames) /\ wire # <<>> /\ wire' = Tail(wire)
      /\ new => /\ f.n \in 1 .. Len(said[open]) /\ seq' = f.n
                /\ \/ said[open][f.n] = "turn_complete" /\ blocks' = blocks
                   \/ blocks' = Append(blocks, Block(open, f.n))
      /\ ~new => UNCHANGED <<seq, blocks>>
  BY FrameDoes DEF Safe, TakesFrame
<1>2. UNCHANGED <<said, waiting>> /\ \A n : Wanted(n)' <=> Wanted(n)
  BY <1>1 DEF Wanted, hub
<1>3. Going' <=> Going
  BY <1>1 DEF Going
<1> SUFFICES ASSUME Going  PROVE Cover'
  BY <1>3 DEF Cover, Told, Covered
<1>4. blocks \in Seq(Blocks) /\ seq \in Nat /\ open \in Sessions
  BY DEF Going, Safe, ViewInv, ViewTypes, OpenFits
<1>5. /\ Drawn \subseteq Drawn'
      /\ new /\ said[open][f.n] # "turn_complete" => f.n \in Drawn'
  <2>1. CASE blocks' = blocks
    BY <1>1, <2>1 DEF Drawn
  <2>2. CASE new /\ blocks' = Append(blocks, Block(open, f.n))
    <3> DEFINE block == Block(open, f.n)
    <3>1. block \in Blocks /\ block.n = f.n
      BY <1>1, <1>4, <2>2 DEF Block, Blocks
    <3> HIDE DEF block
    <3>2. blocks' = Append(blocks, block)
      BY <2>2 DEF block
    <3>3. ToSet(blocks') = ToSet(blocks) \cup {block}
      <4>1. /\ Len(blocks') = Len(blocks) + 1 /\ Len(blocks) \in Nat
            /\ DOMAIN blocks = 1 .. Len(blocks) /\ DOMAIN blocks' = 1 .. Len(blocks) + 1
            /\ \A i \in 1 .. Len(blocks) : blocks'[i] = blocks[i]
            /\ blocks'[Len(blocks) + 1] = block
        BY <1>4, <3>1, <3>2
      <4>2. QED
        BY <4>1 DEF ToSet
    <3>4. QED
      BY <3>1, <3>3 DEF Drawn
  <2>3. QED
    BY <1>1, <2>1, <2>2
<1>6. ASSUME NEW n \in OnItsWay, Wanted(n)  PROVE n \in OnItsWay' \/ n \in Drawn'
  <2>1. PICK i \in 1 .. Len(wire) : wire[i].session = open /\ wire[i].n > seq /\ wire[i].n = n
    <3>1. PICK g \in ToSet(wire) : g.session = open /\ g.n > seq /\ g.n = n
      BY <1>6 DEF OnItsWay
    <3>2. DOMAIN wire = 1 .. Len(wire)
      BY <1>1
    <3>3. PICK i \in 1 .. Len(wire) : wire[i] = g
      BY <3>1, <3>2 DEF ToSet
    <3>4. QED
      BY <3>1, <3>3
  <2>2. CASE i = 1
    <3>1. said[open][n] # "turn_complete"
      <4>1. said[open][n] \in InMessage \/ n \in waiting[open]
        BY <1>6 DEF Wanted
      <4>2. n \in waiting[open] => said[open][n] = "prompt"
        BY <1>4 DEF Safe, HubInv, Counted
      <4>3. QED
        BY <4>1, <4>2 DEF InMessage
    <3>2. QED
      BY <1>5, <2>1, <2>2, <3>1
  <2>3. CASE i # 1
    <3>1. /\ Len(wire) \in Nat /\ 1 \in DOMAIN wire /\ i \in DOMAIN wire /\ 1 < i
          /\ i - 1 \in 1 .. Len(wire) - 1
      BY <1>1, <2>3
    <3>2. wire'[i - 1] = wire[i] /\ wire[i] \in ToSet(wire')
      <4>1. Len(wire') = Len(wire) - 1 /\ DOMAIN wire' = 1 .. Len(wire) - 1
        BY <1>1
      <4>2. wire'[i - 1] = wire[i]
        BY <1>1, <3>1, <4>1
      <4>3. QED
        BY <3>1, <4>1, <4>2 DEF ToSet
    <3>3. wire[i].n > seq'
      <4>1. CASE new
        <5>1. wire[1].n < wire[i].n
          BY <2>1, <3>1, <4>1 DEF Safe, HubInv, WireAscends
        <5>2. wire[i] \in Frames /\ wire[1] \in Frames
          BY <1>1, <3>1
        <5>3. QED
          BY <1>1, <4>1, <5>1, <5>2 DEF Frames
      <4>2. CASE ~new
        BY <1>1, <2>1, <4>2
      <4>3. QED
        BY <4>1, <4>2
    <3>4. QED
      BY <1>1, <2>1, <3>2, <3>3 DEF OnItsWay
  <2>4. QED
    BY <2>2, <2>3
<1>7. QED
  BY <1>1, <1>2, <1>3, <1>5, <1>6, CoverKept DEF Cover

\* Without a connection nothing is owed; a new open owes nothing yet.
LEMMA DropCovered ==
    ASSUME Safe, ConnectionDrops
    PROVE  Cover'
<1>1. watched' = {} /\ UNCHANGED <<last, rivals>>
  BY DropDoes DEF Safe
<1>2. \A o \in Opens : task'[o].pc \notin Pending
  <2>1. \A o \in Opens : task'[o] = IF task[o].pc \in Loading THEN NoTask ELSE task[o]
    BY DropDoes DEF Safe
  <2>2. NoTask.pc = "idle"
    BY NoTaskFacts
  <2>3. QED
    BY <2>1, <2>2 DEF Loading, Pending
<1>3. Told'
  <2>1. Live' \subseteq Opens \cup {None}
    BY <1>1 DEF Live, Safe, ViewInv, ViewTypes
  <2>2. Going' => last' # None
    BY DEF Going
  <2>3. Going' => Live' \subseteq Opens
    BY <1>1, <2>2 DEF Live, Safe, ViewInv, ViewTypes
  <2>4. QED
    BY <1>2, <2>3 DEF Told
<1>4. Covered'
  BY <1>1 DEF Covered
<1>5. QED
  BY <1>3, <1>4 DEF Cover

LEMMA OpeningCovered ==
    ASSUME Safe, NEW o \in Opens, NEW s \in Sessions, Opening(o, s)
    PROVE  Cover'
<1>1. /\ last' = o
      /\ task' = [task EXCEPT ![o] =
            IF up' THEN [NoTask EXCEPT !.pc = "calling", !.session = s] ELSE Refused]
  BY DEF Opening
<1>2. task'[o].pc \in {"calling", "refused"}
  <2> DEFINE t == [NoTask EXCEPT !.pc = "calling", !.session = s]
  <2>1. t.pc = "calling" /\ Refused.pc = "refused"
    BY CallingFacts, RefusedFacts
  <2>2. task'[o] = IF up' THEN t ELSE Refused
    BY <1>1 DEF Safe, ViewInv, ViewTypes
  <2> HIDE DEF t
  <2>3. QED
    BY <2>1, <2>2
<1>3. ~Going'
  BY <1>1, <1>2 DEF Going, Pending
<1>4. QED
  BY <1>3 DEF Cover, Told, Covered

\* An open that is none of the session's.
LEMMA OtherCovered ==
    ASSUME Safe, Safe', Grows, Cover, NEW o \in Opens, task[o].pc \in Loading, o \notin Live,
           \A p \in Opens \ {o} : task'[p] = task[p],
           UNCHANGED <<hub, wire, open, seq, warned, last, rivals>>, Drawn \subseteq Drawn',
           open \in watched' => open \in watched
    PROVE  Cover'
<1>1. last # None => \A p \in Live : task'[p] = task[p]
  BY DEF Live, Safe, ViewInv, ViewTypes
<1>2. Going' => Going
  BY <1>1 DEF Going, Live
<1>3. OnItsWay' = OnItsWay /\ \A n : Wanted(n)' <=> Wanted(n)
  BY DEF OnItsWay, Wanted, hub
<1>4. QED
  BY <1>1, <1>2, <1>3, CoverKept DEF Cover

\* An open that is not told anything yet.
LEMMA CountCovered ==
    ASSUME Safe, Safe', Grows, Cover, NEW o \in Opens, CountsHistory(o)
    PROVE  Cover'
<1>1. /\ task[o].pc = "calling" /\ task[o].pc \in Loading
      /\ UNCHANGED <<hub, wire, watched, open, seq, blocks, warned, last, rivals>>
  BY DEF CountsHistory, link, view, ghosts, Loading
<1>2. task[o].session \in Sessions /\ last # None
  BY <1>1, HeldIsSaid DEF Safe
<1>3. (\A p \in Opens \ {o} : task'[p] = task[p]) /\ task'[o].pc = "counted"
  BY <1>2, CountsDoes DEF Safe, ViewInv
<1>4. Drawn' = Drawn /\ OnItsWay' = OnItsWay /\ \A n : Wanted(n)' <=> Wanted(n)
  BY <1>1 DEF Drawn, OnItsWay, Wanted, hub
<1>5. CASE o \notin Live
  BY <1>1, <1>3, <1>4, <1>5, OtherCovered
<1>6. CASE o \in Live
  <2>1. Live \subseteq Opens /\ last \in Live
    BY <1>2 DEF Live, Safe, ViewInv, ViewTypes
  <2>2. \A p \in Live :
            /\ task[p].pc \in Pending \cup {"drawn"} => task'[p] = task[p]
            /\ task'[p].pc \in Pending => task[p].pc \in Pending
            /\ task'[p] = task[p] \/ (task[p].pc = "calling" /\ task'[p].pc = "counted")
    BY <1>1, <1>3, <2>1 DEF Pending
  <2>3. Going' => Going
    BY <1>1, <2>1, <2>2 DEF Going, Pending, Live
  <2>4. QED
    BY <1>1, <1>4, <2>2, <2>3, CoverKept DEF Cover
<1>7. QED
  BY <1>5, <1>6

\* The hub owes an open of the session everything that it tells it.
LEMMA AttachedOwes ==
    ASSUME Safe, NEW o \in Opens, Attaches(o), open = task[o].session, o \in Live,
           NEW n, Wanted(n)
    PROVE  Settled(n)' \/ Owes(o, n)'
<1>1. task[o].pc = "counted" /\ task[o].pc \in Loading /\ UNCHANGED <<hub, open, last, rivals>>
  BY DEF Attaches, view, ghosts, Loading
<1>2. PICK s \in Sessions : s = open /\ s = task[o].session /\ s = open'
  BY <1>1, HeldIsSaid DEF Safe
<1> DEFINE r == task'[o].reply
           total == r.total
<1>3. task[o].reply.total <= Cardinality(Written(s)) /\ task[o].reply.total \in Nat
  BY <1>1, <1>2, HeldIsSaid, TaskTypes DEF Safe, ViewInv
<1>4. /\ task'[o].pc = "replied" /\ total = task[o].reply.total
      /\ \E since \in SUBSET Nat : Tells(s, r, since)
  BY <1>2, <1>3, AttachesDoes DEF Safe, ViewInv
<1>5. PICK since \in SUBSET Nat : Tells(s, r, since)
  BY <1>4
<1>6. /\ UNCHANGED <<said, waiting>>
      /\ Transcript(s)' = Transcript(s) /\ said'[open'] = said[s]
  BY <1>1, <1>2, HubAsItWas DEF hub
<1>7. o \in Live' /\ task'[o].pc \in Pending
  BY <1>1, <1>4 DEF Live, Pending
<1>8. total \in Nat /\ Start(total) \in Nat
  BY <1>3, <1>4, StartFacts
<1> HIDE DEF r, total
<1>9. CASE n \in waiting[open]
  <2>1. r.asks = pending[s]
    BY <1>5 DEF Tells
  <2>2. n \in r.asks
    BY <1>2, <1>9, <2>1 DEF Safe, HubInv, Counted
  <2>3. QED
    BY <1>7, <2>2 DEF Owes, r
<1>10. CASE said[open][n] \in InMessage
  <2>1. /\ n \in 1 .. Len(said[s]) /\ start[s] \in Nat /\ cut[s] \in Nat
        /\ Len(said[s]) \in Nat
    <3>1. said[s] \in Seq(Kinds)
      BY DEF Safe, HubInv, HubTypes
    <3>2. QED
      BY <1>2, <3>1 DEF Wanted, Safe, HubInv, HubTypes
  <2>2. CASE n \in History(s, total)
    <3>1. PICK i \in 1 .. total : Transcript(s)[i] = n
      BY <2>2 DEF History
    <3>2. CASE i <= Start(total)
      <4>1. i \in 1 .. Start(total)
        BY <1>8, <3>2
      <4>2. i \in 1 .. Start(task'[o].reply.total) /\ Transcript(open)'[i] = n
        BY <1>2, <1>6, <3>1, <4>1 DEF total, r
      <4>3. Skipped(o, n)'
        BY <1>7, <4>2 DEF Skipped
      <4>4. Old(n)'
        BY <1>7, <4>3 DEF Old
      <4>5. QED
        BY <1>2, <1>6, <1>10, <4>4 DEF Settled
    <3>3. CASE i > Start(total)
      <4>1. i \in 1 .. task'[o].reply.total /\ Transcript(open)'[i] = n
        BY <1>2, <1>6, <3>1 DEF total, r
      <4>2. i > From(o)'
        BY <1>4, <3>3 DEF From, total, r
      <4>3. QED
        BY <1>2, <1>6, <1>7, <1>10, <4>1, <4>2 DEF Owes
    <3>4. QED
      BY <1>8, <3>2, <3>3
  <2>3. CASE n \in since
    <3>1. /\ n \in start[s] + 1 .. Len(said[s])
          /\ ToSet(r.replay) = start[s] + cut[s] + 1 .. Len(said[s])
          /\ r.truncated = (cut[s] > 0)
      BY <1>5, <2>3 DEF Tells
    <3>2. CASE n <= start[s] + cut[s]
      <4>1. cut[s] > 0
        BY <2>1, <3>1, <3>2
      <4>2. task'[o].reply.truncated
        BY <3>1, <4>1 DEF r
      <4>3. QED
        BY <1>2, <1>4, <1>6, <1>7, <1>10, <4>2 DEF Owes
    <3>3. CASE start[s] + cut[s] < n
      <4>1. n \in start[s] + cut[s] + 1 .. Len(said[s])
        BY <2>1, <3>3
      <4>2. n \in ToSet(task'[o].reply.replay)
        BY <3>1, <4>1 DEF r
      <4>3. QED
        BY <1>2, <1>6, <1>7, <1>10, <4>2 DEF Owes
    <3>4. QED
      BY <2>1, <3>2, <3>3
  <2>4. CASE n \notin History(s, total) /\ n \notin since
    <3>1. n \in Messages(s)
      BY <1>2, <1>10, <2>1 DEF Messages
    <3>2. n \in task'[o].reply.untold
      BY <1>5, <2>4, <3>1 DEF Tells, total, r
    <3>3. Unheard(o, n)'
      BY <1>7, <3>2 DEF Unheard
    <3>4. Untold(n)'
      BY <1>7, <3>3 DEF Untold
    <3>5. QED
      BY <1>2, <1>6, <1>10, <3>4 DEF Settled
  <2>5. QED
    BY <2>2, <2>3, <2>4
<1>11. QED
  BY <1>9, <1>10 DEF Wanted

LEMMA AttachCovered ==
    ASSUME Safe, Safe', Grows, Cover, NEW o \in Opens, Attaches(o)
    PROVE  Cover'
<1>1. /\ task[o].pc = "counted" /\ task[o].pc \in Loading
      /\ watched' = watched \cup ({task[o].session} \cap Talking)
      /\ UNCHANGED <<hub, wire, open, seq, blocks, warned, last, rivals>>
  BY DEF Attaches, view, ghosts, Loading
<1>2. /\ task[o].session \in Sessions /\ (task[o].session = open <=> o \in Live)
      /\ last # None /\ task[o].reply.total <= Cardinality(Written(task[o].session))
  BY <1>1, HeldIsSaid DEF Safe
<1>3. /\ \A p \in Opens \ {o} : task'[p] = task[p]
      /\ task'[o].pc = "replied"
  BY <1>2, AttachesDoes DEF Safe, ViewInv
<1>4. Drawn' = Drawn
  BY <1>1 DEF Drawn
<1>5. CASE o \notin Live
  <2>1. open \in watched' => open \in watched
    BY <1>1, <1>2, <1>5
  <2>2. QED
    BY <1>1, <1>3, <1>4, <1>5, <2>1, OtherCovered
<1>6. CASE o \in Live
  <2> SUFFICES ASSUME Going'  PROVE Cover'
    BY DEF Cover, Told, Covered
  <2>1. Live \subseteq Opens /\ last \in Live /\ Live' = Live
    BY <1>1, <1>2 DEF Live, Safe, ViewInv, ViewTypes
  <2>2. \A n : Wanted(n)' <=> Wanted(n)
    BY <1>1 DEF Wanted, hub
  <2>3. ASSUME NEW n, Wanted(n)  PROVE Settled(n)' \/ Owes(o, n)'
    BY <1>2, <1>6, <2>3, AttachedOwes
  <2>4. ASSUME o # last  PROVE Going
    <3>1. task'[last] = task[last]
      BY <1>3, <2>1, <2>4
    <3>2. \A p \in rivals : task[p].pc # "idle"
      <4>1. \A p \in rivals : task'[p].pc # "idle" /\ p \in Opens
        BY <1>1, <2>1 DEF Going, Live
      <4>2. QED
        BY <1>1, <1>3, <4>1
    <3>3. QED
      BY <1>1, <3>1, <3>2 DEF Going
  <2>5. ASSUME NEW n, Wanted(n), NEW p \in Live \ {o}, Owes(p, n)  PROVE Owes(p, n)'
    <3>1. n \in 1 .. Len(said[open]) /\ task'[p] = task[p] /\ HubInv'
      BY <1>3, <2>1, <2>5 DEF Wanted, Safe
    <3>2. QED
      BY <1>1, <1>2, <2>5, <3>1, OwesStays
  <2>6. ASSUME NEW n, Wanted(n), Settled(n)  PROVE Settled(n)'
    <3>1. n \in 1 .. Len(said[open]) /\ HubInv'
      BY <2>6 DEF Wanted, Safe
    <3>2. \A p \in Live : task[p].pc \in Pending \cup {"drawn"} => task'[p] = task[p]
      BY <1>1, <1>3, <2>1 DEF Pending
    <3>3. QED
      BY <1>1, <1>2, <1>4, <2>6, <3>1, <3>2, SettledStays
  <2>7. Told'
    <3> SUFFICES ASSUME NEW p \in Live, task'[p].pc \in Pending,
                        NEW n \in 1 .. task'[p].reply.seq, Wanted(n)
                 PROVE  Settled(n)' \/ Owes(p, n)' \/ Owes(last, n)'
      BY <1>1, <2>1, <2>2 DEF Told
    <3>1. CASE p = o \/ o = last
      BY <1>1, <2>3, <3>1
    <3>2. CASE p # o /\ o # last
      <4>1. task'[p] = task[p]
        BY <1>3, <2>1, <3>2
      <4>2. Settled(n) \/ Owes(p, n) \/ Owes(last, n)
        BY <2>4, <3>2, <4>1 DEF Cover, Told
      <4>3. QED
        BY <1>1, <2>1, <2>5, <2>6, <3>2, <4>2
    <3>3. QED
      BY <3>1, <3>2
  <2>8. Covered'
    BY <1>1, <1>6, <2>1, <2>2, <2>3 DEF Covered
  <2>9. QED
    BY <2>7, <2>8 DEF Cover
<1>7. QED
  BY <1>5, <1>6

\* An open that ends without having drawn anything: the last one takes the promise
\* with it, as does any whose page failed.
LEMMA FailCovered ==
    ASSUME Safe, Safe', Grows, Cover, NEW o \in Opens, AttachFails(o)
    PROVE  Cover'
<1>1. /\ task[o].pc = "calling" /\ task[o].pc \in Loading
      /\ task' = [task EXCEPT ![o] = Refused]
      /\ blocks' = Append(blocks, Note(task[o].session))
      /\ UNCHANGED <<hub, wire, watched, open, seq, warned, last, rivals>>
  BY DEF AttachFails, link, ghosts, Loading
<1>2. task[o].session \in Sessions /\ last # None
  BY <1>1, HeldIsSaid DEF Safe
<1>3. \A p \in Opens \ {o} : task'[p] = task[p]
  BY <1>1
<1>4. Drawn \subseteq Drawn'
  <2>1. blocks \in Seq(Blocks)
    BY DEF Safe, ViewInv, ViewTypes
  <2>2. Drawn' = Drawn \cup {0}
    BY <1>1, <1>2, <2>1, NoteDoes
  <2>3. QED
    BY <2>2
<1>5. task'[o].pc = "refused"
  BY <1>1, RefusedFacts DEF Safe, ViewInv, ViewTypes
<1>6. CASE o \notin Live
  BY <1>1, <1>3, <1>4, <1>6, OtherCovered
<1>7. CASE o \in Live
  <2>1. Live \subseteq Opens /\ last \in Live
    BY <1>2 DEF Live, Safe, ViewInv, ViewTypes
  <2>2. Going' => Going
    <3>1. Going' => o # last
      BY <1>1, <1>5 DEF Going, Pending
    <3>2. o # last => task'[last] = task[last]
      BY <1>3, <2>1
    <3>3. \A p \in Opens : task[p].pc # "idle" \/ task'[p] = task[p]
      BY <1>1, <1>3
    <3>4. rivals \subseteq Opens
      BY DEF Safe, ViewInv, ViewTypes
    <3>5. QED
      BY <1>1, <3>1, <3>2, <3>3, <3>4 DEF Going
  <2>3. \A p \in Live :
            /\ task[p].pc \in Pending \cup {"drawn"} => task'[p] = task[p]
            /\ task'[p].pc \in Pending => task[p].pc \in Pending
    BY <1>1, <1>3, <1>5, <2>1 DEF Pending
  <2>4. OnItsWay' = OnItsWay /\ \A n : Wanted(n)' <=> Wanted(n)
    BY <1>1 DEF OnItsWay, Wanted, hub
  <2>5. QED
    BY <1>1, <1>4, <2>2, <2>3, <2>4, CoverKept DEF Cover
<1>8. QED
  BY <1>6, <1>7

LEMMA LeavingCovered ==
    ASSUME Safe, Safe', Grows, Cover, NEW o \in Opens, Leaves(o)
    PROVE  Cover'
<1>1. /\ task[o].pc \in Loading
      /\ task' = [task EXCEPT ![o] = NoTask]
      /\ UNCHANGED <<hub, wire, watched, open, seq, blocks, warned, last, rivals>>
  BY DEF Leaves, link, view, ghosts
<1>2. \A p \in Opens \ {o} : task'[p] = task[p]
  BY <1>1
<1>3. Drawn' = Drawn
  BY <1>1 DEF Drawn
<1>4. task'[o].pc = "idle"
  BY <1>1, NoTaskFacts DEF Safe, ViewInv, ViewTypes
<1>5. CASE o \notin Live
  BY <1>1, <1>2, <1>3, <1>5, OtherCovered
<1>6. CASE o \in Live
  <2>1. ~Going'
    BY <1>1, <1>4, <1>6 DEF Going, Pending, Live
  <2>2. QED
    BY <2>1 DEF Cover, Told, Covered
<1>7. QED
  BY <1>5, <1>6

\* What an open of the session owes is of the numbers it was told, and what it has
\* under way it owes until it is drawn.
LEMMA BeginCovered ==
    ASSUME Safe, Safe', Grows, Cover, NEW o \in Opens, Begins(o)
    PROVE  Cover'
<1>1. /\ task[o].pc = "replied" /\ open = task[o].session
      /\ seq' = task[o].reply.seq /\ warned' = (warned \/ task[o].reply.truncated)
      /\ UNCHANGED <<hub, wire, watched, open, blocks, last, rivals>>
  BY DEF Begins, StillOpen, link, ghosts
<1>2. /\ \A p \in Opens \ {o} : task'[p] = task[p]
      /\ task'[o].pc = "paging" /\ task'[o].reply = task[o].reply
      /\ task'[o].offset = Start(task[o].reply.total)
  BY BeginKeepsView DEF Safe
<1>3. o \in Live /\ last # None
  BY <1>1, HeldIsSaid DEF Safe, Loading
<1>4. Drawn' = Drawn /\ task[o].pc \in Pending /\ task'[o].pc \in Pending
  BY <1>1, <1>2 DEF Drawn, Pending
<1>5. From(o)' = From(o)
  BY <1>1, <1>2 DEF From
<1>6. UNCHANGED said /\ Transcript(open)' = Transcript(open) /\ said'[open'] = said[open]
  BY <1>1, HubAsItWas DEF hub, Transcript
<1>7. \A n : Wanted(n) /\ Owes(o, n) => Owes(o, n)' \/ Settled(n)'
  BY <1>1, <1>2, <1>4, <1>5, <1>6 DEF Owes, Settled
<1>8. \A n \in Nat : seq < n => seq' < n \/ n <= task[o].reply.seq
  <2>1. task[o].reply.seq \in Nat
    BY TaskTypes DEF Safe, ViewInv
  <2>2. QED
    BY <1>1, <2>1
<1>9. warned => warned'
  BY <1>1
<1>10. QED
  BY <1>1, <1>2, <1>3, <1>4, <1>7, <1>8, <1>9, CoverMoved DEF Cover

LEMMA ReadCovered ==
    ASSUME Safe, Safe', Grows, Cover, NEW o \in Opens, ReadsPage(o)
    PROVE  Cover'
<1>1. /\ task[o].pc = "paging"
      /\ UNCHANGED <<hub, wire, watched, open, seq, blocks, warned, last, rivals>>
  BY DEF ReadsPage, link, view, ghosts
<1>2. /\ \A p \in Opens \ {o} : task'[p] = task[p]
      /\ task'[o].pc = "page" /\ task'[o].reply = task[o].reply
      /\ task'[o].offset = task[o].offset
  BY ReadKeepsView DEF Safe
<1>3. /\ Drawn' = Drawn /\ task[o].pc \in Loading
      /\ task[o].pc \in Pending /\ task'[o].pc \in Pending
  BY <1>1, <1>2 DEF Drawn, Pending, Loading
<1>4. last # None
  BY <1>3, HeldIsSaid DEF Safe
<1>5. CASE o \notin Live
  BY <1>1, <1>2, <1>3, <1>5, OtherCovered
<1>6. CASE o \in Live
  <2>1. From(o)' = From(o)
    BY <1>1, <1>2 DEF From
  <2>2. UNCHANGED said /\ Transcript(open)' = Transcript(open) /\ said'[open'] = said[open]
    BY <1>1, HubAsItWas DEF hub, Transcript
  <2>3. \A n : Wanted(n) /\ Owes(o, n) => Owes(o, n)'
    BY <1>1, <1>2, <1>3, <2>1, <2>2 DEF Owes
  <2>4. \A n \in Nat : seq < n => seq' < n
    BY <1>1
  <2>5. QED
    BY <1>1, <1>2, <1>3, <1>4, <1>6, <2>3, <2>4, CoverMoved DEF Cover
<1>7. QED
  BY <1>5, <1>6

\* The places a page holds, of those up to what was told.
LEMMA PageHolds ==
    ASSUME Safe, NEW o \in Opens, task[o].pc = "page", open = task[o].session,
           NEW i \in 1 .. task[o].reply.total, i > task[o].offset,
           i <= task[o].offset + PageSize
    PROVE  Transcript(open)[i] \in ToSet(task[o].page)
<1> DEFINE k == task[o].offset
           page == task[o].page
           total == task[o].reply.total
           j == i - k
<1>1. PageFits(o)
  BY HeldIsSaid DEF Safe, Loading
<1>2. /\ Len(page) <= PageSize
      /\ Len(page) = PageSize \/ k + Len(page) >= total
      /\ \A m \in 1 .. Len(page) : page[m] = Transcript(open)[k + m]
  BY <1>1 DEF PageFits
<1>3. k \in Nat /\ Len(page) \in Nat /\ total \in Nat /\ PageSize \in Nat /\ page \in Seq(Nat)
  BY TaskTypes, ClientAssumption DEF Safe, ViewInv
<1>4. i > k /\ i <= k + PageSize /\ i \in 1 .. total
  OBVIOUS
<1> HIDE DEF k, page, total
<1>5. j \in 1 .. Len(page) /\ k + j = i
  BY <1>2, <1>3, <1>4
<1>6. page[j] = Transcript(open)[i]
  BY <1>2, <1>5
<1>7. page[j] \in ToSet(page)
  BY <1>3, <1>5 DEF ToSet
<1>8. QED
  BY <1>6, <1>7 DEF page

LEMMA ContinueCovered ==
    ASSUME Safe, Safe', Grows, Cover, NEW o \in Opens, Continues(o)
    PROVE  Cover'
<1>1. /\ task[o].pc = "page" /\ open = task[o].session
      /\ UNCHANGED <<hub, wire, watched, open, seq, warned, last, rivals>>
  BY DEF Continues, StillOpen, link
<1>2. /\ \A p \in Opens \ {o} : task'[p] = task[p]
      /\ task'[o].pc = "paging" /\ task'[o].reply = task[o].reply
      /\ task'[o].offset = task[o].offset + PageSize
      /\ Drawn' = Drawn \cup ToSet(task[o].page)
  BY ContinueKeepsView DEF Safe
<1>3. o \in Live /\ last # None
  BY <1>1, HeldIsSaid DEF Safe, Loading
<1>4. task[o].pc \in Pending /\ task'[o].pc \in Pending
  BY <1>1, <1>2 DEF Pending
<1>5. UNCHANGED said /\ Transcript(open)' = Transcript(open) /\ said'[open'] = said[open]
  BY <1>1, HubAsItWas DEF hub, Transcript
<1>6. From(o) = task[o].offset /\ From(o)' = task[o].offset + PageSize
  BY <1>1, <1>2 DEF From
<1>7. ASSUME NEW n, Owes(o, n)  PROVE Owes(o, n)' \/ Settled(n)'
  <2>1. CASE \/ n \in task[o].reply.asks
             \/ said[open][n] \in InMessage /\ n \in ToSet(task[o].reply.replay)
    BY <1>2, <1>4, <1>5, <2>1 DEF Owes
  <2>2. ASSUME said[open][n] \in InMessage,
               NEW i \in 1 .. task[o].reply.total, i > From(o), Transcript(open)[i] = n
        PROVE  Owes(o, n)' \/ Settled(n)'
    <3>1. CASE i <= task[o].offset + PageSize
      <4>1. n \in ToSet(task[o].page)
        BY <1>1, <1>6, <2>2, <3>1, PageHolds
      <4>2. n \in Drawn'
        BY <1>2, <4>1
      <4>3. QED
        BY <4>2 DEF Settled
    <3>2. CASE i > task[o].offset + PageSize
      BY <1>2, <1>4, <1>5, <1>6, <2>2, <3>2 DEF Owes
    <3>3. task[o].offset + PageSize \in Nat /\ i \in Nat
      BY TaskTypes, ClientAssumption DEF Safe, ViewInv
    <3>4. QED
      BY <3>1, <3>2, <3>3
  <2>3. QED
    BY <1>1, <1>7, <2>1, <2>2 DEF Owes
<1>8. Drawn \subseteq Drawn' /\ \A n \in Nat : seq < n => seq' < n
  BY <1>1, <1>2
<1>9. QED
  BY <1>1, <1>2, <1>3, <1>4, <1>7, <1>8, CoverMoved DEF Cover

\* At its end an open has drawn all it owed.
LEMMA EndCovered ==
    ASSUME Safe, Safe', Grows, Cover, NEW o \in Opens, NEW history, Ends(o, history),
           seq' \in {seq, task[o].reply.seq} \cup ToSet(task[o].reply.replay),
           warned => warned',
           task[o].pc = "replied" /\ task[o].reply.truncated => warned',
           \A i \in 1 .. task[o].reply.total :
                i > From(o) => Transcript(open)[i] \in ToSet(history)
    PROVE  Cover'
<1>1. /\ task[o].pc \in Pending /\ open = task[o].session
      /\ history \in Seq(Nat) /\ \A n \in ToSet(history) : n \in 1 .. Len(said[open])
      /\ Draws(o, HistoryFirst(o, history)) /\ Done(o)
      /\ warned' \in BOOLEAN
      /\ UNCHANGED <<hub, wire, watched, open, last, rivals>>
  BY DEF Ends, link
<1>2. /\ \A p \in Opens \ {o} : task'[p] = task[p]
      /\ task'[o].pc = "drawn" /\ task'[o].reply.total = task[o].reply.total
      /\ task'[o].reply.untold = task[o].reply.untold
      /\ Drawn' = Drawn \cup ToSet(history) \cup Replayed(open, o) \cup task[o].reply.asks
  <2>1. HubInv /\ HubInv' /\ ViewInv
    BY DEF Safe
  <2>2. QED
    BY <1>1, <2>1, EndKeepsView
<1>3. task[o].pc \in Loading /\ task'[o].pc \notin Pending
  BY <1>1, <1>2 DEF Pending, Loading
<1>4. o \in Live /\ last # None /\ ReplyFits(o)
  BY <1>1, <1>3, HeldIsSaid DEF Safe
<1>5. UNCHANGED said /\ said'[open'] = said[open]
  BY <1>1 DEF hub
<1>6. ASSUME NEW n, Owes(o, n)  PROVE Settled(n)'
  <2>1. CASE n \in task[o].reply.asks
    BY <1>2, <2>1 DEF Settled
  <2>2. CASE said[open][n] \in InMessage /\ n \in ToSet(task[o].reply.replay)
    BY <1>2, <2>2 DEF Settled, Replayed, InMessage
  <2>3. CASE said[open][n] \in InMessage /\ task[o].pc = "replied" /\ task[o].reply.truncated
    BY <1>5, <2>3 DEF Settled
  <2>4. CASE \E i \in 1 .. task[o].reply.total : i > From(o) /\ Transcript(open)[i] = n
    BY <1>2, <2>4 DEF Settled
  <2>5. QED
    BY <1>6, <2>1, <2>2, <2>3, <2>4 DEF Owes
<1>7. \A n \in Nat : seq < n => seq' < n \/ n <= task[o].reply.seq
  <2> DEFINE told == task[o].reply.seq
  <2>1. told \in Nat /\ seq \in Nat
    BY TaskTypes DEF Safe, ViewInv, ViewTypes
  <2>2. \A n \in ToSet(task[o].reply.replay) : n \in 1 .. told
    BY <1>4 DEF ReplyFits
  <2>3. seq' = seq \/ seq' \in 1 .. told \/ seq' = told
    BY <2>2
  <2> HIDE DEF told
  <2>4. \A n \in Nat : seq < n => seq' < n \/ n <= told
    BY <2>1, <2>3
  <2>5. QED
    BY <2>4 DEF told
<1>8. Drawn \subseteq Drawn'
  BY <1>2
<1>9. QED
  BY <1>1, <1>2, <1>3, <1>4, <1>6, <1>7, <1>8, CoverMoved DEF Cover

LEMMA MovesCover ==
    ASSUME Safe, Safe', Grows, Cover, NEW o \in Opens, Moves(o)
    PROVE  Cover'
<1>1. CASE EndsAtOnce(o)
  <2>1. /\ Ends(o, <<>>) /\ task[o].reply.total = 0
        /\ seq' = task[o].reply.seq /\ warned' = (warned \/ task[o].reply.truncated)
    BY <1>1, EndsAtOnceIs DEF Safe
  <2>2. \A i \in 1 .. task[o].reply.total :
                i > From(o) => Transcript(open)[i] \in ToSet(<<>>)
    BY <2>1
  <2>3. QED
    BY <2>1, <2>2, EndCovered
<1>2. CASE EndsWithPage(o)
  <2> DEFINE k == task[o].offset
             total == task[o].reply.total
             page == task[o].page
  <2>1. /\ Ends(o, page) /\ task[o].pc = "page" /\ ~(k + PageSize < total)
        /\ seq' \in {seq} \cup ToSet(task[o].reply.replay) /\ warned' = warned
    BY <1>2, EndsWithPageIs DEF Safe
  <2>2. \A i \in 1 .. total : i > From(o) => Transcript(open)[i] \in ToSet(page)
    <3> SUFFICES ASSUME NEW i \in 1 .. total, i > From(o)
                 PROVE  Transcript(open)[i] \in ToSet(page)
      OBVIOUS
    <3>1. k \in Nat /\ total \in Nat /\ PageSize \in Nat
      BY TaskTypes, ClientAssumption DEF Safe, ViewInv
    <3>2. From(o) = k
      BY <2>1 DEF From
    <3>3. i > k /\ i <= k + PageSize
      <4> HIDE DEF k, total
      <4>1. QED
        BY <2>1, <3>1, <3>2
    <3>4. open = task[o].session
      BY <2>1 DEF Ends
    <3>5. QED
      BY <2>1, <3>3, <3>4, PageHolds
  <2>3. /\ seq' \in {seq, task[o].reply.seq} \cup ToSet(task[o].reply.replay)
        /\ warned => warned'
        /\ task[o].pc = "replied" /\ task[o].reply.truncated => warned'
    BY <2>1
  <2>4. QED
    BY <2>1, <2>2, <2>3, EndCovered
<1>3. QED
  BY <1>1, <1>2, CountCovered, AttachCovered, FailCovered, LeavingCovered, BeginCovered, ReadCovered,
     ContinueCovered DEF Moves

LEMMA NextCovers ==
    ASSUME Safe, Cover, [Next]_vars
    PROVE  Cover'
<1>1. Safe' /\ Grows
  BY NextKeeps
<1>2. CASE Opened
  BY <1>2, OpeningCovered DEF Opened
<1>3. QED
  BY <1>1, <1>2, NextDoes, IdlesCovered, HubCovered, MovesCover, FrameCovered, DropCovered

\* The first of the numbers of a transcript, up to the latest start of the opens.
LEMMA OldIsOld ==
    ASSUME Safe, last # None, NEW n, Old(n)
    PROVE  n \in ToSet(SubSeq(Transcript(open), 1,
                              Max({Start(task[o].reply.total) : o \in Live})))
<1> DEFINE starts == {Start(task[o].reply.total) : o \in Live}
           old == Max(starts)
           N == Cardinality(Written(open))
<1>1. PICK p \in Live : \E i \in 1 .. Start(task[p].reply.total) : Transcript(open)[i] = n
  BY DEF Old, Skipped
<1>2. PICK i \in 1 .. Start(task[p].reply.total) : Transcript(open)[i] = n
  BY <1>1
<1>3. open \in Sessions /\ N \in Nat /\ Transcript(open) \in Seq(Nat)
  BY TranscriptFacts DEF Safe, ViewInv, OpenFits
<1>4. \A o \in Live : /\ Start(task[o].reply.total) \in Nat
                      /\ Start(task[o].reply.total) <= N
  <2>1. ASSUME NEW o \in Live
        PROVE  Start(task[o].reply.total) \in Nat /\ Start(task[o].reply.total) <= N
    <3> DEFINE total == task[o].reply.total
    <3>1. o \in Opens /\ total <= N
      BY DEF Live, Safe, ViewInv, ViewTypes, OpenFits
    <3>2. total \in Nat
      BY <3>1, TaskTypes DEF Safe, ViewInv
    <3> HIDE DEF total, N
    <3>3. Start(total) \in Nat /\ Start(total) <= total
      BY <3>2, StartFacts
    <3>4. QED
      BY <1>3, <3>1, <3>2, <3>3 DEF total
  <2>2. QED
    BY <2>1
<1> HIDE DEF N
<1>5. Bounded(starts) /\ starts # {}
  <2>1. \A x \in starts : x \in Nat /\ x <= N
    BY <1>4
  <2>2. starts # {}
    BY <1>1
  <2> HIDE DEF starts
  <2>3. QED
    BY <1>3, <2>1, <2>2 DEF Bounded
<1>6. Start(task[p].reply.total) <= old /\ old \in starts
  BY <1>5, MaxIsThere
<1>7. old \in Nat
  BY <1>4, <1>6
<1> HIDE DEF old
<1>8. i \in 1 .. old
  BY <1>4, <1>6, <1>7
<1>9. /\ DOMAIN SubSeq(Transcript(open), 1, old) = 1 .. old
      /\ SubSeq(Transcript(open), 1, old)[i] = Transcript(open)[i]
  BY <1>3, <1>7, <1>8
<1>10. n \in ToSet(SubSeq(Transcript(open), 1, old))
  BY <1>2, <1>8, <1>9 DEF ToSet
<1>11. QED
  BY <1>10 DEF old

\* Once the opens of a session have drawn what they were to draw, and while the hub
\* has the client for a watcher, every message is drawn, on its way, announced as cut,
\* older than what an open loads, or told in none of its replies, and every ask that
\* waits has a card or is on its way (openSession, handleNotification and the hub's
\* attach and fan-out).
THEOREM NothingIsEverMissed == Spec => []NothingIsMissed
<1>1. Init => Safe /\ Cover
  <2>1. Init => last = None
    BY DEF Init
  <2>2. QED
    BY <2>1, InitIsSafe DEF Cover, Told, Covered, Going
<1>2. Safe /\ Cover /\ [Next]_vars => Safe' /\ Cover'
  BY NextKeeps, NextCovers
<1>3. Safe /\ Cover => NothingIsMissed
  <2> SUFFICES ASSUME Safe, Cover, last # None, task[last].pc = "drawn",
                      \A o \in rivals : task[o].pc \in {"drawn", "refused"}, open \in watched
               PROVE  LET there == Drawn \cup OnItsWay
                          opens == rivals \cup {last}
                          old == Max({Start(task[o].reply.total) : o \in opens})
                          untold == UNION {task[o].reply.untold : o \in opens}
                      IN  /\ waiting[open] \subseteq there
                          /\ warned \/ Messages(open) \subseteq
                                there \cup untold \cup ToSet(SubSeq(Transcript(open), 1, old))
    BY DEF NothingIsMissed
  <2>1. Going /\ \A o \in Live : task[o].pc \notin Pending
    BY DEF Going, Live, Pending
  <2>2. \A n : Wanted(n) => Settled(n) \/ n \in OnItsWay
    BY <2>1 DEF Cover, Covered, Owes
  <2>3. open \in Sessions
    BY DEF Safe, ViewInv, OpenFits
  <2>4. ASSUME NEW n \in waiting[open]  PROVE n \in Drawn \cup OnItsWay
    <3>1. n \in 1 .. Len(said[open]) /\ said[open][n] = "prompt"
      BY <2>3 DEF Safe, HubInv, Counted
    <3>2. said[open][n] \notin InMessage
      BY <3>1 DEF InMessage
    <3>3. Wanted(n)
      BY <3>1 DEF Wanted
    <3>4. QED
      BY <2>2, <3>2, <3>3 DEF Settled
  <2>5. ASSUME ~warned, NEW n \in Messages(open)
        PROVE  \/ n \in Drawn \cup OnItsWay
               \/ n \in UNION {task[o].reply.untold : o \in Live}
               \/ n \in ToSet(SubSeq(Transcript(open), 1,
                              Max({Start(task[o].reply.total) : o \in Live})))
    <3>1. Wanted(n)
      BY <2>5 DEF Wanted, Messages
    <3>2. n \in Drawn \cup OnItsWay \/ Old(n) \/ Untold(n)
      BY <2>2, <2>5, <3>1 DEF Settled
    <3>3. Untold(n) => n \in UNION {task[o].reply.untold : o \in Live}
      BY DEF Untold, Unheard
    <3>4. QED
      BY <3>2, <3>3, OldIsOld
  <2>6. QED
    BY <2>4, <2>5 DEF Live
<1>4. QED
  BY <1>1, <1>2, <1>3, PTL DEF Spec

-----------------------------------------------------------------------------
(* The messages stand in order *)

MessageNumbers == {n \in Nat \ {0} : said[open][n] \in InMessage}

\* No open but the last draws.
Alone == last # None /\ rivals = {}

\* One message may stand before another.
Precedes(m, n, ahead, twice) == m < n \/ m \in ahead \/ (m \in twice /\ n \in twice)

Twice == task[last].reply.again

InPlace ==
    \A i, j \in DOMAIN blocks :
        i < j /\ blocks[i].n \in MessageNumbers /\ blocks[j].n \in MessageNumbers =>
            Precedes(blocks[i].n, blocks[j].n, overtaken, Twice)

\* What the last open has drawn at its place in the history.
InHistory(n) == \E i \in 1 .. task[last].offset : Transcript(open)[i] = n

Early == {"calling", "counted", "replied"}

\* What came while the open loads was drawn ahead of its turn; what else it has drawn is
\* history, and then older than what is to come.
Ordered ==
    /\ task[last].pc \in Early =>
            \A b \in ToSet(blocks) : b.n \in MessageNumbers => b.n \in overtaken
    /\ task[last].pc \in {"paging", "page"} =>
            /\ task[last].reply.seq <= seq
            /\ \A b \in ToSet(blocks) : b.n \in MessageNumbers => b.n \in overtaken \/ InHistory(b.n)
    /\ task[last].pc = "drawn" =>
            \A b \in ToSet(blocks) : b.n \in MessageNumbers => b.n \in overtaken \/ b.n <= seq
    /\ task[last].pc \in {"paging", "page", "drawn"} => InPlace

Order == Alone => Ordered

\* The view as it was, and then these numbers.
Adds(numbers) ==
    /\ numbers \in Seq(Nat)
    /\ blocks' \in Seq(Blocks) /\ Len(blocks') = Len(blocks) + Len(numbers)
    /\ \A i \in 1 .. Len(blocks) : blocks'[i] = blocks[i]
    /\ \A i \in 1 .. Len(numbers) : blocks'[Len(blocks) + i].n = numbers[i]

LEMMA AddsDraws ==
    ASSUME blocks \in Seq(Blocks), NEW numbers, Adds(numbers), NEW b \in ToSet(blocks')
    PROVE  b \in ToSet(blocks) \/ \E i \in 1 .. Len(numbers) : b.n = numbers[i]
<1> DEFINE L == Len(blocks)
           N == Len(numbers)
<1>1. /\ L \in Nat /\ N \in Nat
      /\ DOMAIN blocks = 1 .. L /\ DOMAIN blocks' = 1 .. L + N
  BY DEF Adds
<1>2. PICK i \in 1 .. L + N : blocks'[i] = b
  BY <1>1 DEF ToSet
<1> HIDE DEF L, N
<1>3. CASE i <= L
  <2>1. i \in 1 .. L
    BY <1>1, <1>3
  <2>2. b = blocks[i]
    BY <1>2, <2>1 DEF Adds, L
  <2>3. QED
    BY <1>1, <2>1, <2>2 DEF ToSet
<1>4. CASE i > L
  <2>1. i - L \in 1 .. N /\ L + (i - L) = i
    BY <1>1, <1>4
  <2>2. blocks'[L + (i - L)].n = numbers[i - L]
    BY <2>1 DEF Adds, L, N
  <2>3. QED
    BY <1>2, <2>1, <2>2 DEF N
<1>5. QED
  BY <1>1, <1>3, <1>4

\* What was drawn goes on being a message, or none.
LEMMA DrawnAsItWas ==
    ASSUME Safe, Safe', Grows, UNCHANGED <<open, last>>, NEW b \in ToSet(blocks)
    PROVE  /\ b.n \in MessageNumbers' <=> b.n \in MessageNumbers
           /\ b.n \in Nat
<1>1. b \in Blocks
  BY DEF Safe, ViewInv, ViewTypes, ToSet
<1>2. CASE b.n = 0
  BY <1>2 DEF MessageNumbers
<1>3. CASE b.n # 0
  <2>1. last # None /\ b.n \in 1 .. Len(said[open])
    BY <1>3 DEF Safe, ViewInv, BlocksFit
  <2>2. PICK s \in Sessions : s = open /\ s = open'
    BY <2>1 DEF Safe, ViewInv, OpenFits
  <2>3. said[s]'[b.n] = said[s][b.n]
    BY <2>1, <2>2 DEF Grows
  <2>4. QED
    BY <1>1, <2>2, <2>3 DEF MessageNumbers, Blocks
<1>4. QED
  BY <1>2, <1>3

\* Numbers in order, after messages that may stand before them.
LEMMA AddsInOrder ==
    ASSUME Safe, Safe', Grows, UNCHANGED <<open, last>>, InPlace,
           NEW ahead, NEW twice, overtaken \subseteq ahead, ahead = overtaken',
           twice = Twice, twice = Twice',
           NEW numbers, Adds(numbers),
           \A i, j \in 1 .. Len(numbers) :
                i < j /\ numbers[i] \in MessageNumbers' /\ numbers[j] \in MessageNumbers' =>
                    Precedes(numbers[i], numbers[j], ahead, twice),
           \A b \in ToSet(blocks), i \in 1 .. Len(numbers) :
                b.n \in MessageNumbers /\ numbers[i] \in MessageNumbers' =>
                    Precedes(b.n, numbers[i], ahead, twice)
    PROVE  InPlace'
<1> DEFINE L == Len(blocks)
           N == Len(numbers)
<1>1. /\ L \in Nat /\ N \in Nat
      /\ DOMAIN blocks = 1 .. L /\ DOMAIN blocks' = 1 .. L + N
  BY DEF Adds, Safe, ViewInv, ViewTypes
<1>2. \A i \in 1 .. L : blocks'[i] = blocks[i] /\ blocks[i] \in ToSet(blocks)
  BY <1>1 DEF Adds, ToSet
<1>3. \A i \in 1 .. N : blocks'[L + i].n = numbers[i]
  BY DEF Adds
<1>5. \A b \in ToSet(blocks) : b.n \in MessageNumbers' <=> b.n \in MessageNumbers
  BY DrawnAsItWas
<1>6. \A i, j \in 1 .. L :
        i < j /\ blocks[i].n \in MessageNumbers /\ blocks[j].n \in MessageNumbers =>
            Precedes(blocks[i].n, blocks[j].n, ahead, twice)
  BY <1>1 DEF InPlace, Precedes
<1> HIDE DEF L
<1>7. ASSUME NEW i \in 1 .. L + N, NEW j \in 1 .. L + N, i < j,
             blocks'[i].n \in MessageNumbers', blocks'[j].n \in MessageNumbers'
      PROVE  Precedes(blocks'[i].n, blocks'[j].n, ahead, twice)
  <2>1. CASE j <= L
    <3>1. i \in 1 .. L /\ j \in 1 .. L
      BY <1>1, <1>7, <2>1
    <3>2. QED
      BY <1>2, <1>5, <1>6, <1>7, <3>1
  <2>2. CASE i <= L /\ L < j
    <3> DEFINE k == j - L
    <3>1. i \in 1 .. L /\ k \in 1 .. N /\ L + k = j
      BY <1>1, <1>7, <2>2
    <3> HIDE DEF k
    <3>2. blocks'[j].n = numbers[k] /\ blocks'[i] = blocks[i] /\ blocks[i] \in ToSet(blocks)
      BY <1>2, <1>3, <3>1
    <3>3. blocks[i].n \in MessageNumbers /\ numbers[k] \in MessageNumbers'
      BY <1>5, <1>7, <3>2
    <3>4. QED
      BY <3>1, <3>2, <3>3
  <2>3. CASE L < i
    <3> DEFINE h == i - L
               k == j - L
    <3>1. h \in 1 .. N /\ k \in 1 .. N /\ L + k = j /\ L + h = i /\ h < k
      BY <1>1, <1>7, <2>3
    <3> HIDE DEF h, k
    <3>2. blocks'[j].n = numbers[k] /\ blocks'[i].n = numbers[h]
      BY <1>3, <3>1
    <3>3. numbers[h] \in MessageNumbers' /\ numbers[k] \in MessageNumbers'
      BY <1>7, <3>2
    <3>4. QED
      BY <3>1, <3>2, <3>3
  <2>4. QED
    BY <1>1, <2>1, <2>2, <2>3
<1>8. QED
  BY <1>1, <1>7 DEF InPlace, Precedes

\* A step that adds notes at most.
LEMMA OrderKept ==
    ASSUME Safe, Safe', Grows, Order, UNCHANGED <<open, last, rivals, overtaken, seq>>,
           blocks' \in Seq(Blocks), Len(blocks) <= Len(blocks'),
           \A i \in 1 .. Len(blocks) : blocks'[i] = blocks[i],
           \A i \in 1 .. Len(blocks') : i > Len(blocks) => blocks'[i].n = 0,
           last # None => \/ task'[last] = task[last]
                          \/ task'[last].pc \in {"idle", "refused"}
                          \/ task'[last].pc \in Early /\ task[last].pc \in Early
    PROVE  Order'
<1> SUFFICES ASSUME Alone'  PROVE Ordered'
  BY DEF Order
<1>1. Alone /\ last # None /\ Ordered
  BY DEF Alone, Order
<1> DEFINE L == Len(blocks)
           M == Len(blocks')
<1>2. L \in Nat /\ M \in Nat /\ DOMAIN blocks = 1 .. L /\ DOMAIN blocks' = 1 .. M
  BY DEF Safe, ViewInv, ViewTypes
<1>3. PICK s \in Sessions : s = open /\ s = open'
  BY <1>1 DEF Safe, ViewInv, OpenFits
<1>4. /\ \A b \in ToSet(blocks) : b.n \in MessageNumbers' <=> b.n \in MessageNumbers
      /\ 0 \notin MessageNumbers'
  BY DrawnAsItWas DEF MessageNumbers
<1>5. \A i \in 1 .. M : blocks'[i].n \in MessageNumbers' =>
            /\ i \in 1 .. L /\ blocks'[i] = blocks[i] /\ blocks[i] \in ToSet(blocks)
            /\ blocks[i].n \in MessageNumbers
  <2>1. \A i \in 1 .. L : blocks'[i] = blocks[i] /\ blocks[i] \in ToSet(blocks)
    BY <1>2 DEF ToSet
  <2>2. \A i \in 1 .. M : i > L \/ i \in 1 .. L
    BY <1>2
  <2>3. QED
    BY <1>4, <2>1, <2>2
<1>6. \A b \in ToSet(blocks') :
        b.n \in MessageNumbers' => b \in ToSet(blocks) /\ b.n \in MessageNumbers
  BY <1>2, <1>5 DEF ToSet
<1>7. ASSUME InPlace, task'[last] = task[last]  PROVE InPlace'
  <2>1. Twice' = Twice /\ overtaken' = overtaken
    BY <1>7 DEF Twice
  <2>2. ASSUME NEW i \in 1 .. M, NEW j \in 1 .. M, i < j,
               blocks'[i].n \in MessageNumbers', blocks'[j].n \in MessageNumbers'
        PROVE  Precedes(blocks'[i].n, blocks'[j].n, overtaken, Twice)
    BY <1>2, <1>5, <1>7, <2>2 DEF InPlace
  <2>3. QED
    BY <1>2, <2>1, <2>2 DEF InPlace, Precedes
<1>8. ASSUME task'[last] = task[last], NEW b, task[last].pc \in {"paging", "page"},
             \E i \in 1 .. task[last].offset : Transcript(s)[i] = b
      PROVE  \E i \in 1 .. task[last].offset : Transcript(s)'[i] = b
  <2> DEFINE k == task[last].offset
             total == task[last].reply.total
  <2>1. last \in Opens /\ task[last].pc \in Loading
    BY <1>1, <1>8 DEF Safe, ViewInv, ViewTypes, Loading
  <2>2. /\ k < total /\ total <= Cardinality(Written(task[last].session))
        /\ (task[last].session = open <=> last \in Live)
    BY <1>8, <2>1, HeldIsSaid DEF Safe
  <2>3. total <= Cardinality(Written(s))
    BY <1>3, <2>2 DEF Live
  <2>4. k \in Nat /\ total \in Nat
    BY <2>1, TaskTypes DEF Safe, ViewInv
  <2>5. /\ Cardinality(Written(s)) \in Nat
        /\ \A i \in 1 .. Cardinality(Written(s)) : Transcript(s)'[i] = Transcript(s)[i]
    BY TranscriptGrows DEF Safe
  <2> HIDE DEF k, total
  <2>6. \A i \in 1 .. k : i \in 1 .. Cardinality(Written(s))
    BY <2>2, <2>3, <2>4, <2>5
  <2>7. QED
    BY <1>8, <2>5, <2>6 DEF k
<1>9. CASE task'[last] = task[last]
  <2>1. task[last].pc \in Early =>
            \A b \in ToSet(blocks') : b.n \in MessageNumbers' => b.n \in overtaken
    BY <1>1, <1>6 DEF Ordered
  <2>2. task[last].pc \in {"paging", "page"} =>
            \A b \in ToSet(blocks') : b.n \in MessageNumbers' =>
                b.n \in overtaken \/ \E i \in 1 .. task[last].offset : Transcript(open)'[i] = b.n
    <3>1. ASSUME task[last].pc \in {"paging", "page"}, NEW b \in ToSet(blocks'),
                 b.n \in MessageNumbers', b.n \notin overtaken
          PROVE  \E i \in 1 .. task[last].offset : Transcript(s)'[i] = b.n
      <4>1. \E i \in 1 .. task[last].offset : Transcript(s)[i] = b.n
        BY <1>1, <1>3, <1>6, <3>1 DEF Ordered, InHistory
      <4>2. QED
        BY <1>8, <1>9, <3>1, <4>1
    <3>2. Transcript(open)' = Transcript(s)'
      BY <1>3
    <3>3. QED
      BY <3>1, <3>2
  <2>3. task[last].pc = "drawn" =>
            \A b \in ToSet(blocks') : b.n \in MessageNumbers' => b.n \in overtaken \/ b.n <= seq
    BY <1>1, <1>6 DEF Ordered
  <2>4. task[last].pc \in {"paging", "page", "drawn"} => InPlace'
    BY <1>1, <1>7, <1>9 DEF Ordered
  <2>5. task[last].pc \in {"paging", "page"} => task[last].reply.seq <= seq
    BY <1>1 DEF Ordered
  <2>6. UNCHANGED <<last, seq, overtaken>>
    OBVIOUS
  <2>7. QED
    BY <1>9, <2>1, <2>2, <2>3, <2>4, <2>5, <2>6 DEF Ordered, InHistory
<1>10. CASE task'[last].pc \in {"idle", "refused"}
  BY <1>10 DEF Ordered, Early
<1>11. CASE task'[last].pc \in Early /\ task[last].pc \in Early
  BY <1>1, <1>6, <1>11 DEF Ordered, Early
<1>12. QED
  BY <1>1, <1>9, <1>10, <1>11

LEMMA AppendDraws ==
    ASSUME blocks \in Seq(Blocks), NEW s, NEW n, blocks' = Append(blocks, Block(s, n)),
           NEW b \in ToSet(blocks')
    PROVE  b \in ToSet(blocks) \/ b.n = n
<1> DEFINE block == Block(s, n)
           L == Len(blocks)
<1>1. block.n = n
  BY DEF Block
<1>2. blocks' = Append(blocks, block)
  OBVIOUS
<1> HIDE DEF block
<1>3. /\ L \in Nat /\ DOMAIN blocks = 1 .. L /\ DOMAIN blocks' = 1 .. L + 1
      /\ \A i \in 1 .. L : blocks'[i] = blocks[i]
      /\ blocks'[L + 1] = block
  BY <1>2
<1>4. PICK i \in 1 .. L + 1 : blocks'[i] = b
  BY <1>3 DEF ToSet
<1> HIDE DEF L
<1>5. i \in 1 .. L \/ i = L + 1
  BY <1>3
<1>6. QED
  BY <1>1, <1>3, <1>4, <1>5 DEF ToSet

LEMMA AppendAdds ==
    ASSUME blocks \in Seq(Blocks), NEW s \in Sessions, NEW n \in Nat,
           blocks' = Append(blocks, Block(s, n)),
           NEW numbers \in Seq(Nat), Len(numbers) = 1, numbers[1] = n
    PROVE  Adds(numbers)
<1> DEFINE block == Block(s, n)
<1>1. block \in Blocks /\ block.n = n
  BY DEF Block, Blocks
<1>2. blocks' = Append(blocks, block)
  OBVIOUS
<1> HIDE DEF block
<1>3. /\ blocks' \in Seq(Blocks) /\ Len(blocks') = Len(blocks) + 1
      /\ \A i \in 1 .. Len(blocks) : blocks'[i] = blocks[i]
      /\ blocks'[Len(blocks) + 1] = block
  BY <1>1, <1>2
<1>4. QED
  BY <1>1, <1>3 DEF Adds

LEMMA FrameOrdered ==
    ASSUME Safe, Safe', Grows, Order, TakesFrame
    PROVE  Order'
<1> DEFINE f == wire[1]
           new == f.session = open /\ f.n > seq
           ahead == overtaken \cup (IF task[last].pc \in Loading THEN {f.n} ELSE {})
<1>1. /\ UNCHANGED <<hub, task, last, rivals, open, warned>>
      /\ wire \in Seq(Frames) /\ wire # <<>>
      /\ new => /\ f.n \in 1 .. Len(said[open]) /\ seq' = f.n
                /\ overtaken' = ahead
                /\ \/ said[open][f.n] = "turn_complete" /\ blocks' = blocks
                   \/ blocks' = Append(blocks, Block(open, f.n))
      /\ ~new => UNCHANGED <<seq, blocks, overtaken>>
  BY FrameDoes DEF Safe
<1>2. blocks \in Seq(Blocks) /\ seq \in Nat
  BY DEF Safe, ViewInv, ViewTypes
<1>3. CASE ~new
  BY <1>1, <1>2, <1>3, OrderKept
<1>4. CASE new
  <2> SUFFICES ASSUME Alone'  PROVE Ordered'
    BY DEF Order
  <2>1. Alone /\ last # None /\ Ordered /\ last \in Opens
    BY <1>1 DEF Order, Alone, Safe, ViewInv, ViewTypes
  <2>2. /\ MessageNumbers' = MessageNumbers /\ Transcript(open)' = Transcript(open)
        /\ Twice' = Twice
    BY <1>1 DEF MessageNumbers, hub, Transcript, Written, Twice
  <2>3. f.n \in Nat /\ f.n > seq
    BY <1>1, <1>4
  <2>4. \A b \in ToSet(blocks) : b.n \in Nat
    BY <1>1, DrawnAsItWas
  <2>5. overtaken \subseteq ahead /\ (task[last].pc \in Loading => f.n \in ahead)
    OBVIOUS
  <2>6. task[last].pc \in {"paging", "page", "drawn"} =>
            \A b \in ToSet(blocks) : b.n \in MessageNumbers => b.n \in overtaken \/ b.n < f.n
    <3>1. CASE task[last].pc = "drawn"
      BY <1>2, <2>1, <2>3, <2>4, <3>1 DEF Ordered
    <3>2. CASE task[last].pc \in {"paging", "page"}
      <4> DEFINE r == task[last].reply
                 k == task[last].offset
      <4>1. k < r.total /\ ReplyFits(last) /\ (task[last].session = open <=> last \in Live)
        BY <2>1, <3>2, HeldIsSaid DEF Safe, Loading, Pending
      <4>2. task[last].session = open
        BY <4>1 DEF Live
      <4>3. k \in Nat /\ r.total \in Nat /\ r.seq \in Nat /\ r.seq <= seq
        BY <2>1, <3>2, TaskTypes DEF Safe, ViewInv, Ordered
      <4>4. \A i \in 1 .. r.total : Transcript(open)[i] <= r.seq
        BY <4>1, <4>2 DEF ReplyFits
      <4> HIDE DEF k, r
      <4>5. \A i \in 1 .. k : Transcript(open)[i] <= r.seq
        BY <4>1, <4>3, <4>4 DEF k, r
      <4>6. ASSUME NEW b \in ToSet(blocks), b.n \in MessageNumbers, b.n \notin overtaken
            PROVE  b.n < f.n
        <5>1. PICK i \in 1 .. k : Transcript(open)[i] = b.n
          BY <2>1, <3>2, <4>6 DEF Ordered, InHistory, k
        <5>2. b.n <= r.seq /\ b.n \in Nat
          BY <2>4, <4>5, <5>1
        <5>3. QED
          BY <1>2, <2>3, <4>3, <5>2
      <4>7. QED
        BY <4>6
    <3>3. QED
      BY <3>1, <3>2
  <2>7. \A b \in ToSet(blocks') : b \in ToSet(blocks) \/ b.n = f.n
    <3>1. CASE blocks' = blocks
      BY <3>1
    <3>2. CASE blocks' = Append(blocks, Block(open, f.n))
      BY <1>2, <3>2, AppendDraws
    <3>3. QED
      BY <1>1, <1>4, <3>1, <3>2
  <2>8. task[last].pc \in {"paging", "page", "drawn"} => InPlace'
    <3> SUFFICES ASSUME task[last].pc \in {"paging", "page", "drawn"}  PROVE InPlace'
      OBVIOUS
    <3>1. InPlace
      BY <2>1 DEF Ordered
    <3>2. overtaken' = ahead
      BY <1>1, <1>4
    <3> HIDE DEF ahead
    <3>3. CASE blocks' = blocks
      <4>1. UNCHANGED <<blocks, open, last>>
        BY <1>1, <3>3
      <4>2. QED
        BY <2>2, <2>5, <3>1, <3>2, <4>1 DEF InPlace, Precedes
    <3>4. CASE blocks' = Append(blocks, Block(open, f.n))
      <4> DEFINE numbers == <<f.n>>
      <4>1. numbers \in Seq(Nat) /\ Len(numbers) = 1 /\ numbers[1] = f.n
        BY <2>3
      <4> HIDE DEF numbers
      <4>2. Adds(numbers)
        <5>1. open \in Sessions
          BY <2>1 DEF Safe, ViewInv, OpenFits
        <5>2. QED
          BY <1>2, <2>3, <3>4, <4>1, <5>1, AppendAdds
      <4>3. \A i, j \in 1 .. Len(numbers) :
                i < j /\ numbers[i] \in MessageNumbers' /\ numbers[j] \in MessageNumbers' =>
                    Precedes(numbers[i], numbers[j], ahead, Twice)
        BY <4>1
      <4>4. \A b \in ToSet(blocks), i \in 1 .. Len(numbers) :
                b.n \in MessageNumbers /\ numbers[i] \in MessageNumbers' =>
                    Precedes(b.n, numbers[i], ahead, Twice)
        <5>1. \A b \in ToSet(blocks) : b.n \in MessageNumbers => b.n \in overtaken \/ b.n < f.n
          BY <2>6
        <5>2. QED
          BY <2>5, <4>1, <5>1 DEF Precedes
      <4>5. UNCHANGED <<open, last>>
        BY <1>1
      <4>6. QED
        BY <2>2, <2>5, <3>1, <3>2, <4>2, <4>3, <4>4, <4>5, AddsInOrder
    <3>5. QED
      BY <1>1, <1>4, <3>3, <3>4
  <2>9. /\ seq' = f.n /\ overtaken' = ahead
        /\ task' = task /\ last' = last /\ open' = open
    BY <1>1, <1>4
  <2> HIDE DEF ahead, new
  <2>10. CASE task[last].pc \in Loading
    <3>1. \A b \in ToSet(blocks') : b.n \in MessageNumbers' =>
                b.n \in ahead \/ (b \in ToSet(blocks) /\ b.n \in MessageNumbers)
      BY <2>2, <2>5, <2>7, <2>10
    <3>2. task[last].pc \in Early =>
            \A b \in ToSet(blocks') : b.n \in MessageNumbers' => b.n \in ahead
      BY <2>1, <2>5, <3>1 DEF Ordered
    <3>3. task[last].pc \in {"paging", "page"} =>
            \A b \in ToSet(blocks') : b.n \in MessageNumbers' => b.n \in ahead \/ InHistory(b.n)
      BY <2>1, <2>5, <3>1 DEF Ordered
    <3>4. task[last].pc \in {"paging", "page"} => task[last].reply.seq <= f.n
      <4>1. task[last].reply.seq \in Nat
        BY <2>1, TaskTypes DEF Safe, ViewInv
      <4>2. task[last].pc \in {"paging", "page"} => task[last].reply.seq <= seq
        BY <2>1 DEF Ordered
      <4>3. QED
        BY <1>2, <2>3, <4>1, <4>2
    <3>5. task[last].pc # "drawn"
      BY <2>10 DEF Loading
    <3>6. QED
      BY <2>2, <2>8, <2>9, <3>2, <3>3, <3>4, <3>5 DEF Ordered, InHistory
  <2>11. CASE task[last].pc = "drawn"
    <3>1. \A b \in ToSet(blocks') : b.n \in MessageNumbers' => b.n \in ahead \/ b.n <= f.n
      BY <2>2, <2>3, <2>4, <2>5, <2>6, <2>7, <2>11
    <3>2. QED
      BY <2>8, <2>9, <2>11, <3>1 DEF Ordered, Early
  <2>12. CASE task[last].pc \notin Loading \cup {"drawn"}
    BY <2>9, <2>12 DEF Ordered, Early, Loading
  <2>13. QED
    BY <2>10, <2>11, <2>12
<1>5. QED
  BY <1>3, <1>4

LEMMA OpeningOrdered ==
    ASSUME Safe, NEW o \in Opens, NEW s \in Sessions, Opening(o, s)
    PROVE  Order'
<1>1. /\ last' = o
      /\ task' = [task EXCEPT ![o] =
            IF up' THEN [NoTask EXCEPT !.pc = "calling", !.session = s] ELSE Refused]
      /\ blocks' = IF up' THEN <<>> ELSE <<Note(s)>>
  BY DEF Opening
<1>2. task'[o].pc \in {"calling", "refused"}
  <2> DEFINE t == [NoTask EXCEPT !.pc = "calling", !.session = s]
  <2>1. t.pc = "calling" /\ Refused.pc = "refused"
    BY CallingFacts, RefusedFacts
  <2>2. task'[o] = IF up' THEN t ELSE Refused
    BY <1>1 DEF Safe, ViewInv, ViewTypes
  <2> HIDE DEF t
  <2>3. QED
    BY <2>1, <2>2
<1>3. \A b \in ToSet(blocks') : b.n = 0
  <2>1. CASE up'
    <3>1. blocks' = <<>>
      BY <1>1, <2>1
    <3>2. QED
      BY <3>1 DEF ToSet
  <2>2. CASE ~up'
    <3> DEFINE note == Note(s)
    <3>1. note.n = 0
      BY DEF Note, Block
    <3> HIDE DEF note
    <3>2. blocks' = <<note>>
      BY <1>1, <2>2 DEF note
    <3>3. QED
      BY <3>1, <3>2 DEF ToSet
  <2>3. QED
    BY <2>1, <2>2
<1>4. 0 \notin MessageNumbers'
  BY DEF MessageNumbers
<1>5. QED
  BY <1>1, <1>2, <1>3, <1>4 DEF Order, Ordered, Early

LEMMA DropOrdered ==
    ASSUME Safe, Safe', Grows, Order, ConnectionDrops
    PROVE  Order'
<1>1. /\ UNCHANGED <<last, rivals, open, seq, overtaken>>
      /\ \A o \in Opens : task'[o] = IF task[o].pc \in Loading THEN NoTask ELSE task[o]
      /\ blocks' \in Seq(Blocks) /\ Len(blocks) <= Len(blocks')
      /\ \A i \in 1 .. Len(blocks) : blocks'[i] = blocks[i]
      /\ \A i \in 1 .. Len(blocks') : i > Len(blocks) => blocks'[i].n = 0
  BY DropDoes DEF Safe
<1>2. NoTask.pc = "idle"
  BY NoTaskFacts
<1>3. last # None => task'[last] = task[last] \/ task'[last].pc \in {"idle", "refused"}
  BY <1>1, <1>2 DEF Safe, ViewInv, ViewTypes
<1>4. QED
  BY <1>1, <1>3, OrderKept

\* Moves that add a note at most.
LEMMA QuietOrdered ==
    ASSUME Safe, Safe', Grows, Order, NEW o \in Opens,
           \/ CountsHistory(o) \/ Attaches(o) \/ AttachFails(o) \/ Leaves(o)
           \/ ReadsPage(o) /\ o # last
    PROVE  Order'
<1>1. UNCHANGED <<open, last, rivals, overtaken, seq>> /\ task[o].pc \in Loading
  BY DEF CountsHistory, Attaches, AttachFails, Leaves, ReadsPage, view, ghosts, Loading
<1>2. /\ blocks' \in Seq(Blocks) /\ Len(blocks) <= Len(blocks')
      /\ \A i \in 1 .. Len(blocks) : blocks'[i] = blocks[i]
      /\ \A i \in 1 .. Len(blocks') : i > Len(blocks) => blocks'[i].n = 0
  <2>1. blocks \in Seq(Blocks) /\ Len(blocks) \in Nat
    BY DEF Safe, ViewInv, ViewTypes
  <2>2. CASE AttachFails(o)
    <3>1. blocks' = Append(blocks, Note(task[o].session)) /\ task[o].session \in Sessions
      BY <1>1, <2>2, HeldIsSaid DEF AttachFails, Safe
    <3>2. /\ blocks' \in Seq(Blocks) /\ Len(blocks') = Len(blocks) + 1
          /\ \A i \in 1 .. Len(blocks) : blocks'[i] = blocks[i]
          /\ blocks'[Len(blocks) + 1].n = 0
      BY <2>1, <3>1, NoteDoes
    <3>3. QED
      BY <2>1, <3>2
  <2>3. CASE ~AttachFails(o)
    <3>1. blocks' = blocks
      BY <2>3 DEF CountsHistory, Attaches, Leaves, ReadsPage, view
    <3>2. QED
      BY <2>1, <3>1
  <2>4. QED
    BY <2>2, <2>3
<1>3. /\ \A p \in Opens \ {o} : task'[p] = task[p]
      /\ \/ task'[o].pc \in {"idle", "refused"}
         \/ task'[o].pc \in Early /\ task[o].pc \in Early
         \/ o # last
  <2>1. task[o].session \in Sessions /\ task \in [Opens -> Tasks]
    BY <1>1, HeldIsSaid DEF Safe, ViewInv, ViewTypes
  <2>2. CASE Attaches(o)
    <3>1. task[o].reply.total <= Cardinality(Written(task[o].session))
      BY <1>1, HeldIsSaid DEF Safe
    <3>2. QED
      BY <2>1, <2>2, <3>1, AttachesDoes DEF Safe, ViewInv, Early
  <2>3. CASE AttachFails(o)
    BY <2>1, <2>3, RefusedFacts DEF AttachFails
  <2>4. CASE Leaves(o)
    BY <2>1, <2>4, NoTaskFacts DEF Leaves
  <2>5. CASE ReadsPage(o) /\ o # last
    BY <2>5, ReadKeepsView DEF Safe
  <2>6. CASE CountsHistory(o)
    BY <2>1, <2>6, CountsDoes DEF Safe, ViewInv, Early
  <2>7. QED
    BY <2>2, <2>3, <2>4, <2>5, <2>6
<1>4. last # None => \/ task'[last] = task[last]
                     \/ task'[last].pc \in {"idle", "refused"}
                     \/ task'[last].pc \in Early /\ task[last].pc \in Early
  <2>1. last # None => last \in Opens
    BY DEF Safe, ViewInv, ViewTypes
  <2>2. QED
    BY <1>3, <2>1
<1>5. QED
  BY <1>1, <1>2, <1>4, OrderKept

\* When nothing else has drawn, what draws is the last open.
LEMMA AloneDraws ==
    ASSUME Safe, Order, NEW o \in Opens, task[o].pc \in Loading, open = task[o].session,
           UNCHANGED <<last, rivals>>, Alone'
    PROVE  o = last /\ Alone /\ Ordered
<1>1. Alone
  BY DEF Alone
<1>2. o \in Live
  BY HeldIsSaid DEF Safe
<1>3. QED
  BY <1>1, <1>2 DEF Alone, Live, Order

LEMMA BeginOrdered ==
    ASSUME Safe, Safe', Grows, Order, NEW o \in Opens, Begins(o)
    PROVE  Order'
<1> SUFFICES ASSUME Alone'  PROVE Ordered'
  BY DEF Order
<1>1. /\ task[o].pc = "replied" /\ open = task[o].session
      /\ seq' = task[o].reply.seq
      /\ UNCHANGED <<hub, open, blocks, last, rivals, overtaken>>
  BY DEF Begins, StillOpen, ghosts
<1>2. task'[o].pc = "paging" /\ task'[o].reply = task[o].reply
  BY BeginKeepsView DEF Safe
<1>3. o = last /\ Ordered
  BY <1>1, AloneDraws DEF Loading
<1>4. \A b \in ToSet(blocks) : b.n \in MessageNumbers => b.n \in overtaken
  BY <1>1, <1>3 DEF Ordered, Early
<1>5. MessageNumbers' = MessageNumbers
  BY <1>1 DEF MessageNumbers, hub
<1>6. InPlace'
  <2>1. \A i \in DOMAIN blocks : blocks[i] \in ToSet(blocks)
    BY DEF ToSet
  <2>2. \A i \in DOMAIN blocks : blocks[i].n \in MessageNumbers => blocks[i].n \in overtaken
    BY <1>4, <2>1
  <2>3. QED
    BY <1>1, <1>5, <2>2 DEF InPlace, Precedes
<1>7. task'[last].pc = "paging" /\ task'[last].reply.seq = seq' /\ last' = last
  BY <1>1, <1>2, <1>3
<1>8. seq' \in Nat
  BY DEF Safe, ViewInv, ViewTypes
<1>9. QED
  BY <1>1, <1>4, <1>5, <1>6, <1>7, <1>8 DEF Ordered, Early

LEMMA ReadOrdered ==
    ASSUME Safe, Safe', Grows, Order, NEW o \in Opens, ReadsPage(o), o = last
    PROVE  Order'
<1> SUFFICES ASSUME Alone'  PROVE Ordered'
  BY DEF Order
<1>1. /\ task[o].pc = "paging"
      /\ UNCHANGED <<hub, open, seq, blocks, last, rivals, overtaken>>
  BY DEF ReadsPage, view, ghosts
<1>2. /\ task'[o].pc = "page" /\ task'[o].reply = task[o].reply
      /\ task'[o].offset = task[o].offset
  BY ReadKeepsView DEF Safe
<1>3. Alone /\ Ordered
  BY <1>1 DEF Alone, Order
<1>4. MessageNumbers' = MessageNumbers /\ Transcript(open)' = Transcript(open)
  BY <1>1 DEF MessageNumbers, hub, Transcript, Written
<1>5. InPlace' <=> InPlace
  BY <1>1, <1>2, <1>4 DEF InPlace, Twice
<1>6. QED
  BY <1>1, <1>2, <1>3, <1>4, <1>5 DEF Ordered, InHistory, Early

\* The places of a page in the transcript follow those of the pages before.
LEMMA PagePlaces ==
    ASSUME Safe, NEW o \in Opens, task[o].pc = "page", open = task[o].session
    PROVE  LET k == task[o].offset
               page == task[o].page
           IN  /\ k \in Nat /\ Len(page) \in Nat /\ Len(page) <= PageSize
               /\ \A i \in 1 .. Len(page) : page[i] = Transcript(open)[k + i] /\ page[i] \in Nat
               /\ \A i, j \in 1 .. Len(page) : i < j => page[i] < page[j]
               /\ \A h \in 1 .. k, i \in 1 .. Len(page) : Transcript(open)[h] < page[i]
<1> DEFINE k == task[o].offset
           page == task[o].page
           f == Transcript(open)
           N == Cardinality(Written(open))
<1>1. open \in Sessions /\ PageFits(o) /\ N \in Nat
  BY HeldIsSaid DEF Safe, Loading
<1>2. /\ Len(page) <= PageSize /\ k + Len(page) <= N
      /\ \A i \in 1 .. Len(page) : page[i] = f[k + i]
  BY <1>1 DEF PageFits
<1>3. k \in Nat /\ Len(page) \in Nat /\ page \in Seq(Nat)
  BY TaskTypes DEF Safe, ViewInv
<1>4. \A i, j \in 1 .. N : i < j => f[i] < f[j]
  BY <1>1, TranscriptFacts DEF Safe
<1>5. \A i \in 1 .. Len(page) : page[i] \in Nat
  BY <1>3
<1> HIDE DEF k, page, f, N
<1>6. \A i, j \in 1 .. Len(page) : i < j => page[i] < page[j]
  <2>1. \A i, j \in 1 .. Len(page) :
            k + i \in 1 .. N /\ k + j \in 1 .. N /\ (i < j => k + i < k + j)
    BY <1>1, <1>2, <1>3
  <2>2. QED
    BY <1>2, <1>4, <2>1
<1>7. \A h \in 1 .. k, i \in 1 .. Len(page) : f[h] < page[i]
  <2>1. \A h \in 1 .. k, i \in 1 .. Len(page) : h \in 1 .. N /\ k + i \in 1 .. N /\ h < k + i
    BY <1>1, <1>2, <1>3
  <2>2. QED
    BY <1>2, <1>4, <2>1
<1>8. QED
  BY <1>2, <1>3, <1>5, <1>6, <1>7 DEF k, page, f

\* What a page holds beyond the history that the reply counted.
LEMMA PageAhead ==
    ASSUME Safe, NEW o \in Opens, NEW i \in 1 .. Len(task[o].page),
           task[o].offset < task[o].reply.total
    PROVE  \/ task[o].offset + i \in 1 .. task[o].reply.total
           \/ task[o].page[i] \in Ahead(o)
<1> DEFINE k == task[o].offset
           page == task[o].page
           total == task[o].reply.total
           first == total - k + 1
           rest == SubSeq(page, first, Len(page))
<1>1. /\ k \in Nat /\ total \in Nat /\ page \in Seq(Nat) /\ k < total
  BY TaskTypes DEF Safe, ViewInv
<1> HIDE DEF k, page, total
<1>2. CASE k + i <= total
  BY <1>1, <1>2 DEF k, total, page
<1>3. CASE k + i > total
  <2> DEFINE j == i - first + 1
  <2>1. first \in Nat \ {0} /\ Len(page) \in Nat /\ i \in 1 .. Len(page)
    BY <1>1 DEF page
  <2>2. i >= first
    BY <1>1, <1>3, <2>1
  <2> HIDE DEF first
  <2>3. j \in 1 .. Len(page) - first + 1 /\ first + j - 1 = i
    BY <2>1, <2>2
  <2>4. rest \in Seq(Nat) /\ Len(rest) = Len(page) - first + 1
        /\ \A h \in 1 .. Len(page) - first + 1 : rest[h] = page[first + h - 1]
    BY <1>1, <2>1, <2>2
  <2> HIDE DEF j, rest
  <2>5. rest[j] = page[i] /\ j \in DOMAIN rest
    BY <2>3, <2>4
  <2>6. page[i] \in ToSet(rest)
    BY <2>5 DEF ToSet
  <2>7. QED
    BY <2>6 DEF rest, page, first, total, k, Ahead
<1>4. QED
  BY <1>1, <1>2, <1>3

LEMMA ContinueOrdered ==
    ASSUME Safe, Safe', Grows, Order, NEW o \in Opens, Continues(o)
    PROVE  Order'
<1> SUFFICES ASSUME Alone'  PROVE Ordered'
  BY DEF Order
<1> DEFINE k == task[o].offset
           page == task[o].page
<1>1. /\ task[o].pc = "page" /\ open = task[o].session
      /\ overtaken' = overtaken \cup Ahead(o)
      /\ UNCHANGED <<hub, open, seq, last, rivals>>
  BY DEF Continues, StillOpen
<1>2. /\ task'[o].pc = "paging" /\ task'[o].reply = task[o].reply
      /\ task'[o].offset = k + PageSize
      /\ Len(blocks') = Len(blocks) + Len(page)
      /\ \A i \in 1 .. Len(blocks) : blocks'[i] = blocks[i]
      /\ \A i \in 1 .. Len(page) : blocks'[Len(blocks) + i].n = page[i]
  BY ContinueKeepsView DEF Safe
<1>3. o = last /\ Ordered
  BY <1>1, AloneDraws DEF Loading
<1>4. /\ task[o].reply.seq <= seq /\ InPlace
      /\ \A b \in ToSet(blocks) : b.n \in MessageNumbers =>
                b.n \in overtaken \/ \E i \in 1 .. k : Transcript(open)[i] = b.n
  BY <1>1, <1>3 DEF Ordered, InHistory
<1>5. MessageNumbers' = MessageNumbers /\ Transcript(open)' = Transcript(open)
  BY <1>1 DEF MessageNumbers, hub, Transcript, Written
<1>6. Adds(page)
  <2>1. blocks' \in Seq(Blocks)
    BY DEF Safe, ViewInv, ViewTypes
  <2>2. page \in Seq(Nat)
    BY TaskTypes DEF Safe, ViewInv
  <2>3. QED
    BY <1>2, <2>1, <2>2 DEF Adds
<1>7. /\ k \in Nat /\ Len(page) \in Nat /\ Len(page) <= PageSize /\ PageSize \in Nat
      /\ \A i \in 1 .. Len(page) : page[i] = Transcript(open)[k + i]
      /\ \A i, j \in 1 .. Len(page) : i < j => page[i] < page[j]
      /\ \A h \in 1 .. k, i \in 1 .. Len(page) : Transcript(open)[h] < page[i]
  BY <1>1, PagePlaces, ClientAssumption
<1>8. blocks \in Seq(Blocks)
  BY DEF Safe, ViewInv, ViewTypes
<1>9. UNCHANGED <<open, last>> /\ overtaken \subseteq overtaken' /\ Twice' = Twice
  BY <1>1, <1>2, <1>3 DEF Twice
<1> HIDE DEF k, page
<1>10. InPlace'
  <2>1. \A b \in ToSet(blocks), i \in 1 .. Len(page) :
            b.n \in MessageNumbers /\ page[i] \in MessageNumbers' =>
                Precedes(b.n, page[i], overtaken', Twice)
    BY <1>4, <1>7, <1>9 DEF Precedes
  <2>2. \A i, j \in 1 .. Len(page) :
            i < j /\ page[i] \in MessageNumbers' /\ page[j] \in MessageNumbers' =>
                Precedes(page[i], page[j], overtaken', Twice)
    BY <1>7 DEF Precedes
  <2>3. QED
    BY <1>4, <1>6, <1>9, <2>1, <2>2, AddsInOrder
<1>11. ASSUME NEW b \in ToSet(blocks'), b.n \in MessageNumbers', b.n \notin overtaken'
       PROVE  \E i \in 1 .. k + PageSize : Transcript(open)[i] = b.n
  <2>1. b \in ToSet(blocks) \/ \E i \in 1 .. Len(page) : b.n = page[i]
    BY <1>6, <1>8, AddsDraws
  <2>2. CASE b \in ToSet(blocks)
    <3>1. PICK i \in 1 .. k : Transcript(open)[i] = b.n
      BY <1>4, <1>5, <1>9, <1>11, <2>2
    <3>2. i \in 1 .. k + PageSize
      BY <1>7
    <3>3. QED
      BY <3>1, <3>2
  <2>3. CASE \E i \in 1 .. Len(page) : b.n = page[i]
    <3>1. PICK i \in 1 .. Len(page) : b.n = page[i]
      BY <2>3
    <3>2. k + i \in 1 .. k + PageSize
      BY <1>7
    <3>3. QED
      BY <1>7, <3>1, <3>2
  <2>4. QED
    BY <2>1, <2>2, <2>3
<1>12. QED
  BY <1>1, <1>2, <1>3, <1>4, <1>5, <1>10, <1>11 DEF Ordered, InHistory, Early

\* A message that may stand before those of the replay.
BeforeReplay(o, m) ==
    \A n \in ToSet(task[o].reply.replay) : n \in MessageNumbers =>
        Precedes(m, n, {}, task[o].reply.again)

\* The last numbers an open draws: after what it drew before, the rest of the history,
\* the replay and the asks, which are no messages.
LEMMA EndOrdered ==
    ASSUME Safe, Safe', Grows, Order, NEW o \in Opens, NEW history, Ends(o, history), o = last,
           seq' \in {seq, task[o].reply.seq} \cup ToSet(task[o].reply.replay),
           InPlace,
           NEW ahead, overtaken \subseteq ahead, ahead = overtaken',
           \A n \in ToSet(task[o].reply.replay) : n <= seq',
           \A b \in ToSet(blocks) : b.n \in MessageNumbers =>
                \/ b.n \in ahead
                \/ /\ b.n <= seq'
                   /\ \A i \in 1 .. Len(history) : b.n < history[i]
                   /\ BeforeReplay(o, b.n),
           \A i, j \in 1 .. Len(history) : i < j => history[i] < history[j],
           \A i \in 1 .. Len(history) :
                history[i] \in ahead \/ (history[i] <= seq' /\ BeforeReplay(o, history[i]))
    PROVE  Order'
<1> DEFINE r == task[o].reply
           numbers == HistoryFirst(o, history)
           texts == Texts(open, r.replay)
           asks == Ascending(r.asks)
           H == Len(history)
           T == Len(texts)
           A == Len(asks)
<1>1. /\ task[o].pc \in Pending /\ task[o].pc \in Loading /\ open = task[o].session
      /\ history \in Seq(Nat) /\ \A n \in ToSet(history) : n \in 1 .. Len(said[open])
      /\ Draws(o, numbers) /\ Done(o)
      /\ warned' \in BOOLEAN
      /\ UNCHANGED <<hub, open, last, rivals>>
  BY DEF Ends, Pending, Loading
<1>2. /\ task'[o].pc = "drawn" /\ task'[o].reply.again = task[o].reply.again
      /\ Len(blocks') = Len(blocks) + Len(numbers)
      /\ \A i \in 1 .. Len(blocks) : blocks'[i] = blocks[i]
      /\ \A i \in 1 .. Len(numbers) : blocks'[Len(blocks) + i].n = numbers[i]
  <2>1. HubInv /\ HubInv' /\ ViewInv
    BY DEF Safe
  <2>2. QED
    BY <1>1, <2>1, EndKeepsView
<1>3. open \in Sessions /\ ReplyFits(o)
  BY <1>1, HeldIsSaid DEF Safe
<1>4. /\ numbers \in Seq(Nat) /\ texts \in Seq(Nat) /\ asks \in Seq(Nat)
      /\ ToSet(texts) = Replayed(open, o) /\ ToSet(asks) = r.asks
      /\ Len(numbers) = H + T + A
      /\ \A i \in 1 .. H : numbers[i] = history[i]
      /\ \A i \in 1 .. T : numbers[H + i] = texts[i]
      /\ \A i \in 1 .. A : numbers[H + T + i] = asks[i]
      /\ \A i, j \in 1 .. T : i < j => texts[i] < texts[j]
  <2>1. HubInv /\ ViewInv
    BY DEF Safe
  <2>2. task[o].pc \in Pending /\ open = task[o].session /\ history \in Seq(Nat)
    BY <1>1
  <2>3. PICK s \in Sessions : s = open /\ s = task[o].session
    BY <1>1, <1>3
  <2>4. EndsInOrder(o, s, history)
    BY <2>1, <2>2, <2>3, LastIsInOrder
  <2>5. EndsInOrder(o, open, history)
    BY <2>3, <2>4
  <2>6. QED
    BY <2>5 DEF EndsInOrder
<1> HIDE DEF numbers, texts, asks
<1>5. MessageNumbers' = MessageNumbers
  BY <1>1 DEF MessageNumbers, hub
<1>6. \A i \in 1 .. T : texts[i] \in ToSet(r.replay)
  <2>1. \A i \in 1 .. T : texts[i] \in ToSet(texts)
    <3>1. DOMAIN texts = 1 .. T
      BY <1>4
    <3>2. QED
      BY <3>1 DEF ToSet
  <2>2. QED
    BY <1>4, <2>1 DEF Replayed
<1>7. \A i \in 1 .. A : asks[i] \notin MessageNumbers
  <2>1. \A i \in 1 .. A : asks[i] \in ToSet(asks)
    <3>1. DOMAIN asks = 1 .. A
      BY <1>4
    <3>2. QED
      BY <3>1 DEF ToSet
  <2>2. \A n \in r.asks : said[open][n] = "prompt"
    BY <1>1, <1>3 DEF ReplyFits
  <2>3. QED
    BY <1>4, <2>1, <2>2 DEF MessageNumbers, InMessage
<1>8. H \in Nat /\ T \in Nat /\ A \in Nat
  BY <1>1, <1>4
<1>9. blocks \in Seq(Blocks) /\ blocks' \in Seq(Blocks)
  BY DEF Safe, ViewInv, ViewTypes
<1> HIDE DEF H, T, A, r
<1>10. Adds(numbers)
  BY <1>2, <1>4, <1>9 DEF Adds
<1>11. \A i \in 1 .. Len(numbers) : numbers[i] \in MessageNumbers =>
            \/ i \in 1 .. H /\ numbers[i] = history[i]
            \/ i - H \in 1 .. T /\ numbers[i] = texts[i - H]
  <2>1. ASSUME NEW i \in 1 .. Len(numbers), numbers[i] \in MessageNumbers
        PROVE  \/ i \in 1 .. H /\ numbers[i] = history[i]
               \/ i - H \in 1 .. T /\ numbers[i] = texts[i - H]
    <3>1. CASE i <= H
      <4>1. i \in 1 .. H
        BY <1>8, <3>1
      <4>2. QED
        BY <1>4, <4>1
    <3>2. CASE H < i /\ i <= H + T
      <4> DEFINE j == i - H
      <4>1. j \in 1 .. T /\ H + j = i
        BY <1>8, <3>2
      <4> HIDE DEF j
      <4>2. numbers[i] = texts[j]
        BY <1>4, <4>1
      <4>3. QED
        BY <4>1, <4>2 DEF j
    <3>3. CASE H + T < i
      <4> DEFINE j == i - (H + T)
      <4>1. j \in 1 .. A /\ H + T + j = i
        BY <1>4, <1>8, <3>3
      <4> HIDE DEF j
      <4>2. numbers[i] = asks[j]
        BY <1>4, <4>1
      <4>3. QED
        BY <1>7, <2>1, <4>1, <4>2
    <3>4. QED
      BY <1>8, <3>1, <3>2, <3>3
  <2>2. QED
    BY <2>1
<1>12. \A i \in 1 .. Len(numbers) : numbers[i] \in MessageNumbers =>
            numbers[i] \in ahead \/ numbers[i] <= seq'
  <2>1. \A i \in 1 .. H : history[i] \in ahead \/ history[i] <= seq'
    BY <1>1 DEF H
  <2>2. \A i \in 1 .. T : texts[i] <= seq'
    BY <1>4, <1>6 DEF r, T
  <2>3. QED
    BY <1>11, <2>1, <2>2
<1> DEFINE twice == r.again
<1> HIDE DEF twice
<1>13. ASSUME NEW m, m \in ahead \/ BeforeReplay(o, m),
              NEW h \in 1 .. T, texts[h] \in MessageNumbers
       PROVE  Precedes(m, texts[h], ahead, twice)
  <2>1. texts[h] \in ToSet(task[o].reply.replay)
    BY <1>6 DEF r
  <2>2. QED
    BY <1>13, <2>1 DEF BeforeReplay, Precedes, twice, r
<1>14. \A i, j \in 1 .. Len(numbers) :
            i < j /\ numbers[i] \in MessageNumbers' /\ numbers[j] \in MessageNumbers' =>
                Precedes(numbers[i], numbers[j], ahead, twice)
  <2> SUFFICES ASSUME NEW i \in 1 .. Len(numbers), NEW j \in 1 .. Len(numbers), i < j,
                      numbers[i] \in MessageNumbers, numbers[j] \in MessageNumbers
               PROVE  Precedes(numbers[i], numbers[j], ahead, twice)
    BY <1>5
  <2>1. CASE j \in 1 .. H /\ numbers[j] = history[j]
    <3>1. i \in 1 .. H /\ numbers[i] = history[i]
      BY <1>8, <1>11, <2>1
    <3>2. QED
      BY <2>1, <3>1 DEF H, Precedes
  <2>2. CASE j - H \in 1 .. T /\ numbers[j] = texts[j - H]
    <3>1. CASE i \in 1 .. H /\ numbers[i] = history[i]
      <4>1. history[i] \in ahead \/ BeforeReplay(o, history[i])
        BY <3>1 DEF H
      <4>2. QED
        BY <1>13, <2>2, <3>1, <4>1
    <3>2. CASE i - H \in 1 .. T /\ numbers[i] = texts[i - H]
      <4>1. i - H < j - H
        BY <1>8
      <4>2. QED
        BY <1>4, <2>2, <3>2, <4>1 DEF Precedes
    <3>3. QED
      BY <1>11, <3>1, <3>2
  <2>3. QED
    BY <1>11, <2>1, <2>2
<1>15. \A b \in ToSet(blocks), i \in 1 .. Len(numbers) :
            b.n \in MessageNumbers /\ numbers[i] \in MessageNumbers' =>
                Precedes(b.n, numbers[i], ahead, twice)
  <2> SUFFICES ASSUME NEW b \in ToSet(blocks), NEW i \in 1 .. Len(numbers),
                      b.n \in MessageNumbers, numbers[i] \in MessageNumbers
               PROVE  Precedes(b.n, numbers[i], ahead, twice)
    BY <1>5
  <2>1. b.n \in ahead \/ \A h \in 1 .. H : b.n < history[h]
    BY DEF H
  <2>2. b.n \in ahead \/ BeforeReplay(o, b.n)
    OBVIOUS
  <2>3. CASE i \in 1 .. H /\ numbers[i] = history[i]
    BY <2>1, <2>3 DEF Precedes
  <2>4. CASE i - H \in 1 .. T /\ numbers[i] = texts[i - H]
    BY <1>13, <2>2, <2>4
  <2>5. QED
    BY <1>11, <2>3, <2>4
<1>16. InPlace'
  <2>1. UNCHANGED <<open, last>>
    BY <1>1
  <2>2. twice = Twice /\ twice = Twice'
    BY <1>2, <2>1 DEF Twice, twice, r
  <2>3. QED
    BY <1>10, <1>15, <1>14, <2>1, <2>2, AddsInOrder
<1>17. \A b \in ToSet(blocks') : b.n \in MessageNumbers' => b.n \in overtaken' \/ b.n <= seq'
  <2>1. \A b \in ToSet(blocks') :
            b \in ToSet(blocks) \/ \E i \in 1 .. Len(numbers) : b.n = numbers[i]
    BY <1>9, <1>10, AddsDraws
  <2>2. QED
    BY <1>5, <1>12, <2>1
<1>18. task'[last'].pc = "drawn"
  BY <1>1, <1>2
<1>19. QED
  BY <1>16, <1>17, <1>18 DEF Order, Ordered, Early

LEMMA EndAtOnceOrdered ==
    ASSUME Safe, Safe', Grows, Order, NEW o \in Opens, EndsAtOnce(o)
    PROVE  Order'
<1> SUFFICES ASSUME Alone'  PROVE Order'
  BY DEF Order
<1>1. /\ Ends(o, <<>>) /\ task[o].pc = "replied" /\ task[o].pc \in Loading
      /\ seq' = task[o].reply.seq /\ overtaken' = overtaken
  BY EndsAtOnceIs DEF Safe, Loading
<1>2. open = task[o].session /\ UNCHANGED <<last, rivals>>
  BY <1>1 DEF Ends
<1>3. o = last /\ Ordered
  BY <1>1, <1>2, AloneDraws
<1>4. \A b \in ToSet(blocks) : b.n \in MessageNumbers => b.n \in overtaken
  BY <1>1, <1>3 DEF Ordered, Early
<1>5. InPlace
  <2>1. \A i \in DOMAIN blocks : blocks[i] \in ToSet(blocks)
    BY DEF ToSet
  <2>2. \A i \in DOMAIN blocks : blocks[i].n \in MessageNumbers => blocks[i].n \in overtaken
    BY <1>4, <2>1
  <2>3. QED
    BY <2>2 DEF InPlace, Precedes
<1>6. \A n \in ToSet(task[o].reply.replay) : n <= seq'
  <2>1. ReplyFits(o)
    BY <1>1, HeldIsSaid DEF Safe, Pending
  <2>2. QED
    BY <1>1, <2>1 DEF ReplyFits
<1>7. 1 .. Len(<<>>) = {}
  OBVIOUS
<1>8. QED
  BY <1>1, <1>3, <1>4, <1>5, <1>6, <1>7, EndOrdered

LEMMA EndWithPageOrdered ==
    ASSUME Safe, Safe', Grows, Order, NEW o \in Opens, EndsWithPage(o)
    PROVE  Order'
<1> SUFFICES ASSUME Alone'  PROVE Order'
  BY DEF Order
<1> DEFINE k == task[o].offset
           page == task[o].page
           total == task[o].reply.total
           replay == task[o].reply.replay
           f == Transcript(open)
<1>1. /\ Ends(o, page) /\ task[o].pc = "page" /\ task[o].pc \in Loading
      /\ seq' \in {seq} \cup ToSet(replay) /\ seq <= seq'
      /\ \A n \in ToSet(replay) : n <= seq'
      /\ overtaken' = overtaken \cup Ahead(o)
  BY EndsWithPageIs DEF Safe, Loading
<1>2. open = task[o].session /\ UNCHANGED <<last, rivals>>
  BY <1>1 DEF Ends
<1>3. o = last /\ Ordered
  BY <1>1, <1>2, AloneDraws
<1>4. UNCHANGED hub /\ ReplyFits(o) /\ k < total
  BY <1>1, HeldIsSaid DEF Safe, Pending, Ends
<1>5. /\ task[o].reply.seq <= seq /\ InPlace
      /\ \A b \in ToSet(blocks) : b.n \in MessageNumbers =>
                b.n \in overtaken \/ \E h \in 1 .. k : f[h] = b.n
  BY <1>1, <1>3 DEF Ordered, InHistory
<1>6. /\ k \in Nat /\ Len(page) \in Nat
      /\ \A i \in 1 .. Len(page) : page[i] = f[k + i] /\ page[i] \in Nat
      /\ \A i, j \in 1 .. Len(page) : i < j => page[i] < page[j]
      /\ \A h \in 1 .. k, i \in 1 .. Len(page) : f[h] < page[i]
  BY <1>1, <1>2, PagePlaces
<1>7. total \in Nat /\ task[o].reply.seq \in Nat
  BY TaskTypes DEF Safe, ViewInv
<1>8. seq \in Nat /\ seq' \in Nat
  BY DEF Safe, ViewInv, ViewTypes
<1>9. \A b \in ToSet(blocks) : b.n \in Nat
  <2>1. blocks \in Seq(Blocks)
    BY DEF Safe, ViewInv, ViewTypes
  <2>2. \A b \in ToSet(blocks) : b \in Blocks
    BY <2>1 DEF ToSet
  <2>3. QED
    BY <2>2 DEF Blocks
<1>10. \A i \in 1 .. total : f[i] <= task[o].reply.seq /\ BeforeReplay(o, f[i])
  <2>1. \A n \in MessageNumbers : said[open][n] \in InMessage
    BY DEF MessageNumbers
  <2>2. QED
    BY <1>2, <1>4, <2>1 DEF ReplyFits, BeforeReplay, Precedes
<1>11. \A i \in 1 .. Len(page) : k + i \in 1 .. total \/ page[i] \in Ahead(o)
  BY <1>4, PageAhead
<1> HIDE DEF k, page, total, replay, f
<1>12. ASSUME NEW n \in Nat, NEW i \in 1 .. total, f[i] = n
       PROVE  n <= seq' /\ BeforeReplay(o, n)
  <2>1. n <= task[o].reply.seq /\ BeforeReplay(o, n)
    BY <1>10, <1>12
  <2>2. QED
    BY <1>1, <1>5, <1>7, <1>8, <2>1
<1>13. \A b \in ToSet(blocks) : b.n \in MessageNumbers =>
            \/ b.n \in overtaken'
            \/ /\ b.n <= seq'
               /\ \A i \in 1 .. Len(page) : b.n < page[i]
               /\ BeforeReplay(o, b.n)
  <2> SUFFICES ASSUME NEW b \in ToSet(blocks), b.n \in MessageNumbers, b.n \notin overtaken'
               PROVE  /\ b.n <= seq' /\ BeforeReplay(o, b.n)
                      /\ \A i \in 1 .. Len(page) : b.n < page[i]
    OBVIOUS
  <2>1. PICK h \in 1 .. k : f[h] = b.n
    BY <1>1, <1>5
  <2>2. h \in 1 .. total
    BY <1>4, <1>6, <1>7 DEF k, total
  <2>3. QED
    BY <1>6, <1>9, <1>12, <2>1, <2>2
<1>14. \A i \in 1 .. Len(page) :
            page[i] \in overtaken' \/ (page[i] <= seq' /\ BeforeReplay(o, page[i]))
  <2> SUFFICES ASSUME NEW i \in 1 .. Len(page), page[i] \notin overtaken'
               PROVE  page[i] <= seq' /\ BeforeReplay(o, page[i])
    OBVIOUS
  <2>1. k + i \in 1 .. total
    BY <1>1, <1>11
  <2>2. page[i] \in Nat /\ f[k + i] = page[i]
    BY <1>6
  <2>3. QED
    BY <1>12, <2>1, <2>2
<1>15. /\ Ends(o, page) /\ o = last /\ InPlace /\ overtaken \subseteq overtaken'
       /\ seq' \in {seq, task[o].reply.seq} \cup ToSet(task[o].reply.replay)
       /\ \A n \in ToSet(task[o].reply.replay) : n <= seq'
       /\ \A i, j \in 1 .. Len(page) : i < j => page[i] < page[j]
  BY <1>1, <1>3, <1>5, <1>6 DEF replay
<1>16. QED
  BY <1>13, <1>14, <1>15, EndOrdered

LEMMA NextOrders ==
    ASSUME Safe, Order, [Next]_vars
    PROVE  Order'
<1>1. Safe' /\ Grows
  BY NextKeeps
<1>2. blocks \in Seq(Blocks) /\ Len(blocks) \in Nat
  BY DEF Safe, ViewInv, ViewTypes
<1>3. ASSUME UNCHANGED <<task, view, ghosts>>  PROVE Order'
  <2>1. UNCHANGED <<task, open, last, rivals, overtaken, seq, blocks>>
    BY <1>3 DEF view, ghosts
  <2>2. QED
    BY <1>1, <1>2, <2>1, OrderKept
<1>4. CASE Idles
  BY <1>3, <1>4 DEF Idles
<1>5. ASSUME NEW s \in Sessions, Hub(s)  PROVE Order'
  <2>1. UNCHANGED <<task, view, ghosts>>
    BY <1>5, HubKeeps DEF Safe
  <2>2. QED
    BY <1>3, <2>1
<1>6. CASE Opened
  BY <1>6, OpeningOrdered DEF Opened
<1>7. ASSUME NEW o \in Opens, Moves(o)  PROVE Order'
  <2>1. CASE ReadsPage(o) /\ o = last
    BY <1>1, <2>1, ReadOrdered
  <2>2. CASE \/ CountsHistory(o) \/ Attaches(o) \/ AttachFails(o) \/ Leaves(o)
             \/ ReadsPage(o) /\ o # last
    BY <1>1, <2>2, QuietOrdered
  <2>3. QED
    BY <1>1, <1>7, <2>1, <2>2, BeginOrdered, ContinueOrdered, EndAtOnceOrdered,
       EndWithPageOrdered DEF Moves
<1>8. CASE TakesFrame
  BY <1>1, <1>8, FrameOrdered
<1>9. CASE ConnectionDrops
  BY <1>1, <1>9, DropOrdered
<1>10. QED
  BY <1>4, <1>5, <1>6, <1>7, <1>8, <1>9, NextDoes

LEMMA InPlaceAscends ==
    ASSUME Safe, Order, last # None, task[last].pc = "drawn", rivals = {}
    PROVE  Ascends(overtaken, task[last].reply.again)
<1>1. InPlace
  BY DEF Order, Ordered, Alone
<1>2. \A i \in DOMAIN blocks : blocks[i].n \in Nat
  <2>1. \A i \in DOMAIN blocks : blocks[i] \in Blocks
    BY DEF Safe, ViewInv, ViewTypes
  <2>2. QED
    BY <2>1 DEF Blocks
<1>3. \A i \in DOMAIN blocks : IsMessage(blocks[i]) <=> blocks[i].n \in MessageNumbers
  BY <1>2 DEF IsMessage, MessageNumbers
<1>4. QED
  BY <1>1, <1>3 DEF InPlace, Precedes, Twice, Ascends

\* In the view of an open that had no rival the messages stand in the order they were
\* said in, but for those drawn while it was loading and those the hub's reply told twice:
\* openSession's history before the replay, and the numbers of the replay and of the frames
\* against state.seq, keep the order whatever page or frame comes when.
THEOREM MessagesStandInOrder == Spec => []InOrderUnlessOvertaken
<1>1. Init => Safe /\ Order
  <2>1. Init => last = None
    BY DEF Init
  <2>2. QED
    BY <2>1, InitIsSafe DEF Order, Alone
<1>2. Safe /\ Order /\ [Next]_vars => Safe' /\ Order'
  BY NextKeeps, NextOrders
<1>3. Safe /\ Order => InOrderUnlessOvertaken
  BY InPlaceAscends DEF Order, Ordered, Alone, InOrderUnlessOvertaken
<1>4. QED
  BY <1>1, <1>2, <1>3, PTL DEF Spec
=============================================================================
