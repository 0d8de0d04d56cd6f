--------------------------- MODULE ChatScreenProofs ---------------------------
(***************************************************************************)
(* A chat screen on top of the send path takes nothing away from it: every *)
(* behaviour of ChatScreen is one of MessageFanOut, whose theorems hold    *)
(* with a screen attached to it.  And the screen keeps the order of the    *)
(* messages, for any users, messages and number of faults.                 *)
(***************************************************************************)
EXTENDS ChatScreen, MessageFanOutProofs, FiniteSetTheorems

-----------------------------------------------------------------------------
(* The inductive invariant of the screen, on top of that of the send path.  *)

\* The viewer's write at place a is its copy of m.
At(a, m) == log[Viewer][a] = Copy(m)

\* A date was given out once, and the cache has it from the copy that is shown.
Dates ==
    /\ cached \in [Messages -> Nat]
    /\ \A v, w \in Writes : stamp[v] = stamp[w] /\ stamp[v] # 0 => v = w
    /\ \A m \in Messages \ Exchanged : cached[m] = 0
    /\ \A m \in Exchanged : cached[m] <= stamp[Copy(m)]
    /\ \A m \in Exchanged, w \in Writes :
         stamp[w] = cached[m] /\ cached[m] # 0 => w = Copy(m)
    /\ \A m, n \in Exchanged : cached[m] = cached[n] /\ cached[m] # 0 => m = n

\* What a view holds back is the viewer's own, acknowledged and dated.
HeldBack ==
    /\ held # {} => listening
    /\ \A m \in held : /\ m \in Exchanged /\ cached[m] # 0
                       /\ Copy(m) \notin refused
                       /\ \E a \in 1 .. acked[Viewer] : At(a, m)

\* An acknowledged write has its last date, and the cache knows it.
CaughtUp ==
    \A a \in 1 .. acked[Viewer] : \A m \in Exchanged :
        At(a, m) => Copy(m) \in refused \/ cached[m] = stamp[Copy(m)]

\* What is applied behind a write the cache is late for, it is late for as well.
LateTogether ==
    \A b \in 1 .. applied[Viewer] : \A a \in 1 .. b - 1 : \A m, n \in Exchanged :
        At(a, m) /\ At(b, n) /\ cached[m] < stamp[Copy(m)]
            => \/ Copy(m) \in refused \/ Copy(n) \in refused
               \/ cached[n] < stamp[Copy(n)]

\* What is acknowledged behind a message held back is held back as well.
HeldTogether ==
    \A b \in 1 .. applied[Viewer] : \A a \in 1 .. b - 1 : \A m, n \in Exchanged :
        At(a, m) /\ At(b, n) /\ m \in held
            => \/ Copy(n) \in refused \/ n \in held
               \/ acked[Viewer] < b /\ cached[n] < stamp[Copy(n)]

\* A reply stands, is dated, is cached and is held back behind what it answers.
RepliesBehind ==
    \A m, n \in Exchanged : Copy(n) \in kept[m] =>
        /\ \A a, b \in 1 .. Len(log[Viewer]) : At(a, m) /\ At(b, n) => b < a
        /\ cached[m] # 0 =>
             /\ stamp[Copy(n)] < cached[m]
             /\ From[n] = Viewer => \/ Copy(n) \in refused
                                    \/ cached[n] = stamp[Copy(n)]
             /\ n \in held => m \in held

\* Life cycle and text field.
Life ==
    /\ screen \in {"closed", "open", "leaving"}
    /\ listening \in BOOLEAN /\ (listening => screen = "open")
    /\ failed \in BOOLEAN
    /\ field \in {"", "text"} /\ sendBtn = (field # "")

\* A listed message was sent, and the view has it or the server refused it.
Listed ==
    /\ listaMensagens \in Seq(Exchanged) /\ rows \in Seq(Exchanged)
    /\ \A m \in Exchanged, i \in DOMAIN listaMensagens :
         listaMensagens[i] = m => m \in sent /\ (Copy(m) \in refused \/ m \in Matching)

\* The viewer's own part of ShownInOrder.
OwnInOrder ==
    \A m, n \in Exchanged, i, j \in DOMAIN listaMensagens :
        \A b \in 1 .. Len(log[Viewer]) : \A a \in 1 .. b - 1 :
            i < j /\ listaMensagens[i] = m /\ listaMensagens[j] = n
                  /\ At(a, m) /\ At(b, n)
                => Copy(m) \in refused \/ Copy(n) \in refused

\* The part of ReplyShownBelow that an old list keeps.
RepliesListed ==
    \A m, n \in Exchanged, i, j \in DOMAIN listaMensagens :
        i < j /\ listaMensagens[i] = n /\ listaMensagens[j] = m /\ Copy(n) \in kept[m]
            => From[n] = Viewer /\ From[m] = Other /\ Copy(n) \notin basis[m]

ChatOf == chat \in Users \X Users /\ chat[1] # chat[2]

CacheInv == Dates /\ HeldBack /\ CaughtUp /\ LateTogether /\ HeldTogether /\ RepliesBehind

ScreenInv == Life /\ Listed /\ OwnInOrder /\ RowsMatchMessages /\ RepliesListed

ChatInductive == Inductive /\ ChatOf /\ CacheInv /\ ScreenInv

-----------------------------------------------------------------------------
(* The documents of a snapshot.                                            *)

\* The number of places of a listing is that of the elements.

LEMMA SameCount == ASSUME NEW S PROVE Seqs!Cardinality(S) = Cardinality(S)
BY DEF Seqs!Cardinality, Cardinality

(* Finitely many documents can be listed in any strict order: each goes to *)
(* the place that the number of those before it gives.                     *)
LEMMA Sortable ==
    ASSUME NEW S, IsFiniteSet(S), NEW R,
           \A x \in S : <<x, x>> \notin R,
           \A x, y, z \in S : <<x, y>> \in R /\ <<y, z>> \in R => <<x, z>> \in R,
           \A x, y \in S : x # y => <<x, y>> \in R \/ <<y, x>> \in R
    PROVE  \E q \in Seqs!SetToSeqs(S) :
               \A i, j \in DOMAIN q : i < j => <<q[j], q[i]>> \notin R
<1> DEFINE n == Cardinality(S)
           Upto(x) == {y \in S : y = x \/ <<y, x>> \in R}
           f == [x \in S |-> Cardinality(Upto(x))]
<1>1. n \in Nat
  BY FS_CardinalityType
<1>2. ASSUME NEW x \in S
      PROVE  /\ IsFiniteSet(Upto(x)) /\ Cardinality(Upto(x)) \in Nat
             /\ Cardinality(Upto(x)) <= n /\ Cardinality(Upto(x)) >= 1
  <2> DEFINE B == Upto(x)
  <2>1. B \in SUBSET S /\ x \in B
    OBVIOUS
  <2> HIDE DEF B
  <2>2. IsFiniteSet(B) /\ Cardinality(B) <= n /\ Cardinality(B) \in Nat
    BY <2>1, FS_Subset, FS_CardinalityType
  <2>3. Cardinality(B) # 0
    BY <2>1, <2>2, FS_EmptySet
  <2>4. Cardinality(B) >= 1
    BY <2>2, <2>3
  <2> QED
    BY <2>2, <2>4 DEF B
<1>3. ASSUME NEW x \in S, NEW y \in S, <<x, y>> \in R
      PROVE  Cardinality(Upto(x)) < Cardinality(Upto(y))
  <2> DEFINE A == Upto(x)
             B == Upto(y)
  <2>1. y \notin A
    BY <1>3
  <2>2. A \subseteq B /\ y \in B
    BY <1>3
  <2>3. IsFiniteSet(B) /\ Cardinality(A) \in Nat /\ Cardinality(B) \in Nat
    BY <1>2
  <2> HIDE DEF A, B
  <2>4. Cardinality(A) <= Cardinality(B) /\ Cardinality(A) # Cardinality(B)
    BY <2>1, <2>2, <2>3, FS_Subset
  <2>5. Cardinality(A) < Cardinality(B)
    BY <2>3, <2>4
  <2> QED
    BY <2>5 DEF A, B
<1>4. f \in [S -> 1 .. n]
  <2>1. \A x \in S : Cardinality(Upto(x)) \in 1 .. n
    <3> TAKE x \in S
    <3> QED
      BY <1>1, <1>2
  <2> QED
    BY <2>1
<1>5. \A x, y \in S : <<x, y>> \in R => f[x] < f[y]
  BY <1>3
<1> HIDE DEF f
<1>6. f \in Injection(S, 1 .. n)
  <2>1. \A x, y \in S : f[x] = f[y] => x = y
    <3> SUFFICES ASSUME NEW x \in S, NEW y \in S, x # y PROVE f[x] # f[y]
      OBVIOUS
    <3>1. f[x] \in Int /\ f[y] \in Int
      BY <1>4
    <3>2. f[x] < f[y] \/ f[y] < f[x]
      BY <1>5
    <3> QED
      BY <3>1, <3>2
  <2> QED
    BY <1>4, <2>1 DEF Injection, IsInjective
<1>7. IsFiniteSet(1 .. n) /\ Cardinality(1 .. n) = n
  BY <1>1, FS_Interval
<1> HIDE DEF n
<1>8. f \in Surjection(S, 1 .. n)
  BY <1>6, <1>7, FS_Injection DEF n
<1>9. \A i \in 1 .. n : \E x \in S : f[x] = i
  BY <1>8 DEF Surjection
<1> DEFINE q == [i \in 1 .. n |-> CHOOSE x \in S : f[x] = i]
<1>10. q \in [1 .. n -> S] /\ DOMAIN q = 1 .. n /\ \A i \in 1 .. n : f[q[i]] = i
  BY <1>9
<1> HIDE DEF q
<1>11. \A i, j \in 1 .. n : i # j => q[i] # q[j]
  BY <1>10
<1>12. q \in Seqs!SetToSeqs(S)
  BY <1>10, <1>11, SameCount DEF Seqs!SetToSeqs, n
<1>13. ASSUME NEW i \in 1 .. n, NEW j \in 1 .. n, i < j, <<q[j], q[i]>> \in R
       PROVE  FALSE
  <2>1. q[i] \in S /\ q[j] \in S /\ f[q[i]] = i /\ f[q[j]] = j
    BY <1>10
  <2>2. j < i
    BY <1>5, <1>13, <2>1
  <2> QED
    BY <1>1, <1>13, <2>2
<1> QED
  BY <1>10, <1>12, <1>13

(* A list of each element of a finite set once has all of them.            *)
LEMMA ListHasAll ==
    ASSUME NEW S, IsFiniteSet(S), NEW q \in Seqs!SetToSeqs(S)
    PROVE  /\ q \in Seq(S)
           /\ \A x \in S : \E i \in DOMAIN q : q[i] = x
           /\ \A i, j \in DOMAIN q : q[i] = q[j] => i = j
<1> DEFINE n == Cardinality(S)
<1>1. n \in Nat
  BY FS_CardinalityType
<1>2. q \in [1 .. n -> S] /\ \A i, j \in 1 .. n : q[i] = q[j] => i = j
  BY SameCount DEF Seqs!SetToSeqs
<1>3. IsFiniteSet(1 .. n) /\ Cardinality(1 .. n) = n
  BY <1>1, FS_Interval
<1>4. q \in Injection(1 .. n, S)
  BY <1>2 DEF Injection, IsInjective
<1> HIDE DEF n
<1>5. q \in Surjection(1 .. n, S)
  BY <1>3, <1>4, FS_Injection DEF n
<1> QED
  BY <1>1, <1>2, <1>5 DEF Surjection

\* A message whose date is an estimate: of this device, not yet seen again.
Estimated(m) == Pending(m) \/ m \in held

LEMMA NewerByKind ==
    ASSUME NEW m, NEW n
    PROVE  /\ Estimated(m) /\ Estimated(n) => (Newer(m, n) <=> Position(m) > Position(n))
           /\ Estimated(m) /\ ~Estimated(n) => Newer(m, n)
           /\ ~Estimated(m) /\ Estimated(n) => ~Newer(m, n)
           /\ ~Estimated(m) /\ ~Estimated(n) => (Newer(m, n) <=> cached[m] > cached[n])
BY DEF Newer, Estimated

LEMMA CopyFacts ==
    ASSUME ChatOf, NEW m \in Exchanged
    PROVE  /\ m \in Messages /\ Viewer \in Users /\ Other \in Users /\ Viewer # Other
           /\ Copy(m) \in Writes /\ Copy(m)[1] = m
           /\ From[m] \in {Viewer, Other}
           /\ From[m] = Viewer => Copy(m) = <<m, 1>>
           /\ From[m] = Other => Copy(m) = <<m, 2>>
BY DEF ChatOf, Exchanged, Viewer, Other, Copy, Writes, Steps

\* One copy stands at one place of the viewer's log, and is the viewer's.
LEMMA PlaceOf ==
    ASSUME TypeOK, LogInv, ChatOf, NEW m \in Exchanged,
           NEW p \in 1 .. Len(log[Viewer]), At(p, m)
    PROVE  /\ From[m] = Viewer
           /\ Position(m) = p
           /\ \A q \in 1 .. Len(log[Viewer]) : At(q, m) => q = p
<1>1. Viewer \in Users /\ Copy(m)[1] = m
  BY CopyFacts
<1>2. Len(log[Viewer]) \in Nat /\ DOMAIN log[Viewer] = 1 .. Len(log[Viewer])
  <2>1. log[Viewer] \in Seq(Writes)
    BY <1>1 DEF TypeOK
  <2> QED
    BY <2>1
<1>3. From[m] = Viewer
  BY <1>1 DEF LogInv, At
<1>4. ASSUME NEW q \in 1 .. Len(log[Viewer]), At(q, m), q # p PROVE FALSE
  <2>1. q \in 1 .. p - 1 \/ p \in 1 .. q - 1
    BY <1>2, <1>4
  <2> QED
    BY <1>1, <1>4, <2>1 DEF LogInv, At
<1>5. Position(m) = CHOOSE i \in 1 .. Len(log[Viewer]) : At(i, m)
  BY <1>2 DEF Position, At
<1> QED
  BY <1>3, <1>4, <1>5, Zenon

\* Two messages have two places.
LEMMA PlacesDiffer ==
    ASSUME ChatOf, NEW m \in Exchanged, NEW n \in Exchanged, NEW p, At(p, m), At(p, n)
    PROVE  m = n
<1>1. Copy(m)[1] = m /\ Copy(n)[1] = n
  BY CopyFacts
<1>2. Copy(m) = Copy(n)
  BY DEF At
<1> QED
  BY <1>1, <1>2

LEMMA EstimatedPlace ==
    ASSUME Inductive, ChatOf, HeldBack, NEW m \in Exchanged, Estimated(m)
    PROVE  /\ Position(m) \in 1 .. Len(log[Viewer])
           /\ At(Position(m), m)
           /\ From[m] = Viewer
<1>1. Viewer \in Users /\ TypeOK /\ LogInv
  BY CopyFacts DEF Inductive
<1>2. /\ persisted[Viewer] \in Nat /\ acked[Viewer] \in Nat /\ Len(log[Viewer]) \in Nat
      /\ acked[Viewer] <= Len(log[Viewer]) /\ persisted[Viewer] <= Len(log[Viewer])
  <2>1. /\ persisted[Viewer] \in Nat /\ applied[Viewer] \in Nat /\ acked[Viewer] \in Nat
        /\ acked[Viewer] <= applied[Viewer] /\ applied[Viewer] <= persisted[Viewer]
        /\ persisted[Viewer] <= Len(log[Viewer]) /\ Len(log[Viewer]) \in Nat
    BY <1>1, Cursors
  <2> QED
    BY <2>1
<1>3. \E p \in 1 .. Len(log[Viewer]) : At(p, m)
  <2>1. CASE Pending(m)
    <3>1. PICK p \in acked[Viewer] + 1 .. persisted[Viewer] : log[Viewer][p] = Copy(m)
      BY <2>1 DEF Pending
    <3> QED
      BY <1>2, <3>1 DEF At
  <2>2. CASE m \in held
    <3>1. PICK p \in 1 .. acked[Viewer] : At(p, m)
      BY <2>2 DEF HeldBack
    <3> QED
      BY <1>2, <3>1
  <2> QED
    BY <2>1, <2>2 DEF Estimated
<1> QED
  BY <1>1, <1>3, PlaceOf

(* The query's order is strict and total on what it matches: no two dates   *)
(* and no two places in the queue are the same.                            *)
LEMMA NewerOrders ==
    ASSUME Inductive, ChatOf, CacheInv,
           NEW x \in Matching, NEW y \in Matching, NEW z \in Matching
    PROVE  /\ ~Newer(x, x)
           /\ Newer(x, y) /\ Newer(y, z) => Newer(x, z)
           /\ x # y => Newer(x, y) \/ Newer(y, x)
<1>1. ASSUME NEW m \in Matching PROVE
        /\ m \in Exchanged
        /\ Estimated(m) => Position(m) \in Nat /\ At(Position(m), m)
        /\ ~Estimated(m) => cached[m] \in Nat /\ cached[m] # 0
  <2>1. m \in Exchanged /\ m \in Messages
    BY CopyFacts DEF Matching
  <2>2. Estimated(m) => Position(m) \in Nat /\ At(Position(m), m)
    BY <2>1, EstimatedPlace DEF CacheInv
  <2>3. ~Estimated(m) => cached[m] \in Nat /\ cached[m] # 0
    BY <2>1 DEF Matching, Estimated, CacheInv, Dates
  <2> QED
    BY <2>1, <2>2, <2>3
<1>2. x # y /\ Estimated(x) /\ Estimated(y) => Position(x) # Position(y)
  BY <1>1, PlacesDiffer
<1>3. x # y /\ ~Estimated(x) /\ ~Estimated(y) => cached[x] # cached[y]
  BY <1>1 DEF CacheInv, Dates
<1>4. ~Newer(x, x)
  BY <1>1, NewerByKind
<1>5. Newer(x, y) /\ Newer(y, z) => Newer(x, z)
  <2>1. CASE Estimated(x) /\ Estimated(y) /\ Estimated(z)
    BY <1>1, <2>1, NewerByKind
  <2>2. CASE ~Estimated(x) /\ ~Estimated(y) /\ ~Estimated(z)
    BY <1>1, <2>2, NewerByKind
  <2>3. CASE ~(Estimated(x) /\ Estimated(y) /\ Estimated(z))
             /\ ~(~Estimated(x) /\ ~Estimated(y) /\ ~Estimated(z))
    BY <2>3, NewerByKind
  <2> QED
    BY <2>1, <2>2, <2>3
<1>6. x # y => Newer(x, y) \/ Newer(y, x)
  <2> SUFFICES ASSUME x # y PROVE Newer(x, y) \/ Newer(y, x)
    OBVIOUS
  <2>1. CASE Estimated(x) /\ Estimated(y)
    BY <1>1, <1>2, <2>1, NewerByKind
  <2>2. CASE ~Estimated(x) /\ ~Estimated(y)
    BY <1>1, <1>3, <2>2, NewerByKind
  <2>3. CASE ~(Estimated(x) <=> Estimated(y))
    BY <2>3, NewerByKind
  <2> QED
    BY <2>1, <2>2, <2>3
<1> QED
  BY <1>4, <1>5, <1>6

(* A snapshot has every document the query matches, none behind an older.   *)
LEMMA ViewLists ==
    ASSUME Inductive, ChatOf, CacheInv
    PROVE  /\ View \in Seq(Exchanged)
           /\ \A i \in DOMAIN View : View[i] \in Matching
           /\ \A m \in Matching : \E i \in DOMAIN View : View[i] = m
           /\ \A i, j \in DOMAIN View : i < j => ~Newer(View[j], View[i])
           /\ \A i, j \in DOMAIN View : View[i] = View[j] => i = j
<1> DEFINE R == {p \in Matching \X Matching : Newer(p[1], p[2])}
           Sorted(q) == \A i, j \in DOMAIN q : i < j => ~Newer(q[j], q[i])
           S == Matching
<1>1. IsFiniteSet(S)
  <2>1. S \subseteq Messages
    BY DEF Matching, Exchanged
  <2> QED
    BY <2>1, ChatAssumption, FS_Subset
<1>2. \A x, y \in S : <<x, y>> \in R <=> Newer(x, y)
  OBVIOUS
<1>3. \A x, y, z \in S : /\ ~Newer(x, x)
                         /\ Newer(x, y) /\ Newer(y, z) => Newer(x, z)
                         /\ x # y => Newer(x, y) \/ Newer(y, x)
  BY NewerOrders
<1>4. View = CHOOSE q \in Seqs!SetToSeqs(S) : Sorted(q)
  BY Zenon DEF View
<1>5. S \subseteq Exchanged
  BY DEF Matching
<1> HIDE DEF R, S
<1>6. PICK q \in Seqs!SetToSeqs(S) : \A i, j \in DOMAIN q : i < j => <<q[j], q[i]>> \notin R
  <2>1. /\ \A x \in S : <<x, x>> \notin R
        /\ \A x, y, z \in S : <<x, y>> \in R /\ <<y, z>> \in R => <<x, z>> \in R
        /\ \A x, y \in S : x # y => <<x, y>> \in R \/ <<y, x>> \in R
    BY <1>2, <1>3
  <2> QED
    BY <1>1, <2>1, Sortable
<1>7. \A i \in DOMAIN q : q[i] \in S
  <2>1. q \in Seq(S)
    BY <1>1, ListHasAll
  <2> QED
    BY <2>1
<1>8. Sorted(q)
  BY <1>2, <1>6, <1>7
<1> HIDE DEF Sorted
<1>9. View \in Seqs!SetToSeqs(S) /\ Sorted(View)
  BY <1>4, <1>6, <1>8, Zenon
<1>10. /\ View \in Seq(S) /\ \A m \in S : \E i \in DOMAIN View : View[i] = m
       /\ \A i, j \in DOMAIN View : View[i] = View[j] => i = j
  BY <1>1, <1>9, ListHasAll
<1>11. View \in Seq(Exchanged) /\ \A i \in DOMAIN View : View[i] \in S
  BY <1>5, <1>10
<1> QED
  BY <1>9, <1>10, <1>11 DEF Sorted, S

-----------------------------------------------------------------------------
(* What a step of the send path may do to the log and the dates of a user.  *)

\* No write is dated again by a step of the log it is in before the cursor.
LEMMA LogEffect ==
    ASSUME Inductive, [Next]_vars, NEW v \in Users
    PROVE  /\ \A x \in 1 .. persisted[v] : log'[v][x] = log[v][x]
           /\ applied'[v] \in Nat /\ acked'[v] \in Nat /\ persisted'[v] \in Nat
           /\ acked'[v] <= applied'[v] /\ applied'[v] <= persisted[v]
           /\ persisted[v] <= persisted'[v] /\ acked[v] <= acked'[v]
           /\ sent \subseteq sent' /\ refused \subseteq refused'
           /\ Acknowledge(v) \/ \A x \in 1 .. acked'[v] : x > acked[v] => log[v][x] \in refused'
<1>1. TypeOK /\ TypeOK' /\ LogInv
  BY TypeStep DEF Inductive
<1>2. /\ persisted[v] \in Nat /\ applied[v] \in Nat /\ acked[v] \in Nat
      /\ acked[v] <= applied[v] /\ applied[v] <= persisted[v]
      /\ persisted[v] <= Len(log[v]) /\ Len(log[v]) \in Nat
  BY <1>1, Cursors
<1>3. /\ applied'[v] \in Nat /\ acked'[v] \in Nat /\ persisted'[v] \in Nat
      /\ acked'[v] <= applied'[v]
  BY <1>1 DEF TypeOK
<1>4. Len(log'[v]) \in Nat
  <2>1. log'[v] \in Seq(Writes)
    BY <1>1 DEF TypeOK
  <2> QED
    BY <2>1
<1>5. \A x \in 1 .. persisted[v] : log'[v][x] = log[v][x]
  <2>1. ASSUME NEW m \in Messages, ActionPushMessage(m)
        PROVE  \A x \in 1 .. persisted[v] : log'[v][x] = log[v][x]
    BY <1>1, <1>2, <2>1, PushLog
  <2>2. ASSUME NEW u \in Users, Crash(u)
        PROVE  \A x \in 1 .. persisted[v] : log'[v][x] = log[v][x]
    <3>1. /\ persisted[v] <= Len(log'[v])
          /\ \A i \in 1 .. Len(log'[v]) : log'[v][i] = log[v][i]
      BY <1>1, <2>2, CrashLog
    <3> QED
      BY <1>2, <1>4, <3>1
  <2> QED
    BY <2>1, <2>2, LogKept
<1>6. sent \subseteq sent' /\ refused \subseteq refused'
  BY DEF Next, vars, ActionPushMessage, WriteLocally, Commit, Acknowledge, Refuse,
         BreakStream, Crash
<1>7. persisted[v] <= persisted'[v]
  <2>1. persisted' = persisted \/ \E u \in Users : WriteLocally(u)
    BY DEF Next, vars, device, ActionPushMessage, Commit, Acknowledge, Refuse,
           BreakStream, Crash
  <2>2. ASSUME NEW u \in Users, WriteLocally(u) PROVE persisted[v] <= persisted'[v]
    <3>1. persisted' = [persisted EXCEPT ![u] = persisted[u] + 1]
      BY <2>2 DEF WriteLocally
    <3>2. persisted'[v] = IF v = u THEN persisted[v] + 1 ELSE persisted[v]
      BY <1>1, <3>1 DEF TypeOK
    <3> QED
      BY <1>2, <3>2
  <2> QED
    BY <1>2, <2>1, <2>2
<1>8. /\ acked[v] <= acked'[v]
      /\ Acknowledge(v) \/ \A x \in 1 .. acked'[v] : x > acked[v] => log[v][x] \in refused'
  <2>1. acked' = acked \/ \E u \in Users : Acknowledge(u) \/ Refuse(u)
    BY DEF Next, vars, device, ActionPushMessage, WriteLocally, Commit, BreakStream, Crash
  <2>2. CASE acked' = acked
    BY <1>2, <2>2
  <2>3. ASSUME NEW u \in Users, Acknowledge(u)
        PROVE  /\ acked[v] <= acked'[v]
               /\ Acknowledge(v) \/ acked'[v] = acked[v]
    <3>1. acked' = [acked EXCEPT ![u] = acked[u] + 1]
      BY <2>3 DEF Acknowledge
    <3>2. acked'[v] = IF v = u THEN acked[v] + 1 ELSE acked[v]
      BY <1>1, <3>1 DEF TypeOK
    <3>3. CASE v = u
      BY <1>2, <2>3, <3>2, <3>3
    <3>4. CASE v # u
      BY <1>2, <3>2, <3>4
    <3> QED
      BY <3>3, <3>4
  <2>4. ASSUME NEW u \in Users, Refuse(u)
        PROVE  /\ acked[v] <= acked'[v]
               /\ \A x \in 1 .. acked'[v] : x > acked[v] => log[v][x] \in refused'
    <3>1. /\ acked' = [acked EXCEPT ![u] = acked[u] + 1]
          /\ acked[u] = applied[u] /\ refused' = refused \cup {log[u][applied[u] + 1]}
      BY <2>4 DEF Refuse
    <3>2. CASE u = v
      <4>1. acked'[v] = acked[v] + 1
        BY <1>1, <3>1, <3>2 DEF TypeOK
      <4>2. \A x \in 1 .. acked'[v] : x > acked[v] => x = acked[v] + 1
        BY <1>2, <4>1
      <4> QED
        BY <1>2, <3>1, <3>2, <4>1, <4>2
    <3>3. CASE u # v
      <4>1. acked'[v] = acked[v]
        BY <1>1, <3>1, <3>3 DEF TypeOK
      <4> QED
        BY <1>2, <4>1
    <3> QED
      BY <3>2, <3>3
  <2>5. acked'[v] = acked[v] =>
           /\ acked[v] <= acked'[v]
           /\ \A x \in 1 .. acked'[v] : ~(x > acked[v])
    BY <1>2
  <2> QED
    BY <2>1, <2>2, <2>3, <2>4, <2>5
<1>9. applied'[v] <= persisted[v]
  <2>1. \/ applied' = applied
        \/ \E u \in Users : \/ applied' = [applied EXCEPT ![u] = acked[u]]
                            \/ /\ applied[u] < persisted[u]
                               /\ applied' = [applied EXCEPT ![u] = @ + 1]
    BY DEF Next, vars, device, ActionPushMessage, WriteLocally, Acknowledge, Commit,
           Refuse, BreakStream, Crash
  <2>2. ASSUME NEW u \in Users, applied' = [applied EXCEPT ![u] = acked[u]]
        PROVE  applied'[v] <= persisted[v]
    <3>1. applied'[v] = IF v = u THEN acked[v] ELSE applied[v]
      BY <1>1, <2>2 DEF TypeOK
    <3> QED
      BY <1>2, <3>1
  <2>3. ASSUME NEW u \in Users, applied[u] < persisted[u],
               applied' = [applied EXCEPT ![u] = @ + 1]
        PROVE  applied'[v] <= persisted[v]
    <3>1. applied'[v] = IF v = u THEN applied[v] + 1 ELSE applied[v]
      BY <1>1, <2>3 DEF TypeOK
    <3> QED
      BY <1>2, <2>3, <3>1
  <2> QED
    BY <1>2, <2>1, <2>2, <2>3
<1> QED
  BY <1>3, <1>5, <1>6, <1>7, <1>8, <1>9

\* A step dates nothing that is applied, and what it applies, or refuses it.
LEMMA DateEffect ==
    ASSUME Inductive, [Next]_vars, NEW v \in Users
    PROVE  /\ \A x \in 1 .. applied[v] : stamp'[log[v][x]] = stamp[log[v][x]]
           /\ \A x \in 1 .. applied'[v] :
                x > applied[v] => log[v][x] \in refused' \/ stamp'[log[v][x]] = clock + 1
<1>1. TypeOK /\ TypeOK' /\ LogInv
  BY TypeStep DEF Inductive
<1>2. /\ persisted[v] \in Nat /\ applied[v] \in Nat /\ acked[v] \in Nat
      /\ acked[v] <= applied[v] /\ applied[v] <= persisted[v]
      /\ persisted[v] <= Len(log[v]) /\ Len(log[v]) \in Nat
      /\ \A x \in 1 .. Len(log[v]) : log[v][x] \in Writes
  BY <1>1, Cursors
<1>3. ASSUME NEW u \in Users, Commit(u)
      PROVE  /\ \A x \in 1 .. applied[v] : stamp'[log[v][x]] = stamp[log[v][x]]
             /\ \A x \in 1 .. applied'[v] : x > applied[v] => stamp'[log[v][x]] = clock + 1
  <2> DEFINE p == applied[u] + 1
             w == log[u][p]
  <2>1. /\ w \in Writes
        /\ applied' = [applied EXCEPT ![u] = p]
        /\ stamp' = [stamp EXCEPT ![w] = clock + 1]
        /\ \A x \in 1 .. Len(log[v]) : log[v][x] = w => v = u /\ x = p
    BY <1>1, <1>3, CommitWrite
  <2>2. \A x \in Writes : stamp'[x] = IF x = w THEN clock + 1 ELSE stamp[x]
    BY <1>1, <2>1 DEF TypeOK
  <2>3. applied'[v] = IF v = u THEN p ELSE applied[v]
    BY <1>1, <2>1 DEF TypeOK
  <2>4. v = u => p = applied[v] + 1 /\ w = log[v][p]
    OBVIOUS
  <2> HIDE DEF w, p
  <2>5. ASSUME NEW x \in 1 .. applied[v] PROVE stamp'[log[v][x]] = stamp[log[v][x]]
    <3>1. x \in 1 .. Len(log[v]) /\ ~(v = u /\ x = p)
      BY <1>2, <2>4
    <3>2. log[v][x] # w /\ log[v][x] \in Writes
      BY <1>2, <2>1, <3>1
    <3> QED
      BY <2>2, <3>2
  <2>6. ASSUME NEW x \in 1 .. applied'[v], x > applied[v]
        PROVE  stamp'[log[v][x]] = clock + 1
    <3>1. v = u /\ x = p
      BY <1>2, <2>3, <2>4, <2>6
    <3> QED
      BY <2>1, <2>2, <2>4, <3>1
  <2> QED
    BY <2>5, <2>6
<1>4. ASSUME NEW u \in Users, Refuse(u)
      PROVE  /\ stamp' = stamp
             /\ \A x \in 1 .. applied'[v] : x > applied[v] => log[v][x] \in refused'
  <2>1. /\ stamp' = stamp /\ refused' = refused \cup {log[u][applied[u] + 1]}
        /\ applied' = [applied EXCEPT ![u] = applied[u] + 1]
    BY <1>4 DEF Refuse, server
  <2>2. applied'[v] = IF v = u THEN applied[v] + 1 ELSE applied[v]
    BY <1>1, <2>1 DEF TypeOK
  <2>3. \A x \in 1 .. applied'[v] : x > applied[v] => v = u /\ x = applied[v] + 1
    BY <1>2, <2>2
  <2> QED
    BY <2>1, <2>3
<1>5. ASSUME NEW u \in Users, BreakStream(u) \/ Crash(u)
      PROVE  stamp' = stamp /\ \A x \in 1 .. applied'[v] : ~(x > applied[v])
  <2>1. stamp' = stamp /\ applied' = [applied EXCEPT ![u] = acked[u]]
    BY <1>5 DEF BreakStream, Crash, server
  <2>2. applied'[v] = IF v = u THEN acked[v] ELSE applied[v]
    BY <1>1, <2>1 DEF TypeOK
  <2> QED
    BY <1>2, <2>1, <2>2
<1>6. CASE \/ \E m \in Messages : ActionPushMessage(m)
           \/ \E u \in Users : WriteLocally(u) \/ Acknowledge(u)
           \/ UNCHANGED vars
  <2>1. stamp' = stamp /\ applied' = applied
    BY <1>6 DEF ActionPushMessage, WriteLocally, Acknowledge, vars, device, server
  <2>2. \A x \in 1 .. applied'[v] : ~(x > applied[v])
    BY <1>2, <2>1
  <2> QED
    BY <2>1, <2>2
<1> QED
  BY <1>3, <1>4, <1>5, <1>6 DEF Next

\* What is kept of the past of a message once sent is not dated again.
LEMMA KeptEffect ==
    ASSUME Inductive, [Next]_vars, NEW m \in sent
    PROVE  /\ basis'[m] = basis[m]
           /\ \A w \in kept'[m] : /\ w \in kept[m] /\ w \in Writes
                                  /\ stamp'[w] = stamp[w]
<1>1. TypeOK /\ LogInv /\ BasisInv /\ m \in Messages
  BY DEF Inductive, TypeOK
<1>2. ~ActionPushMessage(m)
  BY DEF ActionPushMessage
<1>3. /\ basis'[m] = basis[m]
      /\ kept'[m] \subseteq kept[m]
      /\ \A w \in kept[m] :
           w \notin kept'[m] <=>
             \E u \in Users : (BreakStream(u) \/ Crash(u)) /\ w \in InFlight(u)
  BY <1>1, <1>2, HistoryStep
<1>4. ASSUME NEW w \in kept'[m]
      PROVE  w \in kept[m] /\ w \in Writes /\ stamp'[w] = stamp[w]
  <2>1. w \in kept[m] /\ w \in Writes
    BY <1>1, <1>3 DEF TypeOK
  <2>2. Applied(w) /\ From[w[1]] \in Users
    BY <1>1, <2>1, PathType DEF BasisInv
  <2>3. ~(/\ w \in InFlight(From[w[1]])
          /\ BreakStream(From[w[1]]) \/ Crash(From[w[1]]))
    BY <1>3, <2>1, <2>2
  <2> QED
    BY <1>1, <2>1, <2>2, <2>3, AppliedStep
<1> QED
  BY <1>3, <1>4

\* A place of a message sent before a step was its place then.
LEMMA OldPlaces ==
    ASSUME Inductive, [Next]_vars, NEW v \in Users, NEW w \in Writes, w[1] \in sent,
           NEW a \in 1 .. Len(log'[v]), log'[v][a] = w
    PROVE  a \in 1 .. Len(log[v]) /\ log[v][a] = w
<1>1. TypeOK /\ LogInv
  BY DEF Inductive
<1>2. Len(log[v]) \in Nat
  BY <1>1, Cursors
<1>3. ASSUME NEW x \in Messages, ActionPushMessage(x)
      PROVE  a \in 1 .. Len(log[v]) /\ log[v][a] = w
  <2>1. /\ \A i \in 1 .. Len(log[v]) : log'[v][i] = log[v][i]
        /\ \A i \in 1 .. Len(log'[v]) : i > Len(log[v]) => log'[v][i] = <<x, i - Len(log[v])>>
    BY <1>1, <1>3, PushParts
  <2>2. x # w[1]
    BY <1>3 DEF ActionPushMessage
  <2>3. ~(a > Len(log[v]))
    BY <2>1, <2>2
  <2>4. a \in 1 .. Len(log[v])
    BY <1>2, <2>3
  <2> QED
    BY <2>1, <2>4
<1>4. ASSUME NEW u \in Users, Crash(u)
      PROVE  a \in 1 .. Len(log[v]) /\ log[v][a] = w
  <2>1. /\ Len(log'[v]) <= Len(log[v])
        /\ log'[v][a] = log[v][a]
    BY <1>1, <1>4, CrashLog
  <2>2. Len(log'[v]) \in Nat
    <3>1. TypeOK'
      BY <1>1, TypeStep
    <3>2. log'[v] \in Seq(Writes)
      BY <3>1 DEF TypeOK
    <3> QED
      BY <3>2
  <2> QED
    BY <1>2, <2>1, <2>2
<1>5. CASE log' = log
  BY <1>5
<1> QED
  BY <1>3, <1>4, <1>5, LogKept

\* At most one write is dated by a step, later than all dates before.
LEMMA OneIsDated ==
    ASSUME Inductive, [Next]_vars, NEW w \in Writes, NEW x \in Writes, w # x
    PROVE  stamp'[w] = stamp[w] \/ stamp'[x] = stamp[x]
<1>1. TypeOK /\ LogInv
  BY DEF Inductive
<1>2. ASSUME NEW u \in Users, Commit(u)
      PROVE  stamp'[w] = stamp[w] \/ stamp'[x] = stamp[x]
  <2> DEFINE y == log[u][applied[u] + 1]
  <2>1. y \in Writes /\ stamp' = [stamp EXCEPT ![y] = clock + 1]
    BY <1>1, <1>2, CommitWrite
  <2> HIDE DEF y
  <2> QED
    BY <1>1, <2>1 DEF TypeOK
<1>3. stamp' = stamp \/ \E u \in Users : Commit(u)
  BY DEF Next, vars, server, ActionPushMessage, WriteLocally, Acknowledge, Refuse,
         BreakStream, Crash
<1> QED
  BY <1>2, <1>3

\* What has left the mutation queue is not refused any more.
LEMMA SettledStands ==
    ASSUME Inductive, [Next]_vars, NEW v \in Users,
           NEW a \in 1 .. acked[v], log[v][a] \notin refused
    PROVE  log[v][a] \notin refused'
<1>1. TypeOK /\ LogInv
  BY DEF Inductive
<1>2. ASSUME NEW u \in Users, Refuse(u) PROVE log[v][a] \notin refused'
  <2> DEFINE p == applied[u] + 1
             w == log[u][p]
  <2>1. /\ refused' = refused \cup {w}
        /\ acked[u] = applied[u] /\ applied[u] < persisted[u]
    BY <1>2 DEF Refuse
  <2>2. \A z \in Users : /\ persisted[z] \in Nat /\ applied[z] \in Nat /\ acked[z] \in Nat
                         /\ acked[z] <= applied[z] /\ applied[z] <= persisted[z]
                         /\ persisted[z] <= Len(log[z]) /\ Len(log[z]) \in Nat
    BY <1>1, Cursors
  <2>3. p \in 1 .. Len(log[u]) /\ a \in 1 .. Len(log[v])
    BY <2>1, <2>2
  <2>4. v = u => a \in 1 .. p - 1
    BY <2>1, <2>2
  <2> HIDE DEF p
  <2>5. log[v][a] # w
    BY <1>1, <2>3, <2>4 DEF LogInv
  <2> QED
    BY <2>1, <2>5
<1>3. refused' = refused \/ \E u \in Users : Refuse(u)
  BY DEF Next, vars, ActionPushMessage, WriteLocally, Commit, Acknowledge,
         BreakStream, Crash
<1> QED
  BY <1>2, <1>3

-----------------------------------------------------------------------------
(* The cache and the view.                                                 *)

LEMMA SameChat ==
    ASSUME chat' = chat
    PROVE  /\ Viewer' = Viewer /\ Other' = Other /\ Exchanged' = Exchanged
           /\ ChatOf => ChatOf'
           /\ \A m : Copy(m)' = Copy(m)
BY DEF Viewer, Other, Exchanged, ChatOf, Copy

\* Dates given by the server leave the dates in the cache theirs.
LEMMA DatesFrame ==
    ASSUME Inductive, [Next]_vars, ChatOf, Dates, chat' = chat, cached' = cached
    PROVE  Dates'
<1>1. ASSUME NEW w \in Writes
      PROVE  /\ stamp[w] \in Nat /\ stamp'[w] \in Nat /\ clock \in Nat
             /\ stamp'[w] = stamp[w] \/ stamp'[w] = clock + 1
             /\ stamp[w] <= clock /\ stamp[w] <= stamp'[w]
  BY ServerStep DEF Inductive
<1>2. ASSUME NEW w \in Writes, NEW x \in Writes, stamp'[w] = stamp'[x], stamp'[w] # 0
      PROVE  w = x
  <2> SUFFICES ASSUME w # x PROVE FALSE
    OBVIOUS
  <2>1. stamp'[w] = stamp[w] \/ stamp'[x] = stamp[x]
    BY OneIsDated
  <2>2. stamp[w] = stamp[x] => stamp[w] = 0
    BY DEF Dates
  <2> QED
    BY <1>1, <1>2, <2>1, <2>2
<1>3. ASSUME NEW m \in Exchanged
      PROVE  /\ cached[m] \in Nat /\ Copy(m) \in Writes
             /\ cached[m] <= stamp[Copy(m)]
  BY CopyFacts DEF Dates
<1>4. ASSUME NEW m \in Exchanged PROVE cached[m] <= stamp'[Copy(m)]
  BY <1>1, <1>3
<1>5. ASSUME NEW m \in Exchanged, NEW w \in Writes, stamp'[w] = cached[m], cached[m] # 0
      PROVE  w = Copy(m)
  <2>1. stamp[Copy(m)] <= clock
    BY <1>1, <1>3
  <2>2. stamp'[w] # clock + 1
    BY <1>1, <1>3, <1>5, <2>1
  <2>3. stamp[w] = cached[m]
    BY <1>1, <1>5, <2>2
  <2> QED
    BY <1>5, <2>3 DEF Dates
<1>6. cached' \in [Messages -> Nat] /\ \A m \in Messages \ Exchanged : cached'[m] = 0
  BY DEF Dates
<1>7. \A m, n \in Exchanged : cached[m] = cached[n] /\ cached[m] # 0 => m = n
  BY DEF Dates
<1>8. Exchanged' = Exchanged /\ \A m : Copy(m)' = Copy(m)
  BY SameChat
<1>9. \A m \in Exchanged' : cached'[m] <= stamp'[Copy(m)']
  BY <1>4, <1>8
<1>10. \A m \in Exchanged', w \in Writes :
         stamp'[w] = cached'[m] /\ cached'[m] # 0 => w = Copy(m)'
  BY <1>5, <1>8
<1> QED
  BY <1>2, <1>6, <1>7, <1>8, <1>9, <1>10 DEF Dates

\* Places of the viewer's log and the cursors that divide it.
LEMMA ViewerCursors ==
    ASSUME Inductive, ChatOf
    PROVE  /\ Viewer \in Users /\ TypeOK /\ LogInv
           /\ persisted[Viewer] \in Nat /\ applied[Viewer] \in Nat /\ acked[Viewer] \in Nat
           /\ acked[Viewer] <= applied[Viewer] /\ applied[Viewer] <= persisted[Viewer]
           /\ persisted[Viewer] <= Len(log[Viewer]) /\ Len(log[Viewer]) \in Nat
<1>1. Viewer \in Users /\ TypeOK /\ LogInv
  BY DEF ChatOf, Viewer, Inductive
<1> QED
  BY <1>1, Cursors

\* What is kept of the past of a message is on the server and older.
LEMMA KeptFacts ==
    ASSUME Inductive, ChatOf, NEW m \in Exchanged, NEW n \in Exchanged, Copy(n) \in kept[m]
    PROVE  /\ m \in sent /\ n \in sent /\ stamp[Copy(n)] # 0
           /\ stamp[Copy(m)] # 0 => stamp[Copy(n)] < stamp[Copy(m)]
           /\ Copy(n) \in basis[m] => Settled(Copy(n))
<1>1. m \in Messages /\ n \in Messages
  BY DEF Exchanged
<1>2. /\ \E k \in Steps : Copy(m) = <<m, k>>
      /\ \E k \in Steps : Copy(n) = <<n, k>>
  BY CopyFacts DEF Steps
<1>3. /\ m \in sent /\ Stored(Copy(n))
      /\ \A k \in Steps : stamp[<<m, k>>] # 0 => stamp[Copy(n)] < stamp[<<m, k>>]
      /\ Copy(n) \in basis[m] => Settled(Copy(n))
  BY <1>1 DEF Inductive, BasisInv, Stored
<1>4. n \in sent
  BY <1>1, <1>2, <1>3, StoredIsSent DEF Inductive
<1> QED
  BY <1>2, <1>3, <1>4 DEF Stored

\* What the cache has was sent.
LEMMA CachedIsSent ==
    ASSUME Inductive, ChatOf, Dates, NEW m \in Exchanged, cached[m] # 0
    PROVE  m \in sent /\ stamp[Copy(m)] # 0
<1>1. m \in Messages /\ \E k \in Steps : Copy(m) = <<m, k>>
  BY CopyFacts DEF Steps
<1>2. cached[m] \in Nat /\ cached[m] <= stamp[Copy(m)] /\ stamp[Copy(m)] \in Nat
  BY <1>1, CopyFacts DEF Dates, Inductive, TypeOK
<1>3. stamp[Copy(m)] # 0
  BY <1>2
<1> QED
  BY <1>1, <1>3, StoredIsSent DEF Inductive, Stored

\* A step of the send path that the screen only watches.  What it
\* acknowledges of the viewer, it refuses; a listener removed forgets.
LEMMA CacheFrame ==
    ASSUME Inductive, [Next]_vars, ChatOf, CacheInv, chat' = chat, cached' = cached,
           held' = held \/ held' = {}, held' # {} => listening',
           \A x \in 1 .. acked'[Viewer] : x > acked[Viewer] => log[Viewer][x] \in refused'
    PROVE  CacheInv'
<1>v. PICK v \in Users : v = Viewer
  BY ViewerCursors
<1>1. /\ persisted[v] \in Nat /\ applied[v] \in Nat /\ acked[v] \in Nat
      /\ acked[v] <= applied[v] /\ applied[v] <= persisted[v]
      /\ persisted[v] <= Len(log[v]) /\ Len(log[v]) \in Nat
  BY <1>v, ViewerCursors
<1>2. /\ \A x \in 1 .. persisted[v] : log'[v][x] = log[v][x]
      /\ applied'[v] \in Nat /\ acked'[v] \in Nat
      /\ acked'[v] <= applied'[v] /\ applied'[v] <= persisted[v]
      /\ acked[v] <= acked'[v]
      /\ sent \subseteq sent' /\ refused \subseteq refused'
      /\ \A x \in 1 .. acked'[v] : x > acked[v] => log[v][x] \in refused'
  BY <1>v, LogEffect
<1>3. /\ \A x \in 1 .. applied[v] : stamp'[log[v][x]] = stamp[log[v][x]]
      /\ \A x \in 1 .. applied'[v] :
           x > applied[v] => log[v][x] \in refused' \/ stamp'[log[v][x]] = clock + 1
  BY DateEffect
<1>4. /\ Viewer' = v /\ Exchanged' = Exchanged
      /\ \A m : Copy(m)' = Copy(m)
  BY <1>v, SameChat
<1>5. ASSUME NEW m \in Exchanged
      PROVE  /\ m \in Messages /\ Copy(m) \in Writes /\ cached[m] \in Nat
             /\ stamp[Copy(m)] \in Nat /\ clock \in Nat
             /\ cached[m] <= stamp[Copy(m)] /\ stamp[Copy(m)] <= clock
             /\ cached[m] < clock + 1
  <2>1. m \in Messages /\ Copy(m) \in Writes
    BY CopyFacts
  <2>2. cached[m] \in Nat /\ cached[m] <= stamp[Copy(m)]
    BY <2>1 DEF CacheInv, Dates
  <2>3. /\ stamp[Copy(m)] \in Nat /\ clock \in Nat
        /\ stamp[Copy(m)] <= clock
    BY <2>1, ServerStep DEF Inductive
  <2> QED
    BY <2>1, <2>2, <2>3
<1>6. Dates'
  BY DatesFrame DEF CacheInv
<1>7. HeldBack'
  <2> SUFFICES ASSUME NEW m \in held'
               PROVE  /\ m \in Exchanged /\ cached[m] # 0 /\ Copy(m) \notin refused'
                      /\ \E a \in 1 .. acked'[v] : log'[v][a] = Copy(m)
    BY <1>4 DEF HeldBack, At
  <2>1. m \in held /\ m \in Exchanged /\ cached[m] # 0 /\ Copy(m) \notin refused
    BY DEF CacheInv, HeldBack
  <2>2. PICK a \in 1 .. acked[v] : log[v][a] = Copy(m)
    BY <1>v, <2>1 DEF CacheInv, HeldBack, At
  <2>3. Copy(m) \notin refused'
    BY <2>1, <2>2, SettledStands
  <2>4. a \in 1 .. acked'[v] /\ log'[v][a] = Copy(m)
    BY <1>1, <1>2, <2>2
  <2> QED
    BY <2>1, <2>3, <2>4
<1>8. CaughtUp'
  <2> SUFFICES ASSUME NEW a \in 1 .. acked'[v], NEW m \in Exchanged, log'[v][a] = Copy(m)
               PROVE  Copy(m) \in refused' \/ cached[m] = stamp'[Copy(m)]
    BY <1>4 DEF CaughtUp, At
  <2>1. log[v][a] = Copy(m)
    BY <1>1, <1>2
  <2>2. CASE a > acked[v]
    BY <1>2, <2>1, <2>2
  <2>3. CASE a <= acked[v]
    <3>1. a \in 1 .. acked[v] /\ a \in 1 .. applied[v]
      BY <1>1, <1>2, <2>3
    <3>2. Copy(m) \in refused \/ cached[m] = stamp[Copy(m)]
      BY <1>v, <2>1, <3>1 DEF CacheInv, CaughtUp, At
    <3> QED
      BY <1>2, <1>3, <2>1, <3>1, <3>2
  <2> QED
    BY <1>1, <1>2, <2>2, <2>3
<1>9. ASSUME NEW b \in 1 .. applied'[v], NEW a \in 1 .. b - 1,
             NEW m \in Exchanged, NEW n \in Exchanged,
             log'[v][a] = Copy(m), log'[v][b] = Copy(n)
      PROVE  /\ log[v][a] = Copy(m) /\ log[v][b] = Copy(n)
             /\ \/ /\ b \in 1 .. applied[v] /\ a \in 1 .. applied[v]
                   /\ stamp'[Copy(m)] = stamp[Copy(m)] /\ stamp'[Copy(n)] = stamp[Copy(n)]
                \/ b > applied[v] /\ (Copy(n) \in refused' \/ cached[n] < stamp'[Copy(n)])
  <2>1. log[v][a] = Copy(m) /\ log[v][b] = Copy(n)
    BY <1>1, <1>2, <1>9
  <2>2. CASE b <= applied[v]
    <3>1. b \in 1 .. applied[v] /\ a \in 1 .. applied[v]
      BY <1>1, <1>2, <2>2
    <3> QED
      BY <1>3, <2>1, <3>1
  <2>3. CASE b > applied[v]
    <3>1. Copy(n) \in refused' \/ stamp'[Copy(n)] = clock + 1
      BY <1>3, <2>1, <2>3
    <3> QED
      BY <1>5, <2>1, <2>3, <3>1
  <2> QED
    BY <1>1, <1>2, <2>2, <2>3
<1>10. LateTogether'
  <2> SUFFICES ASSUME NEW b \in 1 .. applied'[v], NEW a \in 1 .. b - 1,
                      NEW m \in Exchanged, NEW n \in Exchanged,
                      log'[v][a] = Copy(m), log'[v][b] = Copy(n),
                      cached[m] < stamp'[Copy(m)],
                      Copy(m) \notin refused', Copy(n) \notin refused'
               PROVE  cached[n] < stamp'[Copy(n)]
    BY <1>4 DEF LateTogether, At
  <2>1. log[v][a] = Copy(m) /\ log[v][b] = Copy(n)
    BY <1>9
  <2>2. CASE b > applied[v]
    BY <1>9, <1>1, <2>2
  <2>3. CASE ~(b > applied[v])
    <3>1. /\ b \in 1 .. applied[v]
          /\ stamp'[Copy(m)] = stamp[Copy(m)] /\ stamp'[Copy(n)] = stamp[Copy(n)]
      BY <1>9, <2>3
    <3>2. Copy(m) \notin refused /\ Copy(n) \notin refused
      BY <1>2
    <3> QED
      BY <1>v, <2>1, <3>1, <3>2 DEF CacheInv, LateTogether, At
  <2> QED
    BY <2>2, <2>3
<1>11. HeldTogether'
  <2> SUFFICES ASSUME NEW b \in 1 .. applied'[v], NEW a \in 1 .. b - 1,
                      NEW m \in Exchanged, NEW n \in Exchanged,
                      log'[v][a] = Copy(m), log'[v][b] = Copy(n),
                      m \in held', n \notin held', Copy(n) \notin refused'
               PROVE  acked'[v] < b /\ cached[n] < stamp'[Copy(n)]
    BY <1>4 DEF HeldTogether, At
  <2>1. log[v][a] = Copy(m) /\ log[v][b] = Copy(n)
    BY <1>9
  <2>2. m \in held /\ n \notin held /\ Copy(n) \notin refused
    BY <1>2
  <2>3. acked[v] < b /\ cached[n] < stamp'[Copy(n)]
    <3>1. CASE b > applied[v]
      BY <1>1, <1>9, <3>1
    <3>2. CASE ~(b > applied[v])
      <4>1. /\ b \in 1 .. applied[v]
            /\ stamp'[Copy(n)] = stamp[Copy(n)]
        BY <1>9, <3>2
      <4> QED
        BY <1>v, <2>1, <2>2, <4>1 DEF CacheInv, HeldTogether, At
    <3> QED
      BY <3>1, <3>2
  <2>4. acked'[v] < b
    <3>1. b \in 1 .. acked'[v] => log[v][b] \in refused'
      BY <1>2, <2>3
    <3> QED
      BY <1>2, <2>1, <3>1
  <2> QED
    BY <2>3, <2>4
<1>12. RepliesBehind'
  <2> SUFFICES ASSUME NEW m \in Exchanged, NEW n \in Exchanged, Copy(n) \in kept'[m]
               PROVE  /\ \A a, b \in 1 .. Len(log'[v]) :
                           log'[v][a] = Copy(m) /\ log'[v][b] = Copy(n) => b < a
                      /\ cached[m] # 0 =>
                           /\ stamp'[Copy(n)] < cached[m]
                           /\ From[n] = v => \/ Copy(n) \in refused'
                                             \/ cached[n] = stamp'[Copy(n)]
                           /\ n \in held' => m \in held'
    BY <1>4 DEF RepliesBehind, At
  <2>1. CASE m \in sent
    <3>1. Copy(n) \in kept[m] /\ stamp'[Copy(n)] = stamp[Copy(n)]
      BY <2>1, KeptEffect
    <3>2. /\ \A a, b \in 1 .. Len(log[v]) :
               log[v][a] = Copy(m) /\ log[v][b] = Copy(n) => b < a
          /\ cached[m] # 0 =>
               /\ stamp[Copy(n)] < cached[m]
               /\ From[n] = v => Copy(n) \in refused \/ cached[n] = stamp[Copy(n)]
               /\ n \in held => m \in held
      BY <1>v, <3>1 DEF CacheInv, RepliesBehind, At
    <3>3. /\ Copy(m) \in Writes /\ Copy(m)[1] \in sent
          /\ Copy(n) \in Writes /\ Copy(n)[1] \in sent
      BY <3>1, CopyFacts, KeptFacts
    <3>4. ASSUME NEW a \in 1 .. Len(log'[v]), NEW b \in 1 .. Len(log'[v]),
                 log'[v][a] = Copy(m), log'[v][b] = Copy(n)
          PROVE  b < a
      <4>1. /\ a \in 1 .. Len(log[v]) /\ log[v][a] = Copy(m)
            /\ b \in 1 .. Len(log[v]) /\ log[v][b] = Copy(n)
        BY <3>3, <3>4, OldPlaces
      <4> QED
        BY <3>2, <4>1
    <3> QED
      BY <1>2, <3>1, <3>2, <3>4
  <2>2. CASE m \notin sent
    <3>1. cached[m] = 0
      BY <2>2, CachedIsSent DEF CacheInv
    <3>2. m \in Messages /\ n \in Messages /\ TypeOK /\ LogInv
      BY DEF Exchanged, Inductive
    <3>3. ActionPushMessage(m)
      <4>1. kept[m] = {}
        BY <2>2, <3>2 DEF Inductive, BasisInv
      <4>2. ~ActionPushMessage(m) => kept'[m] \subseteq kept[m]
        BY <3>2, HistoryStep
      <4> QED
        BY <4>1, <4>2
    <3>4. Copy(n) \in Writes /\ Stored(Copy(n))
      <4>1. kept' = [kept EXCEPT ![m] = {w \in Answerable(m) : Applied(w)}]
        BY <3>3 DEF ActionPushMessage
      <4> QED
        BY <3>2, <4>1 DEF Answerable, TypeOK
    <3>5. Copy(n)[1] = n /\ \E k \in Steps : Copy(n) = <<n, k>>
      BY CopyFacts DEF Steps
    <3>6. n \in sent
      BY <3>2, <3>4, <3>5, StoredIsSent DEF Inductive
    <3>7. ASSUME NEW a \in 1 .. Len(log'[v]), NEW b \in 1 .. Len(log'[v]),
                 log'[v][a] = Copy(m), log'[v][b] = Copy(n)
          PROVE  b < a
      <4>1. b \in 1 .. Len(log[v])
        BY <3>4, <3>5, <3>6, <3>7, OldPlaces
      <4>2. Copy(m)[1] = m
        BY CopyFacts
      <4>3. ~(a \in 1 .. Len(log[v]))
        <5>1. a \in 1 .. Len(log[v]) => log'[v][a] = log[v][a] /\ log[v][a][1] # m
          BY <3>2, <3>3, PushParts
        <5> QED
          BY <3>7, <4>2, <5>1
      <4> QED
        BY <1>1, <4>1, <4>3
    <3> QED
      BY <3>1, <3>7
  <2> QED
    BY <2>1, <2>2
<1> QED
  BY <1>6, <1>7, <1>8, <1>10, <1>11, <1>12 DEF CacheInv

\* A consistent snapshot of the server: all dates are the last ones.
LEMMA CacheWatch ==
    ASSUME Inductive, ChatOf, CacheInv, Watch
    PROVE  CacheInv'
<1>1. /\ chat' = chat /\ log' = log /\ stamp' = stamp /\ refused' = refused
      /\ acked' = acked /\ applied' = applied /\ kept' = kept /\ held' = {}
      /\ cached' = [m \in Messages |-> IF m \in Exchanged THEN stamp[Copy(m)] ELSE 0]
  BY DEF Watch, vars, device, server, history
<1>2. /\ Viewer' = Viewer /\ Exchanged' = Exchanged
      /\ \A m : Copy(m)' = Copy(m)
  BY <1>1, SameChat
<1>3. ASSUME NEW m \in Exchanged
      PROVE  /\ Copy(m) \in Writes /\ Copy(m)[1] = m /\ stamp[Copy(m)] \in Nat
             /\ cached'[m] = stamp[Copy(m)]
  <2>1. m \in Messages /\ Copy(m) \in Writes /\ Copy(m)[1] = m
    BY CopyFacts
  <2> QED
    BY <1>1, <2>1 DEF Inductive, TypeOK
<1>4. Dates'
  <2>1. \A m \in Messages \ Exchanged : cached'[m] = 0
    BY <1>1
  <2>2. cached' \in [Messages -> Nat]
    BY <1>1, <1>3
  <2>3. \A w, x \in Writes : stamp[w] = stamp[x] /\ stamp[w] # 0 => w = x
    BY DEF CacheInv, Dates
  <2>4. \A m \in Exchanged : cached'[m] <= stamp[Copy(m)]
    BY <1>3
  <2>5. \A m \in Exchanged, w \in Writes :
          stamp[w] = cached'[m] /\ cached'[m] # 0 => w = Copy(m)
    BY <1>3, <2>3
  <2>6. \A m, n \in Exchanged : cached'[m] = cached'[n] /\ cached'[m] # 0 => m = n
    BY <1>3, <2>5
  <2>7. \A m \in Exchanged' : cached'[m] <= stamp'[Copy(m)']
    BY <1>1, <1>2, <2>4
  <2>8. \A m \in Exchanged', w \in Writes :
          stamp'[w] = cached'[m] /\ cached'[m] # 0 => w = Copy(m)'
    BY <1>1, <1>2, <2>5
  <2> QED
    BY <1>1, <1>2, <2>1, <2>2, <2>3, <2>6, <2>7, <2>8 DEF Dates
<1>5. HeldBack' /\ HeldTogether'
  BY <1>1 DEF HeldBack, HeldTogether
<1>6. CaughtUp'
  <2> SUFFICES ASSUME NEW m \in Exchanged PROVE cached'[m] = stamp[Copy(m)]
    BY <1>1, <1>2 DEF CaughtUp
  <2> QED
    BY <1>3
<1>7. LateTogether'
  <2> SUFFICES ASSUME NEW m \in Exchanged PROVE ~(cached'[m] < stamp[Copy(m)])
    BY <1>1, <1>2 DEF LateTogether
  <2> QED
    BY <1>3
<1>8. RepliesBehind'
  <2> SUFFICES ASSUME NEW m \in Exchanged, NEW n \in Exchanged, Copy(n) \in kept[m]
               PROVE  /\ \A a, b \in 1 .. Len(log[Viewer]) : At(a, m) /\ At(b, n) => b < a
                      /\ cached'[m] # 0 =>
                           stamp[Copy(n)] < cached'[m] /\ cached'[n] = stamp[Copy(n)]
    BY <1>1, <1>2 DEF RepliesBehind, At
  <2>1. \A a, b \in 1 .. Len(log[Viewer]) : At(a, m) /\ At(b, n) => b < a
    BY DEF CacheInv, RepliesBehind
  <2> QED
    BY <1>3, <2>1, KeptFacts
<1> QED
  BY <1>4, <1>5, <1>6, <1>7, <1>8 DEF CacheInv

\* The acknowledgement of the viewer's oldest write: it is stored, and the
\* cache now has its date; if it is one of this chat and the cache was late
\* for it, a served view holds it back.
LEMMA AckParts ==
    ASSUME Inductive, ChatOf, CacheInv, AcknowledgeOwn
    PROVE  LET p == acked[Viewer] + 1
               w == log[Viewer][p]
           IN  /\ p \in 1 .. applied[Viewer] /\ p \in 1 .. Len(log[Viewer])
               /\ w \in Writes /\ stamp[w] \in Nat \ {0} /\ w \notin refused
               /\ acked'[Viewer] = p
               /\ \A m \in Messages :
                    cached'[m] = IF m \in Exchanged /\ Copy(m) = w
                                 THEN stamp[w] ELSE cached[m]
               /\ held \subseteq held'
               /\ \A m \in held' \ held : /\ listening /\ m \in Exchanged
                                          /\ Copy(m) = w /\ cached[m] < stamp[w]
               /\ \A m \in Exchanged :
                    Copy(m) = w /\ cached[m] < stamp[w] /\ listening => m \in held'
<1> DEFINE v == Viewer
           p == acked[v] + 1
           w == log[v][p]
<1>1. /\ v \in Users /\ TypeOK /\ LogInv
      /\ applied[v] \in Nat /\ acked[v] \in Nat
      /\ acked[v] <= applied[v] /\ applied[v] <= Len(log[v]) /\ Len(log[v]) \in Nat
  <2>1. /\ v \in Users /\ TypeOK /\ LogInv
        /\ persisted[v] \in Nat /\ applied[v] \in Nat /\ acked[v] \in Nat
        /\ acked[v] <= applied[v] /\ applied[v] <= persisted[v]
        /\ persisted[v] <= Len(log[v]) /\ Len(log[v]) \in Nat
    BY ViewerCursors
  <2> QED
    BY <2>1
<1>2. /\ acked[v] < applied[v]
      /\ acked' = [acked EXCEPT ![v] = @ + 1]
      /\ IF w[2] = 1 /\ w[1] \in Exchanged /\ cached[w[1]] < stamp[w]
         THEN /\ cached' = [cached EXCEPT ![w[1]] = stamp[w]]
              /\ held' = IF listening THEN held \cup {w[1]} ELSE held
         ELSE cached' = cached /\ held' = held
  BY DEF AcknowledgeOwn, Acknowledge, cache
<1>3. p \in 1 .. applied[v] /\ p \in 1 .. Len(log[v])
  BY <1>1, <1>2
<1>4. w \in Writes /\ From[w[1]] = v
  BY <1>1, <1>3, Cursors DEF LogInv
<1>5. acked'[v] = p
  BY <1>1, <1>2 DEF TypeOK
<1>6. w \notin refused
  <2> SUFFICES ASSUME w \in refused PROVE FALSE
    OBVIOUS
  <2>1. PICK i \in 1 .. acked[v] : log[v][i] = w
    BY <1>4 DEF Inductive, RefusedSettled, Settled
  <2>2. i \in 1 .. p - 1
    BY <1>1, <2>1
  <2> HIDE DEF p
  <2> QED
    BY <1>1, <1>3, <2>1, <2>2 DEF LogInv
<1>7. stamp[w] \in Nat \ {0}
  <2>1. stamp[w] \in Nat
    BY <1>1, <1>4 DEF TypeOK
  <2>2. Stored(w) \/ w \in refused
    BY <1>1, <1>3 DEF Inductive, Answered
  <2> QED
    BY <1>6, <2>1, <2>2 DEF Stored
<1>8. w = <<w[1], w[2]>>
  BY <1>4 DEF Writes
<1> HIDE DEF w, p, v
<1>9. \A m \in Exchanged : Copy(m) = w <=> w[1] = m /\ w[2] = 1
  <2> TAKE m \in Exchanged
  <2>1. Copy(m) = IF From[m] = v THEN <<m, 1>> ELSE <<m, 2>>
    BY DEF Copy, v
  <2>2. CASE w[1] = m
    <3>1. Copy(m) = <<m, 1>>
      BY <1>4, <2>1, <2>2
    <3> QED
      BY <1>8, <2>2, <3>1
  <2>3. CASE w[1] # m
    BY <2>1, <2>3
  <2> QED
    BY <2>2, <2>3
<1>10. ASSUME NEW m \in Exchanged
       PROVE  m \in Messages /\ cached[m] \in Nat /\ cached[m] <= stamp[Copy(m)]
  BY CopyFacts DEF CacheInv, Dates
<1>11. cached \in [Messages -> Nat]
  BY DEF CacheInv, Dates
<1>12. CASE w[2] = 1 /\ w[1] \in Exchanged /\ cached[w[1]] < stamp[w]
  <2>1. w[1] \in Messages
    BY <1>10, <1>12
  <2>2. \A m \in Messages : cached'[m] = IF m = w[1] THEN stamp[w] ELSE cached[m]
    BY <1>2, <1>11, <1>12, <2>1
  <2>3. \A m \in Messages : cached'[m] = IF m \in Exchanged /\ Copy(m) = w
                                         THEN stamp[w] ELSE cached[m]
    BY <1>9, <1>12, <2>2
  <2>4. held' = IF listening THEN held \cup {w[1]} ELSE held
    BY <1>2, <1>12
  <2> QED
    BY <1>3, <1>4, <1>5, <1>6, <1>7, <1>9, <1>12, <2>3, <2>4 DEF w, p, v
<1>13. CASE ~(w[2] = 1 /\ w[1] \in Exchanged /\ cached[w[1]] < stamp[w])
  <2>1. cached' = cached /\ held' = held
    BY <1>2, <1>13
  <2>2. \A m \in Exchanged : Copy(m) = w => ~(cached[m] < stamp[w])
    BY <1>9, <1>13
  <2>3. \A m \in Exchanged : Copy(m) = w => cached[m] = stamp[w]
    BY <1>7, <1>10, <2>2
  <2>4. \A m \in Messages : cached'[m] = IF m \in Exchanged /\ Copy(m) = w
                                         THEN stamp[w] ELSE cached[m]
    BY <2>1, <2>3
  <2> QED
    BY <1>3, <1>4, <1>5, <1>6, <1>7, <2>1, <2>2, <2>4 DEF w, p, v
<1> QED
  BY <1>12, <1>13

LEMMA CacheAck ==
    ASSUME Inductive, ChatOf, CacheInv, AcknowledgeOwn
    PROVE  CacheInv'
<1>v. PICK v \in Users : v = Viewer
  BY ViewerCursors
<1>p. PICK p : p = acked[v] + 1
  OBVIOUS
<1>w. PICK w : w = log[v][p]
  OBVIOUS
<1>1. /\ chat' = chat /\ log' = log /\ stamp' = stamp /\ refused' = refused
      /\ applied' = applied /\ kept' = kept /\ listening' = listening
  BY DEF AcknowledgeOwn, Acknowledge, server, history
<1>2. /\ LogInv /\ applied[v] \in Nat /\ acked[v] \in Nat
      /\ acked[v] <= applied[v] /\ applied[v] <= Len(log[v]) /\ Len(log[v]) \in Nat
  <2>1. /\ LogInv
        /\ persisted[v] \in Nat /\ applied[v] \in Nat /\ acked[v] \in Nat
        /\ acked[v] <= applied[v] /\ applied[v] <= persisted[v]
        /\ persisted[v] <= Len(log[v]) /\ Len(log[v]) \in Nat
    BY <1>v, ViewerCursors
  <2> QED
    BY <2>1
<1>3. /\ Viewer' = v /\ Exchanged' = Exchanged
      /\ \A m : Copy(m)' = Copy(m)
  BY <1>v, <1>1, SameChat
<1>4. /\ p \in 1 .. applied[v] /\ p \in 1 .. Len(log[v])
      /\ w \in Writes /\ stamp[w] \in Nat /\ stamp[w] # 0 /\ w \notin refused
      /\ acked'[v] = p
      /\ \A m \in Messages :
           cached'[m] = IF m \in Exchanged /\ Copy(m) = w THEN stamp[w] ELSE cached[m]
      /\ held \subseteq held'
      /\ \A m \in held' \ held : /\ listening /\ m \in Exchanged
                                 /\ Copy(m) = w /\ cached[m] < stamp[w]
      /\ \A m \in Exchanged :
           Copy(m) = w /\ cached[m] < stamp[w] /\ listening => m \in held'
  BY <1>v, <1>p, <1>w, AckParts, Zenon
<1>5. ASSUME NEW m \in Exchanged
      PROVE  /\ m \in Messages /\ Copy(m) \in Writes /\ Copy(m)[1] = m
             /\ cached[m] \in Nat /\ stamp[Copy(m)] \in Nat
             /\ cached[m] <= stamp[Copy(m)]
             /\ Copy(m) = w => cached'[m] = stamp[Copy(m)]
             /\ Copy(m) # w => cached'[m] = cached[m]
  <2>1. m \in Messages /\ Copy(m) \in Writes /\ Copy(m)[1] = m
    BY CopyFacts
  <2> QED
    BY <1>4, <2>1 DEF Inductive, TypeOK, CacheInv, Dates
<1>6. \A q \in 1 .. Len(log[v]) : log[v][q] = w => q = p
  <2> SUFFICES ASSUME NEW q \in 1 .. Len(log[v]), log[v][q] = w, q # p PROVE FALSE
    OBVIOUS
  <2>1. q \in 1 .. p - 1 \/ p \in 1 .. q - 1
    BY <1>2, <1>4
  <2> QED
    BY <1>2, <1>4, <1>w, <2>1 DEF LogInv
<1>7. Dates'
  <2>1. \A w1, x \in Writes : stamp[w1] = stamp[x] /\ stamp[w1] # 0 => w1 = x
    BY DEF CacheInv, Dates
  <2>2. cached' \in [Messages -> Nat]
    <3>1. DOMAIN cached' = Messages /\ cached' = [m \in Messages |-> cached'[m]]
      <4>1. cached \in [Messages -> Nat]
        BY DEF CacheInv, Dates
      <4> QED
        BY <4>1 DEF AcknowledgeOwn, cache
    <3>2. \A m \in Messages : cached'[m] \in Nat
      <4>1. \A m \in Messages : cached[m] \in Nat
        BY DEF CacheInv, Dates
      <4> QED
        BY <1>4, <4>1
    <3> QED
      BY <3>1, <3>2
  <2>3. \A m \in Messages \ Exchanged : cached'[m] = 0
    BY <1>4 DEF CacheInv, Dates
  <2>4. ASSUME NEW m \in Exchanged PROVE cached'[m] <= stamp[Copy(m)]
    BY <1>5
  <2>5. ASSUME NEW m \in Exchanged, NEW x \in Writes, stamp[x] = cached'[m], cached'[m] # 0
        PROVE  x = Copy(m)
    <3>1. CASE Copy(m) = w
      BY <1>5, <2>1, <2>5, <3>1
    <3>2. CASE Copy(m) # w
      BY <1>5, <2>5, <3>2 DEF CacheInv, Dates
    <3> QED
      BY <3>1, <3>2
  <2>6. ASSUME NEW m \in Exchanged, NEW n \in Exchanged,
               cached'[m] = cached'[n], cached'[m] # 0
        PROVE  m = n
    <3>1. CASE Copy(m) = w
      <4>1. stamp[w] = cached'[n] /\ cached'[n] # 0
        BY <1>5, <2>6, <3>1
      <4>2. w = Copy(n)
        BY <1>4, <2>5, <4>1
      <4> QED
        BY <1>5, <3>1, <4>2
    <3>2. CASE Copy(n) = w
      <4>1. stamp[w] = cached'[m] /\ cached'[m] # 0
        BY <1>5, <2>6, <3>2
      <4>2. w = Copy(m)
        BY <1>4, <2>5, <4>1
      <4> QED
        BY <1>5, <3>2, <4>2
    <3>3. CASE Copy(m) # w /\ Copy(n) # w
      BY <1>5, <2>6, <3>3 DEF CacheInv, Dates
    <3> QED
      BY <3>1, <3>2, <3>3
  <2>7. \A m \in Exchanged' : cached'[m] <= stamp'[Copy(m)']
    BY <1>1, <1>3, <2>4
  <2>8. \A m \in Exchanged', x \in Writes :
          stamp'[x] = cached'[m] /\ cached'[m] # 0 => x = Copy(m)'
    BY <1>1, <1>3, <2>5
  <2> QED
    BY <1>1, <1>3, <2>1, <2>2, <2>3, <2>6, <2>7, <2>8 DEF Dates
<1>8. HeldBack'
  <2>1. held' # {} => listening'
    BY <1>1, <1>4 DEF CacheInv, HeldBack
  <2>2. ASSUME NEW m \in held'
        PROVE  /\ m \in Exchanged /\ cached'[m] # 0 /\ Copy(m) \notin refused
               /\ \E a \in 1 .. acked'[v] : log[v][a] = Copy(m)
    <3>1. CASE m \in held
      <4>1. /\ m \in Exchanged /\ cached[m] # 0 /\ Copy(m) \notin refused
            /\ \E a \in 1 .. acked[v] : log[v][a] = Copy(m)
        BY <1>v, <3>1 DEF CacheInv, HeldBack, At
      <4>2. cached'[m] # 0
        BY <1>4, <1>5, <4>1
      <4>3. \A a \in 1 .. acked[v] : a \in 1 .. acked'[v]
        BY <1>2, <1>4, <1>p
      <4> QED
        BY <4>1, <4>2, <4>3
    <3>2. CASE m \notin held
      <4>1. m \in Exchanged /\ Copy(m) = w
        BY <1>4, <3>2
      <4>2. p \in 1 .. acked'[v]
        BY <1>4
      <4> QED
        BY <1>4, <1>5, <1>w, <4>1, <4>2
    <3> QED
      BY <3>1, <3>2
  <2> QED
    BY <1>1, <1>3, <2>1, <2>2 DEF HeldBack, At
<1>9. CaughtUp'
  <2> SUFFICES ASSUME NEW a \in 1 .. acked'[v], NEW m \in Exchanged, log[v][a] = Copy(m)
               PROVE  Copy(m) \in refused \/ cached'[m] = stamp[Copy(m)]
    BY <1>1, <1>3 DEF CaughtUp, At
  <2>1. CASE Copy(m) = w
    BY <1>5, <2>1
  <2>2. CASE Copy(m) # w
    <3>1. a \in 1 .. acked[v]
      BY <1>2, <1>4, <1>p, <1>w, <2>2
    <3>2. Copy(m) \in refused \/ cached[m] = stamp[Copy(m)]
      BY <1>v, <3>1 DEF CacheInv, CaughtUp, At
    <3> QED
      BY <1>5, <2>2, <3>2
  <2> QED
    BY <2>1, <2>2
<1>10. ASSUME NEW b \in 1 .. applied[v], NEW a \in 1 .. b - 1,
              NEW m \in Exchanged, NEW n \in Exchanged,
              log[v][a] = Copy(m), log[v][b] = Copy(n),
              cached[m] < stamp[Copy(m)], Copy(m) \notin refused, Copy(n) \notin refused
       PROVE  cached[n] < stamp[Copy(n)]
  BY <1>v, <1>10 DEF CacheInv, LateTogether, At
<1>11. LateTogether'
  <2> SUFFICES ASSUME NEW b \in 1 .. applied[v], NEW a \in 1 .. b - 1,
                      NEW m \in Exchanged, NEW n \in Exchanged,
                      log[v][a] = Copy(m), log[v][b] = Copy(n),
                      cached'[m] < stamp[Copy(m)],
                      Copy(m) \notin refused, Copy(n) \notin refused
               PROVE  cached'[n] < stamp[Copy(n)]
    BY <1>1, <1>3 DEF LateTogether, At
  <2>1. Copy(m) # w /\ cached[m] < stamp[Copy(m)]
    BY <1>5
  <2>2. cached[n] < stamp[Copy(n)]
    BY <1>10, <2>1
  <2>3. Copy(n) # w
    <3> SUFFICES ASSUME Copy(n) = w PROVE FALSE
      OBVIOUS
    <3>1. b \in 1 .. Len(log[v])
      BY <1>2
    <3>2. b = p
      BY <1>6, <3>1
    <3>3. a \in 1 .. acked[v]
      BY <1>2, <1>p, <3>2
    <3>4. cached[m] = stamp[Copy(m)]
      BY <1>v, <3>3 DEF CacheInv, CaughtUp, At
    <3> QED
      BY <1>5, <2>1, <3>4
  <2> QED
    BY <1>5, <2>2, <2>3
<1>12. HeldTogether'
  <2> SUFFICES ASSUME NEW b \in 1 .. applied[v], NEW a \in 1 .. b - 1,
                      NEW m \in Exchanged, NEW n \in Exchanged,
                      log[v][a] = Copy(m), log[v][b] = Copy(n),
                      m \in held', n \notin held', Copy(n) \notin refused
               PROVE  p < b /\ cached'[n] < stamp[Copy(n)]
    BY <1>1, <1>3, <1>4 DEF HeldTogether, At
  <2>1. n \notin held /\ b \in 1 .. Len(log[v]) /\ a \in 1 .. Len(log[v])
    BY <1>2, <1>4
  <2>2. acked[v] < b /\ cached[n] < stamp[Copy(n)]
    <3>1. CASE m \in held
      BY <1>v, <2>1, <3>1 DEF CacheInv, HeldTogether, At
    <3>2. CASE m \notin held
      <4>1. Copy(m) = w /\ cached[m] < stamp[w]
        BY <1>4, <3>2
      <4>2. a = p
        BY <1>6, <2>1, <4>1
      <4>3. cached[n] < stamp[Copy(n)]
        BY <1>4, <1>10, <4>1
      <4> QED
        BY <1>2, <1>p, <4>2, <4>3
    <3> QED
      BY <3>1, <3>2
  <2>3. listening
    BY <1>4 DEF CacheInv, HeldBack
  <2>4. Copy(n) # w
    BY <1>4, <2>2, <2>3
  <2>5. b # p
    BY <1>w, <2>4
  <2> QED
    BY <1>2, <1>5, <1>p, <2>2, <2>4, <2>5
<1>13. RepliesBehind'
  <2> SUFFICES ASSUME NEW m \in Exchanged, NEW n \in Exchanged, Copy(n) \in kept[m]
               PROVE  /\ \A a, b \in 1 .. Len(log[v]) :
                           log[v][a] = Copy(m) /\ log[v][b] = Copy(n) => b < a
                      /\ cached'[m] # 0 =>
                           /\ stamp[Copy(n)] < cached'[m]
                           /\ From[n] = v => \/ Copy(n) \in refused
                                             \/ cached'[n] = stamp[Copy(n)]
                           /\ n \in held' => m \in held'
    BY <1>1, <1>3 DEF RepliesBehind, At
  <2>1. /\ \A a, b \in 1 .. Len(log[v]) :
             log[v][a] = Copy(m) /\ log[v][b] = Copy(n) => b < a
        /\ cached[m] # 0 =>
             /\ stamp[Copy(n)] < cached[m]
             /\ From[n] = v => Copy(n) \in refused \/ cached[n] = stamp[Copy(n)]
             /\ n \in held => m \in held
    BY <1>v DEF CacheInv, RepliesBehind, At
  <2>2. stamp[Copy(m)] # 0 => stamp[Copy(n)] < stamp[Copy(m)]
    BY KeptFacts
  <2>3. From[w[1]] = v
    BY <1>2, <1>4, <1>w DEF LogInv
\* What the cache has of the viewer's before, it has still.
  <2>4. cached[n] = stamp[Copy(n)] => cached'[n] = stamp[Copy(n)]
    BY <1>5
  <2>5. CASE Copy(m) # w
    <3>1. cached'[m] = cached[m]
      BY <1>5, <2>5
    <3>2. ASSUME cached[m] # 0, n \in held' PROVE n \in held
      <4> SUFFICES ASSUME n \notin held PROVE FALSE
        OBVIOUS
      <4>1. Copy(n) = w /\ cached[n] < stamp[w]
        BY <1>4, <3>2
      <4>2. From[n] = v /\ Copy(n) \notin refused
        BY <1>4, <1>5, <2>3, <4>1
      <4>3. cached[n] = stamp[Copy(n)]
        BY <2>1, <3>2, <4>2
      <4> QED
        BY <1>4, <4>1, <4>3
    <3> QED
      BY <1>4, <2>1, <2>4, <3>1, <3>2
  <2>6. CASE Copy(m) = w
    <3>1. stamp[Copy(n)] < cached'[m]
      BY <1>4, <1>5, <2>2, <2>6
    <3>2. Copy(n) # w
      BY <1>4, <1>5, <2>2, <2>6
    <3>3. n \in held' => n \in held
      BY <1>4, <3>2
    <3>4. ASSUME From[n] = v, Copy(n) \notin refused PROVE cached'[n] = stamp[Copy(n)]
      <4>1. CASE cached[m] # 0
        BY <2>1, <2>4, <3>4, <4>1
      <4>2. CASE cached[m] = 0
        <5>1. \E b \in 1 .. Len(log[v]) : log[v][b] = Copy(n)
          <6>1. stamp[Copy(n)] # 0
            BY KeptFacts
          <6>2. PICK b \in 1 .. persisted[v] : log[v][b] = Copy(n)
            BY <1>5, <3>4, <6>1 DEF Inductive, OnDisk, Stored
          <6>3. b \in 1 .. Len(log[v])
            BY <1>v, ViewerCursors
          <6> QED
            BY <6>2, <6>3
        <5>2. PICK b \in 1 .. Len(log[v]) : log[v][b] = Copy(n)
          BY <5>1
        <5>3. b < p
          BY <1>4, <1>w, <2>1, <2>6, <5>2
        <5>4. b \in 1 .. acked[v]
          BY <1>2, <1>p, <5>3
        <5>5. cached[n] = stamp[Copy(n)]
          BY <1>v, <3>4, <5>2, <5>4 DEF CacheInv, CaughtUp, At
        <5> QED
          BY <2>4, <5>5
      <4> QED
        BY <4>1, <4>2
    <3>5. ASSUME n \in held PROVE m \in held'
      <4>1. listening
        BY <3>5 DEF CacheInv, HeldBack
      <4>2. CASE cached[m] < stamp[w]
        BY <1>4, <2>6, <4>1, <4>2
      <4>3. CASE ~(cached[m] < stamp[w])
        <5>1. cached[m] # 0
          BY <1>4, <1>5, <2>6, <4>3
        <5> QED
          BY <1>4, <2>1, <3>5, <5>1
      <4> QED
        BY <4>2, <4>3
    <3> QED
      BY <2>1, <3>1, <3>3, <3>4, <3>5
  <2> QED
    BY <2>5, <2>6
<1> QED
  BY <1>7, <1>8, <1>9, <1>11, <1>12, <1>13 DEF CacheInv

(* A step of the screen is a step of the send path or leaves it alone.      *)
LEMMA ScreenStep == ASSUME [ChatNext]_chatVars, chat \in Users \X Users
                    PROVE  [Next]_vars
<1>1. Viewer \in Users
  BY DEF Viewer
<1>2. ASSUME OpenChat \/ ViewWillDisappear \/ Popped \/ ViewWillAppear \/ Snapshot
             \/ ListenerFailed \/ Watch \/ TextFieldDidChange
      PROVE  UNCHANGED vars
  BY <1>2 DEF OpenChat, ViewWillDisappear, Popped, ViewWillAppear, Snapshot,
              ListenerFailed, Watch, TextFieldDidChange
<1>3. ASSUME NEW m \in Messages, SendBtnPressed(m) PROVE Next
  BY <1>3 DEF SendBtnPressed, Next
<1>4. ASSUME AcknowledgeOwn PROVE Next
  BY <1>1, <1>4 DEF AcknowledgeOwn, Next
<1>5. ASSUME CrashOwn \/ ShowRow PROVE Next
  BY <1>1, <1>5 DEF CrashOwn, ShowRow, Next
<1>6. ASSUME Elsewhere PROVE Next
  BY <1>6 DEF Elsewhere, Next
<1>7. CASE UNCHANGED chatVars
  BY <1>7 DEF chatVars
<1> QED BY <1>2, <1>3, <1>4, <1>5, <1>6, <1>7 DEF ChatNext

LEMMA ChatKept == ASSUME [ChatNext]_chatVars PROVE chat' = chat
BY DEF ChatNext, chatVars, OpenChat, ViewWillDisappear, Popped, ViewWillAppear,
       Snapshot, ListenerFailed, Watch, TextFieldDidChange, SendBtnPressed,
       AcknowledgeOwn, CrashOwn, ShowRow, Elsewhere, Offscreen

\* The cache changes with a snapshot of the server and with an
\* acknowledgement; otherwise the viewer's writes are at most refused.
LEMMA StepKinds ==
    ASSUME Inductive, ChatOf, HeldBack, [ChatNext]_chatVars
    PROVE  \/ Watch \/ AcknowledgeOwn
           \/ /\ cached' = cached
              /\ held' = held \/ held' = {}
              /\ held' # {} => listening'
              /\ \A x \in 1 .. acked'[Viewer] :
                   x > acked[Viewer] => log[Viewer][x] \in refused'
<1>1. /\ Viewer \in Users /\ [Next]_vars
      /\ acked \in [Users -> Nat] /\ applied[Viewer] \in Nat
  BY ViewerCursors, ScreenStep DEF ChatOf, Inductive, TypeOK
<1> DEFINE Quiet == \A x \in 1 .. acked'[Viewer] :
                        x > acked[Viewer] => log[Viewer][x] \in refused'
<1>2. acked'[Viewer] = acked[Viewer] => Quiet
  BY <1>1
<1>3. Refuse(Viewer) => Quiet
  <2> SUFFICES ASSUME Refuse(Viewer) PROVE Quiet
    OBVIOUS
  <2>1. ~Acknowledge(Viewer)
    BY <1>1 DEF Refuse, Acknowledge
  <2> QED
    BY <1>1, <2>1, LogEffect
<1> HIDE DEF Quiet
<1>4. held # {} => listening
  BY DEF HeldBack
<1>5. CASE UNCHANGED vars /\ UNCHANGED cache /\ (listening => listening')
  BY <1>2, <1>4, <1>5 DEF vars, device, cache, Quiet
<1>6. CASE Popped \/ Snapshot \/ TextFieldDidChange \/ UNCHANGED chatVars
  <2>1. UNCHANGED vars /\ UNCHANGED cache /\ listening' = listening
    BY <1>6, Zenon DEF Popped, Snapshot, TextFieldDidChange, chatVars
  <2> QED
    BY <1>5, <2>1
<1>11. CASE OpenChat \/ ViewWillAppear
  <2>1. UNCHANGED vars /\ UNCHANGED cache /\ listening' = TRUE
    BY <1>11, Zenon DEF OpenChat, ViewWillAppear, AddListenerRecuperarMensagens
  <2> QED
    BY <1>5, <2>1
<1>7. CASE ViewWillDisappear \/ ListenerFailed
  BY <1>2, <1>7 DEF ViewWillDisappear, ListenerFailed, Unlisten, vars, device, Quiet
<1>8. CASE CrashOwn \/ ShowRow
  BY <1>2, <1>8 DEF CrashOwn, ShowRow, Crash, Unlisten, Quiet
<1>9. ASSUME NEW m \in Messages, SendBtnPressed(m)
      PROVE  /\ cached' = cached /\ held' = held /\ listening' = listening
             /\ acked' = acked
  BY <1>9 DEF SendBtnPressed, ActionPushMessage, cache
<1>10. CASE Elsewhere
  <2>1. cached' = cached /\ held' = held /\ listening' = listening
    BY <1>10 DEF Elsewhere, Offscreen, cache
  <2>2. ASSUME NEW u \in Users, Refuse(u) PROVE Quiet
    <3>1. CASE u = Viewer
      BY <1>3, <2>2, <3>1
    <3>2. CASE u # Viewer
      <4>1. acked' = [acked EXCEPT ![u] = @ + 1]
        BY <2>2 DEF Refuse
      <4>2. acked'[Viewer] = acked[Viewer]
        BY <1>1, <3>2, <4>1
      <4> QED
        BY <1>2, <4>2
    <3> QED
      BY <3>1, <3>2
  <2>3. ASSUME NEW u \in Users \ {Viewer}, Acknowledge(u) PROVE Quiet
    <3>1. acked' = [acked EXCEPT ![u] = @ + 1]
      BY <2>3 DEF Acknowledge
    <3>2. acked'[Viewer] = acked[Viewer]
      BY <1>1, <3>1
    <3> QED
      BY <1>2, <3>2
  <2>4. ASSUME \/ \E m \in Messages : ActionPushMessage(m)
               \/ \E u \in Users : WriteLocally(u) \/ Commit(u) \/ BreakStream(u) \/ Crash(u)
        PROVE  Quiet
    <3>1. acked' = acked
      BY <2>4 DEF ActionPushMessage, WriteLocally, Commit, BreakStream, Crash
    <3> QED
      BY <1>2, <3>1
  <2>5. Quiet
    BY <1>10, <2>2, <2>3, <2>4 DEF Elsewhere
  <2> QED
    BY <1>4, <2>1, <2>5 DEF Quiet
<1> QED
  BY <1>2, <1>4, <1>6, <1>7, <1>8, <1>9, <1>10, <1>11 DEF ChatNext, Quiet

LEMMA CacheStep ==
    ASSUME Inductive, ChatOf, CacheInv, [ChatNext]_chatVars
    PROVE  CacheInv'
<1>1. [Next]_vars /\ chat' = chat /\ HeldBack
  BY ScreenStep, ChatKept DEF ChatOf, CacheInv
<1> QED
  BY <1>1, StepKinds, CacheWatch, CacheAck, CacheFrame

-----------------------------------------------------------------------------
(* The list.                                                               *)

\* What the query matches, it goes on matching unless it is refused.
LEMMA MatchingKept ==
    ASSUME Inductive, ChatOf, CacheInv, [ChatNext]_chatVars, NEW m \in Matching
    PROVE  m \in Matching' \/ Copy(m) \in refused'
<1>1. [Next]_vars /\ chat' = chat
  BY ScreenStep, ChatKept DEF ChatOf
<1>v. PICK v \in Users : v = Viewer
  BY ViewerCursors
<1>2. /\ persisted[v] \in Nat /\ acked[v] \in Nat /\ applied[v] \in Nat
      /\ acked[v] <= applied[v]
      /\ acked'[v] \in Nat /\ persisted'[v] \in Nat /\ persisted[v] <= persisted'[v]
      /\ \A x \in 1 .. persisted[v] : log'[v][x] = log[v][x]
  BY <1>1, <1>v, ViewerCursors, LogEffect
<1>3. Viewer' = v /\ Exchanged' = Exchanged /\ Copy(m)' = Copy(m)
  BY <1>1, <1>v, SameChat
<1>4. /\ m \in Exchanged /\ m \in Messages /\ Copy(m) \in Writes
      /\ cached[m] \in Nat /\ cached[m] <= stamp[Copy(m)] /\ stamp[Copy(m)] \in Nat
  BY CopyFacts DEF Matching, CacheInv, Dates, Inductive, TypeOK
<1>5. ASSUME NEW i \in acked'[v] + 1 .. persisted[v], log[v][i] = Copy(m)
      PROVE  m \in Matching'
  <2>1. i \in acked'[v] + 1 .. persisted'[v] /\ log'[v][i] = Copy(m)
    BY <1>2, <1>5
  <2>2. Pending(m)'
    BY <1>3, <2>1 DEF Pending
  <2> QED
    BY <1>3, <1>4, <2>2 DEF Matching
<1>6. cached'[m] # 0 => m \in Matching'
  BY <1>3, <1>4 DEF Matching
<1>7. cached[m] # 0 \/ \E i \in acked[v] + 1 .. persisted[v] : log[v][i] = Copy(m)
  BY <1>v DEF Matching, Pending
<1>8. CASE Watch
  <2>1. /\ cached' = [k \in Messages |-> IF k \in Exchanged THEN stamp[Copy(k)] ELSE 0]
        /\ acked' = acked
    BY <1>8 DEF Watch, vars, device
  <2>2. cached'[m] = stamp[Copy(m)]
    BY <1>4, <2>1
  <2>3. cached[m] # 0 => cached'[m] # 0
    BY <1>4, <2>2
  <2> QED
    BY <1>5, <1>6, <1>7, <2>1, <2>3
<1>9. CASE AcknowledgeOwn
  <2> DEFINE p == acked[v] + 1
  <2>1. /\ acked'[v] = p
        /\ stamp[log[v][p]] # 0
        /\ cached'[m] = IF Copy(m) = log[v][p] THEN stamp[log[v][p]] ELSE cached[m]
    BY <1>v, <1>4, <1>9, AckParts
  <2>2. cached[m] # 0 => cached'[m] # 0
    BY <2>1
  <2>3. ASSUME NEW i \in acked[v] + 1 .. persisted[v], log[v][i] = Copy(m)
        PROVE  i \in acked'[v] + 1 .. persisted[v] \/ cached'[m] # 0
    <3>1. i = p \/ i > p
      BY <1>2
    <3> QED
      BY <1>2, <2>1, <2>3, <3>1
  <2> QED
    BY <1>5, <1>6, <1>7, <2>2, <2>3
<1>10. CASE /\ cached' = cached
            /\ \A x \in 1 .. acked'[Viewer] :
                 x > acked[Viewer] => log[Viewer][x] \in refused'
  <2>1. ASSUME NEW i \in acked[v] + 1 .. persisted[v], log[v][i] = Copy(m)
        PROVE  i \in acked'[v] + 1 .. persisted[v] \/ Copy(m) \in refused'
    BY <1>v, <1>2, <1>10, <2>1
  <2> QED
    BY <1>5, <1>6, <1>7, <1>10, <2>1
<1> QED
  BY <1>8, <1>9, <1>10, StepKinds DEF CacheInv

\* Only a callback and the end of a screen change the list.
LEMMA ListKinds ==
    ASSUME [ChatNext]_chatVars
    PROVE  \/ listaMensagens' = listaMensagens /\ rows' = rows /\ failed' = failed
           \/ /\ Snapshot
              /\ listaMensagens' = View /\ rows' = View /\ failed' = FALSE
              /\ sent' = sent /\ log' = log /\ refused' = refused
              /\ kept' = kept /\ basis' = basis
              /\ acked' = acked /\ persisted' = persisted
              /\ cached' = cached /\ held' = held /\ chat' = chat
           \/ /\ screen' = "closed"
              /\ listaMensagens' = << >> /\ rows' = << >> /\ failed' = FALSE
           \/ listaMensagens' = << >> /\ rows' = rows /\ failed' = TRUE
<1>1. CASE OpenChat \/ ViewWillDisappear \/ ViewWillAppear \/ Watch \/ TextFieldDidChange
           \/ AcknowledgeOwn \/ Elsewhere \/ UNCHANGED chatVars
  <2>1. UNCHANGED table
    BY <1>1, Zenon DEF OpenChat, ViewWillDisappear, ViewWillAppear, Watch, TextFieldDidChange,
           AcknowledgeOwn, Elsewhere, Offscreen, chatVars
  <2> QED
    BY <2>1 DEF table
<1>2. ASSUME NEW m \in Messages, SendBtnPressed(m)
      PROVE  listaMensagens' = listaMensagens /\ rows' = rows /\ failed' = failed
  BY <1>2 DEF SendBtnPressed, table
<1>3. CASE Snapshot
  BY <1>3 DEF Snapshot, Reload, vars, device, cache, history
<1>4. CASE Popped \/ CrashOwn \/ ShowRow
  BY <1>4 DEF Popped, CrashOwn, ShowRow, Released
<1>5. CASE ListenerFailed
  BY <1>5 DEF ListenerFailed
<1> QED
  BY <1>1, <1>2, <1>3, <1>4, <1>5 DEF ChatNext

\* What the query matches was sent.
LEMMA MatchingIsSent ==
    ASSUME Inductive, ChatOf, CacheInv, NEW m \in Matching
    PROVE  m \in Exchanged /\ m \in sent
<1>1. m \in Exchanged
  BY DEF Matching
<1>2. CASE cached[m] # 0
  BY <1>1, <1>2, CachedIsSent DEF CacheInv
<1>3. CASE Pending(m)
  <2>1. PICK p \in 1 .. Len(log[Viewer]) : At(p, m)
    BY <1>1, <1>3, EstimatedPlace DEF CacheInv, Estimated
  <2>2. Copy(m)[1] = m /\ log[Viewer][p] = Copy(m)
    BY <1>1, <2>1, CopyFacts DEF At
  <2>3. log[Viewer][p][1] \in sent
    BY ViewerCursors DEF LogInv
  <2> QED
    BY <1>1, <2>2, <2>3
<1> QED
  BY <1>1, <1>2, <1>3 DEF Matching

(* The viewer's own messages are in the order they were typed in every      *)
(* snapshot: what is dated and what is estimated change sides in order.     *)
LEMMA ViewOwnOrder ==
    ASSUME Inductive, ChatOf, CacheInv, NEW m \in Matching, NEW n \in Matching,
           NEW b \in 1 .. Len(log[Viewer]), NEW a \in 1 .. b - 1, At(a, m), At(b, n),
           Copy(m) \notin refused, Copy(n) \notin refused
    PROVE  Newer(n, m)
<1>1. m \in Exchanged /\ n \in Exchanged
  BY DEF Matching
<1>v. PICK v \in Users : v = Viewer
  BY ViewerCursors
<1>2. /\ persisted[v] \in Nat /\ applied[v] \in Nat /\ acked[v] \in Nat
      /\ acked[v] <= applied[v] /\ applied[v] <= persisted[v]
      /\ persisted[v] <= Len(log[v]) /\ Len(log[v]) \in Nat
      /\ TypeOK /\ LogInv
  BY <1>v, ViewerCursors
<1>3. a \in 1 .. Len(log[v]) /\ b \in 1 .. Len(log[v]) /\ a < b
  BY <1>v, <1>2
<1>4. /\ Position(m) = a /\ \A q \in 1 .. Len(log[v]) : At(q, m) => q = a
      /\ Position(n) = b /\ \A q \in 1 .. Len(log[v]) : At(q, n) => q = b
      /\ From[n] = v
  BY <1>1, <1>2, <1>3, <1>v, PlaceOf
<1>5. CASE Estimated(n)
  <2>1. CASE Estimated(m)
    BY <1>3, <1>4, <1>5, <2>1, NewerByKind
  <2>2. CASE ~Estimated(m)
    BY <1>5, <2>2, NewerByKind
  <2> QED
    BY <2>1, <2>2
<1>6. CASE ~Estimated(n)
  <2>1. cached[n] # 0
    BY <1>6 DEF Matching, Estimated
  <2>2. Stored(Copy(n)) /\ Copy(n) \in Writes /\ Copy(n)[1] = n
    BY <1>1, <2>1, CachedIsSent, CopyFacts DEF CacheInv, Stored
  <2>3. PICK i \in 1 .. persisted[v] : log[v][i] = Copy(n)
    BY <1>4, <2>2 DEF Inductive, OnDisk
  <2>4. i = b
    BY <1>2, <1>4, <1>v, <2>3 DEF At
  <2>5. ~(b \in acked[v] + 1 .. persisted[v])
    BY <1>6, <1>v DEF Estimated, Pending, At
  <2>6. b \in 1 .. acked[v]
    BY <1>2, <2>3, <2>4, <2>5
  <2>7. /\ a \in 1 .. acked[v] /\ b \in 1 .. applied[v]
        /\ ~(acked[v] < b)
    BY <1>2, <1>3, <2>6
  <2>8. ~Pending(m)
    <3> SUFFICES ASSUME NEW j \in acked[v] + 1 .. persisted[v], log[v][j] = Copy(m)
                 PROVE  FALSE
      BY <1>v DEF Pending
    <3>1. j = a
      BY <1>2, <1>4, <1>v DEF At
    <3> QED
      BY <1>2, <2>7, <3>1
  <2>9. m \notin held
    BY <1>1, <1>6, <1>v, <2>7 DEF CacheInv, HeldTogether, Estimated
  <2>10. cached[m] = stamp[Copy(m)] /\ cached[n] = stamp[Copy(n)]
    BY <1>1, <1>v, <2>6, <2>7 DEF CacheInv, CaughtUp
  <2>11. log[v][a] = Copy(m) /\ log[v][b] = Copy(n)
    BY <1>v DEF At
  <2>12. stamp[Copy(m)] < stamp[Copy(n)]
    BY <2>7, <2>11 DEF Inductive, StampInv
  <2>13. ~Estimated(m)
    BY <2>8, <2>9 DEF Estimated
  <2>14. cached[m] \in Nat /\ cached[n] \in Nat
    BY <1>1, CopyFacts DEF CacheInv, Dates
  <2>15. cached[n] > cached[m]
    BY <2>10, <2>12, <2>14
  <2> QED
    BY <1>6, <2>13, <2>15, NewerByKind
<1> QED
  BY <1>5, <1>6

(* A reply is in front of what it answers in every snapshot, but for a      *)
(* message of the viewer that is pending still.                            *)
LEMMA ViewReplies ==
    ASSUME Inductive, ChatOf, CacheInv, NEW m \in Matching, NEW n \in Matching,
           Copy(n) \in kept[m]
    PROVE  \/ Newer(m, n)
           \/ /\ From[n] = Viewer /\ From[m] = Other
              /\ Copy(n) \notin basis[m]
              /\ Pending(n)
<1>1. m \in Exchanged /\ n \in Exchanged
  BY DEF Matching
<1>v. PICK v \in Users : v = Viewer
  BY ViewerCursors
<1>2. /\ persisted[v] \in Nat /\ applied[v] \in Nat /\ acked[v] \in Nat
      /\ acked[v] <= applied[v] /\ applied[v] <= persisted[v]
      /\ persisted[v] <= Len(log[v]) /\ Len(log[v]) \in Nat
      /\ TypeOK /\ LogInv
  BY <1>v, ViewerCursors
<1>3. /\ \A a, b \in 1 .. Len(log[v]) : At(a, m) /\ At(b, n) => b < a
      /\ cached[m] # 0 => stamp[Copy(n)] < cached[m] /\ (n \in held => m \in held)
  BY <1>1, <1>v DEF CacheInv, RepliesBehind
<1>4. /\ cached[m] \in Nat /\ cached[n] \in Nat /\ stamp[Copy(n)] \in Nat
      /\ cached[n] <= stamp[Copy(n)]
  BY <1>1, <1>2, CopyFacts DEF CacheInv, Dates, TypeOK
<1>5. CASE Estimated(m) /\ Estimated(n)
  <2>1. /\ Position(m) \in 1 .. Len(log[v]) /\ At(Position(m), m)
        /\ Position(n) \in 1 .. Len(log[v]) /\ At(Position(n), n)
    BY <1>1, <1>5, <1>v, EstimatedPlace DEF CacheInv
  <2>2. Position(n) < Position(m)
    BY <1>3, <2>1
  <2>3. Position(m) > Position(n)
    BY <1>2, <2>1, <2>2
  <2> QED
    BY <1>5, <2>3, NewerByKind
<1>6. CASE ~Estimated(m) /\ Estimated(n)
  <2>1. cached[m] # 0 /\ m \notin held
    BY <1>6 DEF Matching, Estimated
  <2>2. Pending(n) /\ From[n] = v
    BY <1>1, <1>3, <1>6, <1>v, <2>1, EstimatedPlace DEF CacheInv, Estimated
  <2>3. PICK i \in acked[v] + 1 .. persisted[v] : log[v][i] = Copy(n)
    BY <1>v, <2>2 DEF Pending
  <2>4. i \in 1 .. Len(log[v]) /\ At(i, n)
    BY <1>2, <1>v, <2>3 DEF At
  <2>5. From[m] # v
    <3> SUFFICES ASSUME From[m] = v PROVE FALSE
      OBVIOUS
    <3>1. stamp[Copy(m)] # 0 /\ Copy(m) \in Writes /\ Copy(m)[1] = m
      BY <1>1, <2>1, CachedIsSent, CopyFacts DEF CacheInv
    <3>2. PICK j \in 1 .. persisted[v] : log[v][j] = Copy(m)
      BY <3>1 DEF Inductive, OnDisk, Stored
    <3>3. j \in 1 .. Len(log[v]) /\ At(j, m)
      BY <1>2, <1>v, <3>2 DEF At
    <3>4. i < j
      BY <1>3, <2>4, <3>3
    <3>5. j \in acked[v] + 1 .. persisted[v]
      BY <1>2, <3>4
    <3> QED
      BY <1>6, <1>v, <3>2, <3>5 DEF Estimated, Pending
  <2>6. Copy(n) \notin basis[m]
    <3> SUFFICES ASSUME Settled(Copy(n)) PROVE FALSE
      BY <1>1, KeptFacts
    <3>1. Copy(n)[1] = n
      BY <1>1, CopyFacts
    <3>2. PICK h \in 1 .. acked[v] : log[v][h] = Copy(n)
      BY <2>2, <3>1 DEF Settled
    <3>3. h \in 1 .. Len(log[v]) /\ At(h, n)
      BY <1>2, <1>v, <3>2 DEF At
    <3>4. h = i
      BY <1>1, <1>2, <1>v, <2>4, <3>3, PlaceOf
    <3> QED
      BY <1>2, <3>4
  <2>7. From[m] = Other
    BY <1>1, <1>v, <2>5, CopyFacts
  <2> QED
    BY <1>v, <2>2, <2>6, <2>7
<1>7. CASE Estimated(m) /\ ~Estimated(n)
  BY <1>7, NewerByKind
<1>8. CASE ~Estimated(m) /\ ~Estimated(n)
  <2>1. cached[m] # 0
    BY <1>8 DEF Matching, Estimated
  <2>2. cached[m] > cached[n]
    BY <1>3, <1>4, <2>1
  <2> QED
    BY <1>8, <2>2, NewerByKind
<1> QED
  BY <1>5, <1>6, <1>7, <1>8

LEMMA LifeStep ==
    ASSUME Life, [ChatNext]_chatVars
    PROVE  Life'
<1>1. CASE OpenChat
  BY <1>1 DEF OpenChat, AddListenerRecuperarMensagens, table, input, Life
<1>2. CASE ViewWillDisappear
  BY <1>2 DEF ViewWillDisappear, Unlisten, table, input, Life
<1>3. CASE Popped
  BY <1>3 DEF Popped, Released, Life
<1>4. CASE ViewWillAppear
  BY <1>4 DEF ViewWillAppear, AddListenerRecuperarMensagens, table, input, Life
<1>5. CASE Snapshot
  BY <1>5 DEF Snapshot, Reload, input, Life
<1>6. CASE ListenerFailed
  BY <1>6 DEF ListenerFailed, Unlisten, input, Life
<1>7. CASE Watch
  BY <1>7 DEF Watch, table, input, Life
<1>8. CASE TextFieldDidChange
  <2>1. /\ field' \in {"", "text"} /\ sendBtn' = (field' # "")
        /\ screen' = screen /\ listening' = listening /\ failed' = failed
    BY <1>8 DEF TextFieldDidChange, table
  <2> QED
    BY <2>1 DEF Life
<1>9. ASSUME NEW m \in Messages, SendBtnPressed(m) PROVE Life'
  BY <1>9 DEF SendBtnPressed, StartPushMessage, table, Life
<1>10. CASE AcknowledgeOwn
  BY <1>10 DEF AcknowledgeOwn, table, input, Life
<1>11. CASE CrashOwn \/ ShowRow
  BY <1>11 DEF CrashOwn, ShowRow, Released, Unlisten, Life
<1>12. CASE Elsewhere
  BY <1>12 DEF Elsewhere, Offscreen, table, input, Life
<1>13. CASE UNCHANGED chatVars
  BY <1>13 DEF chatVars, table, input, Life
<1> QED
  BY <1>1, <1>2, <1>3, <1>4, <1>5, <1>6, <1>7, <1>8, <1>9, <1>10, <1>11, <1>12,
     <1>13 DEF ChatNext

\* What is listed stays in order: a snapshot is, and a list that is kept
\* neither finds its messages at other places nor more of their past kept.
LEMMA ScreenInvStep ==
    ASSUME ChatInductive, [ChatNext]_chatVars
    PROVE  ScreenInv'
<1>1. Inductive /\ ChatOf /\ CacheInv /\ Life /\ Listed /\ OwnInOrder
      /\ RowsMatchMessages /\ RepliesListed
  BY DEF ChatInductive, ScreenInv
<1>2. [Next]_vars /\ chat' = chat
  BY <1>1, ScreenStep, ChatKept DEF ChatOf
<1>v. PICK v \in Users : v = Viewer
  BY <1>1, ViewerCursors
<1>3. /\ Viewer' = v /\ Exchanged' = Exchanged /\ \A m : Copy(m)' = Copy(m)
      /\ sent \subseteq sent' /\ refused \subseteq refused'
  BY <1>1, <1>2, <1>v, SameChat, LogEffect
<1>4. Life'
  BY <1>1, LifeStep
<1>5. RowsMatchMessages'
  <2>1. CASE rows' = listaMensagens'
    BY <2>1 DEF RowsMatchMessages
  <2>2. CASE failed' = TRUE
    BY <2>2 DEF RowsMatchMessages
  <2>3. CASE listaMensagens' = listaMensagens /\ rows' = rows /\ failed' = failed
    BY <1>1, <2>3 DEF RowsMatchMessages
  <2>4. rows' = listaMensagens' \/ failed' = TRUE
        \/ (listaMensagens' = listaMensagens /\ rows' = rows /\ failed' = failed)
    <3>1. CASE listaMensagens' = View /\ rows' = View
      BY <3>1
    <3>2. CASE listaMensagens' = << >> /\ rows' = << >>
      BY <3>2
    <3> QED
      BY <3>1, <3>2, ListKinds, Zenon
  <2> QED
    BY <2>1, <2>2, <2>3, <2>4
<1>6. \A i \in DOMAIN listaMensagens :
        /\ listaMensagens[i] \in Exchanged /\ listaMensagens[i] \in sent
  BY <1>1 DEF Listed
<1>7. CASE listaMensagens' = << >> /\ (rows' = rows \/ rows' = << >>)
  <2>1. Listed'
    <3>1. listaMensagens' \in Seq(Exchanged') /\ rows' \in Seq(Exchanged')
      <4>1. << >> \in Seq(Exchanged) /\ rows \in Seq(Exchanged)
        BY <1>1 DEF Listed
      <4> QED
        BY <1>3, <1>7, <4>1
    <3>2. DOMAIN listaMensagens' = {}
      BY <1>7
    <3> QED
      BY <3>1, <3>2 DEF Listed
  <2>2. OwnInOrder' /\ RepliesListed'
    BY <1>7 DEF OwnInOrder, RepliesListed
  <2> QED
    BY <1>4, <1>5, <2>1, <2>2 DEF ScreenInv
<1>8. CASE listaMensagens' = listaMensagens /\ rows' = rows
  <2>1. ASSUME NEW m \in Exchanged, NEW i \in DOMAIN listaMensagens, listaMensagens[i] = m
        PROVE  m \in sent' /\ (Copy(m) \in refused' \/ m \in Matching')
    <3>1. m \in sent /\ (Copy(m) \in refused \/ m \in Matching)
      BY <1>1, <2>1 DEF Listed
    <3> QED
      BY <1>1, <1>3, <3>1, MatchingKept
  <2>2. Listed'
    BY <1>1, <1>3, <1>8, <2>1 DEF Listed
  <2>3. OwnInOrder'
    <3> SUFFICES ASSUME NEW m \in Exchanged, NEW n \in Exchanged,
                        NEW i \in DOMAIN listaMensagens, NEW j \in DOMAIN listaMensagens,
                        NEW b \in 1 .. Len(log'[v]), NEW a \in 1 .. b - 1, i < j,
                        listaMensagens[i] = m, listaMensagens[j] = n,
                        log'[v][a] = Copy(m), log'[v][b] = Copy(n)
                 PROVE  Copy(m) \in refused' \/ Copy(n) \in refused'
      BY <1>3, <1>8 DEF OwnInOrder, At
    <3>1. /\ Copy(m) \in Writes /\ Copy(m)[1] \in sent
          /\ Copy(n) \in Writes /\ Copy(n)[1] \in sent
      BY <1>1, <1>6, CopyFacts
    <3>2. Len(log'[v]) \in Nat
      <4>1. TypeOK'
        BY <1>1, <1>2, TypeStep DEF Inductive
      <4>2. log'[v] \in Seq(Writes)
        BY <4>1 DEF TypeOK
      <4> QED
        BY <4>2
    <3>3. a \in 1 .. Len(log'[v])
      BY <3>2
    <3>4. /\ b \in 1 .. Len(log[v]) /\ log[v][a] = Copy(m) /\ log[v][b] = Copy(n)
      BY <1>1, <1>2, <3>1, <3>3, OldPlaces
    <3>5. At(a, m) /\ At(b, n) /\ b \in 1 .. Len(log[Viewer])
      BY <1>v, <3>4 DEF At
    <3>6. Copy(m) \in refused \/ Copy(n) \in refused
      BY <1>1, <3>5 DEF OwnInOrder
    <3> QED
      BY <1>3, <3>6
  <2>4. RepliesListed'
    <3> SUFFICES ASSUME NEW m \in Exchanged, NEW n \in Exchanged,
                        NEW i \in DOMAIN listaMensagens, NEW j \in DOMAIN listaMensagens,
                        i < j, listaMensagens[i] = n, listaMensagens[j] = m,
                        Copy(n) \in kept'[m]
                 PROVE  From[n] = Viewer /\ From[m] = Other /\ Copy(n) \notin basis'[m]
      BY <1>2, <1>3, <1>8, SameChat DEF RepliesListed
    <3>1. m \in sent
      BY <1>6
    <3>2. Copy(n) \in kept[m] /\ basis'[m] = basis[m]
      BY <1>1, <1>2, <3>1, KeptEffect
    <3> QED
      BY <1>1, <3>2 DEF RepliesListed
  <2> QED
    BY <1>4, <1>5, <2>2, <2>3, <2>4 DEF ScreenInv
<1>9. CASE /\ listaMensagens' = View /\ rows' = View
           /\ sent' = sent /\ log' = log /\ refused' = refused
           /\ kept' = kept /\ basis' = basis
           /\ acked' = acked /\ persisted' = persisted
           /\ cached' = cached /\ held' = held
  <2>1. /\ View \in Seq(Exchanged)
        /\ \A i \in DOMAIN View : View[i] \in Matching
        /\ \A i, j \in DOMAIN View : i < j => ~Newer(View[j], View[i])
    BY <1>1, ViewLists
  <2> DEFINE q == View
  <2> HIDE DEF q
  <2>2. \A m : Pending(m)' <=> Pending(m)
    BY <1>3, <1>9, <1>v DEF Pending
  <2>3. Matching' = Matching
    BY <1>3, <1>9, <2>2 DEF Matching
  <2>4. Listed'
    <3>1. \A i \in DOMAIN View : View[i] \in sent' /\ View[i] \in Matching'
      BY <1>1, <1>9, <2>1, <2>3, MatchingIsSent
    <3> QED
      BY <1>3, <1>9, <2>1, <3>1 DEF Listed
  <2>5. OwnInOrder'
    <3> SUFFICES ASSUME NEW m \in Exchanged, NEW n \in Exchanged,
                        NEW i \in DOMAIN View, NEW j \in DOMAIN View,
                        NEW b \in 1 .. Len(log[v]), NEW a \in 1 .. b - 1, i < j,
                        View[i] = m, View[j] = n,
                        log[v][a] = Copy(m), log[v][b] = Copy(n)
                 PROVE  Copy(m) \in refused \/ Copy(n) \in refused
      BY <1>3, <1>9 DEF OwnInOrder, At
    <3>1. At(a, m) /\ At(b, n) /\ b \in 1 .. Len(log[Viewer])
      BY <1>v DEF At
    <3>2. m \in Matching /\ n \in Matching /\ ~Newer(n, m)
      BY <2>1
    <3> QED
      BY <1>1, <3>1, <3>2, ViewOwnOrder
  <2>6. RepliesListed'
    <3> SUFFICES ASSUME NEW m \in Exchanged, NEW n \in Exchanged,
                        NEW i \in DOMAIN View, NEW j \in DOMAIN View, i < j,
                        View[i] = n, View[j] = m, Copy(n) \in kept[m]
                 PROVE  From[n] = Viewer /\ From[m] = Other /\ Copy(n) \notin basis[m]
      BY <1>2, <1>3, <1>9, SameChat DEF RepliesListed
    <3>1. n \in Matching /\ m \in Matching /\ ~Newer(m, n)
      BY <2>1
    <3> QED
      BY <1>1, <3>1, ViewReplies
  <2> QED
    BY <1>4, <1>5, <2>4, <2>5, <2>6 DEF ScreenInv
<1> QED
  BY <1>7, <1>8, <1>9, ListKinds

LEMMA ChatStep ==
    ASSUME ChatInductive, [ChatNext]_chatVars
    PROVE  ChatInductive'
<1>1. Inductive /\ ChatOf /\ CacheInv
  BY DEF ChatInductive
<1>2. [Next]_vars /\ ChatOf'
  BY <1>1, ScreenStep, ChatKept, SameChat DEF ChatOf
<1>3. Inductive'
  BY <1>1, <1>2, InductiveStep
<1> QED
  BY <1>1, <1>2, <1>3, CacheStep, ScreenInvStep DEF ChatInductive

(* The screen, the cache and the mutation queue agree on the order of the   *)
(* messages at every step: what addListenerRecuperarMensagens lists.        *)
THEOREM ChatInvariant == ChatSpec => []ChatInductive
<1>1. ChatInit => ChatInductive
  <2> SUFFICES ASSUME ChatInit PROVE ChatInductive
    OBVIOUS
  <2>1. ChatOf
    BY ChatAssumption DEF ChatInit, ChatOf
  <2>2. Inductive
    BY InductiveInit DEF ChatInit
  <2>3. Viewer \in Users
    BY <2>1 DEF ChatOf, Viewer
  <2>4. acked[Viewer] = 0 /\ applied[Viewer] = 0 /\ held = {} /\ listaMensagens = << >>
        /\ rows = << >>
    BY <2>3 DEF ChatInit, Init
  <2>5. cached = [m \in Messages |-> 0] /\ Exchanged \subseteq Messages
    BY DEF ChatInit, Exchanged
  <2>6. stamp = [w \in Writes |-> 0]
    BY DEF ChatInit, Init
  <2>7. \A m \in Exchanged : cached[m] = 0 /\ stamp[Copy(m)] = 0
    BY <2>1, <2>5, <2>6, CopyFacts
  <2>8. Dates
    BY <2>5, <2>6, <2>7 DEF Dates
  <2>9. HeldBack /\ CaughtUp /\ LateTogether /\ HeldTogether /\ RepliesBehind
    <3>1. HeldBack /\ CaughtUp /\ LateTogether /\ HeldTogether
      BY <2>4 DEF HeldBack, CaughtUp, LateTogether, HeldTogether
    <3>2. \A m \in Exchanged : kept[m] = {}
      BY <2>5 DEF ChatInit, Init
    <3> QED
      BY <3>1, <3>2 DEF RepliesBehind
  <2>10. Life
    BY DEF ChatInit, Life
  <2>11. Listed /\ OwnInOrder /\ RowsMatchMessages /\ RepliesListed
    BY <2>4 DEF Listed, OwnInOrder, RowsMatchMessages, RepliesListed
  <2> QED
    BY <2>1, <2>2, <2>8, <2>9, <2>10, <2>11 DEF ChatInductive, CacheInv, ScreenInv
<1>2. ChatInductive /\ [ChatNext]_chatVars => ChatInductive'
  BY ChatStep
<1> QED
  BY <1>1, <1>2, PTL DEF ChatSpec

-----------------------------------------------------------------------------
(* What follows from it.                                                   *)

(* The screen's variables have their types, no listener outlives the screen *)
(* it fills, and the send button is enabled for a text and nothing else.    *)
THEOREM ChatTypeCorrect == ChatSpec => []ChatTypeOK
<1>1. ChatInductive => ChatTypeOK
  BY DEF ChatInductive, ScreenInv, CacheInv, Life, Listed, Dates, HeldBack, ChatTypeOK
<1> QED
  BY <1>1, ChatInvariant, PTL

(* cellForRowAt never indexes listaMensagens behind its end, unless an error *)
(* of the listener has emptied it.                                          *)
THEOREM RowsAreListed == ChatSpec => []RowsMatchMessages
<1>1. ChatInductive => RowsMatchMessages
  BY DEF ChatInductive, ScreenInv
<1> QED
  BY <1>1, ChatInvariant, PTL

(* Newest first, a reply is listed in front of what the server held when it *)
(* was sent, pending, acknowledged or held back.  Not covered is what the   *)
(* author's client has sent again since; and a message of the viewer that   *)
(* was still unacknowledged then may stand in front of the other's answer   *)
(* until it is acknowledged and a snapshot has been shown.                  *)
THEOREM RepliesShownBelow == ChatSpec => []ReplyShownBelow
<1>1. ChatInductive => ReplyShownBelow
  <2> SUFFICES ASSUME ChatInductive,
                      NEW i \in DOMAIN listaMensagens, NEW j \in DOMAIN listaMensagens,
                      i < j, NEW m, NEW n, n = listaMensagens[i], m = listaMensagens[j],
                      Copy(n) \in kept[m]
               PROVE  /\ From[n] = Viewer /\ From[m] = Other
                      /\ Copy(n) \notin basis[m]
                      /\ Pending(n) \/ listaMensagens # View
    BY DEF ReplyShownBelow
  <2>1. /\ Inductive /\ ChatOf /\ CacheInv /\ RepliesListed
        /\ m \in Exchanged /\ n \in Exchanged
    BY DEF ChatInductive, ScreenInv, Listed
  <2>2. From[n] = Viewer /\ From[m] = Other /\ Copy(n) \notin basis[m]
    BY <2>1 DEF RepliesListed
  <2>3. ASSUME listaMensagens = View PROVE Pending(n)
    <3>1. /\ \A x \in DOMAIN View : View[x] \in Matching
          /\ \A x, y \in DOMAIN View : x < y => ~Newer(View[y], View[x])
      BY <2>1, ViewLists
    <3>2. n \in Matching /\ m \in Matching /\ ~Newer(m, n)
      BY <2>3, <3>1
    <3> QED
      BY <2>1, <3>2, ViewReplies
  <2> QED
    BY <2>2, <2>3
<1> QED
  BY <1>1, ChatInvariant, PTL

(* The viewer's own messages are listed in the order in which they were     *)
(* typed at any moment, the other's once the dates of the server are final  *)
(* and seen by addListenerRecuperarMensagens.                               *)
THEOREM OrderIsShown == ChatSpec => []ShownInOrder
<1>1. ChatInductive => ShownInOrder
  <2> DEFINE Excused(m, n) ==
               \/ {Copy(m), Copy(n)} \cap refused # {}
               \/ /\ From[m] = Other
                  /\ \/ ~Settled(Copy(n))
                     \/ \E k \in {m, n} : cached[k] # stamp[Copy(k)]
                     \/ listaMensagens # View
  <2> SUFFICES ASSUME ChatInductive,
                      NEW i \in DOMAIN listaMensagens, NEW j \in DOMAIN listaMensagens,
                      i < j, NEW m, NEW n, m = listaMensagens[i], n = listaMensagens[j],
                      NEW a \in DOMAIN log[From[m]], NEW b \in DOMAIN log[From[m]], a < b,
                      log[From[m]][a] = Copy(m), log[From[m]][b] = Copy(n)
               PROVE  Excused(m, n)
    BY DEF ShownInOrder
  <2> SUFFICES ASSUME Copy(m) \notin refused, Copy(n) \notin refused
               PROVE  /\ From[m] = Other
                      /\ \/ ~Settled(Copy(n))
                         \/ \E k \in {m, n} : cached[k] # stamp[Copy(k)]
                         \/ listaMensagens # View
    OBVIOUS
  <2>1. /\ Inductive /\ ChatOf /\ CacheInv /\ OwnInOrder
        /\ m \in Exchanged /\ n \in Exchanged
    BY DEF ChatInductive, ScreenInv, Listed
  <2>v. PICK v \in Users : v = From[m]
    BY <2>1, CopyFacts
  <2>2. /\ applied[v] \in Nat /\ acked[v] \in Nat /\ acked[v] <= applied[v]
        /\ applied[v] <= Len(log[v]) /\ Len(log[v]) \in Nat
        /\ DOMAIN log[v] = 1 .. Len(log[v]) /\ LogInv
    <3>1. /\ persisted[v] \in Nat /\ applied[v] \in Nat /\ acked[v] \in Nat
          /\ acked[v] <= applied[v] /\ applied[v] <= persisted[v]
          /\ persisted[v] <= Len(log[v]) /\ Len(log[v]) \in Nat /\ LogInv
      BY <2>1, Cursors DEF Inductive
    <3>2. log[v] \in Seq(Writes)
      BY <2>1 DEF Inductive, TypeOK
    <3> QED
      BY <3>1, <3>2
  <2>3. /\ b \in 1 .. Len(log[v]) /\ a \in 1 .. b - 1
        /\ log[v][a] = Copy(m) /\ log[v][b] = Copy(n)
    BY <2>2, <2>v
  <2>4. From[m] = Other
    <3> SUFFICES ASSUME From[m] = Viewer PROVE FALSE
      BY <2>1, CopyFacts
    <3>1. b \in 1 .. Len(log[Viewer]) /\ At(a, m) /\ At(b, n)
      BY <2>3, <2>v DEF At
    <3> QED
      BY <2>1, <2>3, <3>1 DEF OwnInOrder
  <2>5. ASSUME Settled(Copy(n)), cached[m] = stamp[Copy(m)], cached[n] = stamp[Copy(n)],
               listaMensagens = View
        PROVE  FALSE
    <3>1. From[n] = v /\ Copy(n)[1] = n
      BY <2>1, <2>2, <2>3, CopyFacts DEF LogInv
    <3>2. PICK h \in 1 .. acked[v] : log[v][h] = Copy(n)
      BY <2>5, <3>1 DEF Settled
    <3>3. ~(h < b) /\ ~(b < h)
      <4>1. h \in 1 .. Len(log[v])
        BY <2>2
      <4>2. h < b => h \in 1 .. b - 1
        BY <2>2, <2>3
      <4>3. b < h => b \in 1 .. h - 1
        BY <2>2, <2>3
      <4> QED
        BY <2>2, <2>3, <3>2, <4>1, <4>2, <4>3 DEF LogInv
    <3>4. b \in 1 .. applied[v]
      BY <2>2, <2>3, <3>3
    <3>5. stamp[Copy(m)] < stamp[Copy(n)]
      BY <2>1, <2>3, <3>4 DEF Inductive, StampInv
    <3>6. ~Estimated(m) /\ ~Estimated(n)
      <4>1. Other # Viewer
        BY <2>1, CopyFacts
      <4> QED
        BY <2>1, <2>4, <2>v, <3>1, <4>1, EstimatedPlace DEF CacheInv
    <3>7. cached[n] \in Nat /\ cached[m] \in Nat
      BY <2>1, CopyFacts DEF CacheInv, Dates
    <3>8. Newer(n, m)
      BY <2>5, <3>5, <3>6, <3>7, NewerByKind
    <3> QED
      BY <2>1, <2>5, <3>8, ViewLists
  <2> QED
    BY <2>4, <2>5
<1> QED
  BY <1>1, ChatInvariant, PTL

(* A message that is listed stays listed while its screen is open: only a   *)
(* refusal or an error of the listener takes it away.                       *)
THEOREM ListedStays == ChatSpec => NothingVanishes
<1>1. ChatInductive /\ [ChatNext]_chatVars =>
        [screen = "open" /\ screen' = "open" =>
            \/ failed'
            \/ \A m \in Seqs!ToSet(listaMensagens) \ Seqs!ToSet(listaMensagens') :
                   Copy(m) \in refused]_chatVars
  <2> SUFFICES ASSUME ChatInductive, [ChatNext]_chatVars, screen = "open",
                      screen' = "open", failed' # TRUE,
                      NEW m \in Seqs!ToSet(listaMensagens),
                      m \notin Seqs!ToSet(listaMensagens')
               PROVE  Copy(m) \in refused
    OBVIOUS
  <2>1. PICK i \in DOMAIN listaMensagens : listaMensagens[i] = m
    BY DEF Seqs!ToSet
  <2>2. m \in Exchanged /\ (Copy(m) \in refused \/ m \in Matching)
    BY <2>1 DEF ChatInductive, ScreenInv, Listed
  <2>3. CASE listaMensagens' = listaMensagens
    BY <2>3
  <2>4. CASE listaMensagens' = View
    <3>1. m \in Matching => \E k \in DOMAIN View : View[k] = m
      BY ViewLists DEF ChatInductive
    <3>2. m \notin Matching
      BY <2>4, <3>1 DEF Seqs!ToSet
    <3> QED
      BY <2>2, <3>2
  <2>5. listaMensagens' = listaMensagens \/ listaMensagens' = View
    BY ListKinds
  <2> QED
    BY <2>3, <2>4, <2>5
<1> QED
  BY <1>1, ChatInvariant, PTL DEF ChatSpec, NothingVanishes

(* A screen whose listener has seen everything and whose device has nothing *)
(* left to send, as addListenerRecuperarMensagens will find it in the end,  *)
(* lists the mailbox: all of it, nothing else, nothing twice, and in the    *)
(* order of the dates of the server, newest first.                          *)
Current ==
    /\ Drained(Viewer) /\ held = {}
    /\ \A m \in Exchanged : cached[m] = stamp[Copy(m)]
    /\ listaMensagens = View

CurrentListsMailbox ==
    Current =>
        /\ Seqs!ToSet(listaMensagens) = Mailbox(Viewer, Other)
        /\ \A i, j \in DOMAIN listaMensagens :
             i < j => stamp[Copy(listaMensagens[i])] > stamp[Copy(listaMensagens[j])]

\* The messages of a mailbox are those whose copy is stored.
LEMMA MailboxIs ==
    ASSUME ChatOf
    PROVE  Mailbox(Viewer, Other) = {m \in Exchanged : stamp[Copy(m)] # 0}
<1>1. Viewer # Other
  BY DEF ChatOf, Viewer, Other
<1>2. ASSUME NEW m \in Messages
      PROVE  m \in Mailbox(Viewer, Other) <=> m \in Exchanged /\ stamp[Copy(m)] # 0
  <2>1. m \in Mailbox(Viewer, Other) <=>
          \/ stamp[<<m, 1>>] # 0 /\ From[m] = Viewer /\ To[m] = Other
          \/ stamp[<<m, 2>>] # 0 /\ To[m] = Viewer /\ From[m] = Other
    BY DEF Mailbox, Stored, Owner, Peer
  <2>2. m \in Exchanged <=> \/ From[m] = Viewer /\ To[m] = Other
                            \/ To[m] = Viewer /\ From[m] = Other
    BY <1>1 DEF Exchanged
  <2> QED
    BY <1>1, <2>1, <2>2 DEF Copy
<1> QED
  BY <1>2 DEF Mailbox, Exchanged

(* What the screen shows when it has caught up is the server's mailbox in   *)
(* the order of its dates, whatever crashes, resends and refusals led there: *)
(* the part of "the list catches up" that needs no fairness.                *)
THEOREM CaughtUpIsMailbox == ChatSpec => []CurrentListsMailbox
<1>1. ChatInductive => CurrentListsMailbox
  <2> SUFFICES ASSUME ChatInductive, Current
               PROVE  /\ Seqs!ToSet(View) = Mailbox(Viewer, Other)
                      /\ \A i, j \in DOMAIN View :
                           i < j => stamp[Copy(View[i])] > stamp[Copy(View[j])]
    BY DEF CurrentListsMailbox, Current
  <2>1. /\ Inductive /\ ChatOf /\ CacheInv /\ held = {}
        /\ \A m \in Exchanged : cached[m] = stamp[Copy(m)]
        /\ acked[Viewer] = Len(log[Viewer])
    BY DEF ChatInductive, Current, Drained
  <2>2. \A m \in Exchanged : ~Pending(m) /\ ~Estimated(m)
    BY <2>1, ViewerCursors DEF Pending, Estimated
  <2>3. Matching = Mailbox(Viewer, Other)
    BY <2>1, <2>2, MailboxIs DEF Matching
  <2>4. /\ \A i \in DOMAIN View : View[i] \in Matching
        /\ \A m \in Matching : \E i \in DOMAIN View : View[i] = m
    BY <2>1, ViewLists
  <2>5. ASSUME NEW i \in DOMAIN View, NEW j \in DOMAIN View, i < j
        PROVE  stamp[Copy(View[i])] > stamp[Copy(View[j])]
    <3> DEFINE m == View[i]
               n == View[j]
    <3>1. View \in Seq(Exchanged)
      BY <2>1, ViewLists
    <3>2. i \in Nat /\ j \in Nat
      BY <3>1
    <3>3. m \in Matching /\ n \in Matching /\ ~Newer(n, m) /\ m # n
      BY <2>1, <2>4, <2>5, <3>2, ViewLists
    <3>4. m \in Exchanged /\ n \in Exchanged
      BY <3>3 DEF Matching
    <3> HIDE DEF m, n
    <3>5. ~(cached[n] > cached[m])
      BY <2>2, <3>3, <3>4, NewerByKind
    <3>6. /\ cached[m] \in Nat /\ cached[n] \in Nat
          /\ cached[m] = cached[n] /\ cached[m] # 0 => m = n
      BY <2>1, <3>4, CopyFacts DEF CacheInv, Dates
    <3>7. cached[m] # 0
      BY <2>2, <3>3, <3>4 DEF Matching
    <3>8. cached[m] > cached[n]
      BY <3>3, <3>5, <3>6, <3>7
    <3> QED
      BY <2>1, <3>4, <3>8 DEF m, n
  <2>6. Seqs!ToSet(View) = Mailbox(Viewer, Other)
    BY <2>3, <2>4 DEF Seqs!ToSet
  <2> QED
    BY <2>5, <2>6
<1> QED
  BY <1>1, ChatInvariant, PTL

(* The screen in front of actionPushMessage refines the send path alone.    *)
THEOREM ScreenRefinesSendPath == ChatSpec => Spec
<1>1. ChatInit => Init
  BY DEF ChatInit
<1>2. ChatInductive /\ [ChatNext]_chatVars => [Next]_vars
  BY ScreenStep DEF ChatInductive, ChatOf
<1> QED
  BY <1>1, <1>2, ChatInvariant, PTL DEF ChatSpec, Spec

(* With any screen on top, a preview written by salvarConversa leads to a   *)
(* message its chat shows, unless that copy was refused.                    *)
THEOREM PreviewsLeadUnderScreen == ChatSpec => []NoDanglingPreview
  BY ScreenRefinesSendPath, PreviewsLead

(* With any screen on top, a message is dated after all of others' that the *)
(* server held when actionPushMessage sent it, unless that has been sent    *)
(* again since.                                                             *)
THEOREM RepliesFollowUnderScreen == ChatSpec => []ReplyFollowsBasis
  BY ScreenRefinesSendPath, RepliesFollow

(* With any screen on top, no preview goes back from an answer to what it   *)
(* answers, unless salvarConversa's write of the latter was sent again.     *)
THEOREM AnswersStayUnderScreen == ChatSpec => []AnswerStaysOnTop
  BY ScreenRefinesSendPath, AnswersStayOnTop

(* With any screen on top, the four writes of actionPushMessage take effect *)
(* in order, and what a crash loses of a message is its tail.               *)
THEOREM ScreenKeepsContract == ChatSpec => ImplementsContract
  BY ScreenRefinesSendPath, SendPathKeepsContract
=============================================================================
