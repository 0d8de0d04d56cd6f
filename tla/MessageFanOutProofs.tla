------------------------- MODULE MessageFanOutProofs -------------------------
(***************************************************************************)
(* Theorems about the send path, for any number of users and messages, any *)
(* pipeline depth and any number of faults.                                *)
(***************************************************************************)
EXTENDS MessageFanOut, SequenceTheorems, TLAPS

USE FanOutAssumption

-----------------------------------------------------------------------------
(* The four writes of a message, as a sequence.                            *)
LEMMA FanOutSeq ==
    ASSUME NEW m \in Messages
    PROVE  /\ FanOut(m) \in Seq(Writes)
           /\ Len(FanOut(m)) = 4
           /\ \A k \in Steps : FanOut(m)[k] = <<m, k>>
  BY DEF FanOut, Writes, Steps

(* The path of a write names two users.                                    *)
LEMMA PathType ==
    ASSUME NEW w \in Writes
    PROVE  /\ From[w[1]] \in Users
           /\ Owner(w) \in Users
           /\ Peer(w) \in Users
           /\ w[1] \in Messages
           /\ w[2] \in Steps
  BY DEF Writes, Owner, Peer

-----------------------------------------------------------------------------
(* Every step, of a user, a client or the server, keeps the types and the   *)
(* order of the cursors.                                                   *)
LEMMA TypeStep == TypeOK /\ [Next]_vars => TypeOK'
<1> SUFFICES ASSUME TypeOK, [Next]_vars PROVE TypeOK'
  OBVIOUS
<1>1. CASE UNCHANGED vars
  BY <1>1 DEF TypeOK, vars, device, server, history
<1>2. ASSUME NEW m \in Messages, ActionPushMessage(m) PROVE TypeOK'
  <2>1. /\ FanOut(m) \in Seq(Writes)
        /\ Len(FanOut(m)) = 4
    BY FanOutSeq
  <2>2. log' \in [Users -> Seq(Writes)]
    BY <1>2, <2>1 DEF ActionPushMessage, TypeOK
  <2>3. \A u \in Users : Len(log'[u]) >= Len(log[u])
    BY <1>2, <2>1 DEF ActionPushMessage, TypeOK
  <2>4. /\ sent' \in SUBSET Messages
        /\ kept' \in [Messages -> SUBSET Writes]
        /\ basis' \in [Messages -> SUBSET Writes]
    BY <1>2 DEF ActionPushMessage, TypeOK, Answerable
  <2>5. UNCHANGED <<persisted, applied, acked, refused, stamp, preview, clock, faults>>
    BY <1>2 DEF ActionPushMessage, server
  <2>6. \A u \in Users : persisted'[u] <= Len(log'[u])
    BY <2>2, <2>3, <2>5 DEF TypeOK
  <2> QED
    BY <2>2, <2>4, <2>5, <2>6 DEF TypeOK
<1>3. ASSUME NEW u \in Users, WriteLocally(u) PROVE TypeOK'
  BY <1>3 DEF WriteLocally, TypeOK, server, history
<1>4. ASSUME NEW u \in Users, Commit(u) PROVE TypeOK'
  <2> DEFINE w == log[u][applied[u] + 1]
  <2>1. w \in Writes
    BY <1>4 DEF Commit, TypeOK
  <2>2. /\ stamp' \in [Writes -> Nat]
        /\ clock' \in Nat
    BY <1>4, <2>1 DEF Commit, ServerTimestamp, TypeOK
  <2>3. preview' \in [Users \X Users -> Messages \cup {None}]
    BY <1>4, <2>1, PathType DEF Commit, SalvarConversa, Path, TypeOK
  <2>a. /\ applied[u] < persisted[u]
        /\ applied' = [applied EXCEPT ![u] = @ + 1]
    BY <1>4 DEF Commit
  <2>4. applied' \in [Users -> Nat]
    BY <2>a DEF TypeOK
  <2>5. UNCHANGED <<sent, kept, basis, log, persisted, acked, refused, faults>>
    BY <1>4 DEF Commit, history
  <2>6. \A v \in Users : acked[v] <= applied'[v] /\ applied'[v] <= persisted[v]
    BY <2>a DEF TypeOK
  <2> QED
    BY <2>2, <2>3, <2>4, <2>5, <2>6 DEF TypeOK
<1>5. ASSUME NEW u \in Users, Acknowledge(u) PROVE TypeOK'
  BY <1>5 DEF Acknowledge, TypeOK, server, history
<1>6. ASSUME NEW u \in Users, Refuse(u) PROVE TypeOK'
  <2>1. log[u][applied[u] + 1] \in Writes
    BY <1>6 DEF Refuse, TypeOK
  <2> QED
    BY <1>6, <2>1 DEF Refuse, TypeOK, server, history
<1>7. ASSUME NEW u \in Users, BreakStream(u) PROVE TypeOK'
  BY <1>7 DEF BreakStream, TypeOK, server
<1>8. ASSUME NEW u \in Users, Crash(u) PROVE TypeOK'
  <2>1. /\ SubSeq(log[u], 1, persisted[u]) \in Seq(Writes)
        /\ Len(SubSeq(log[u], 1, persisted[u])) = persisted[u]
    BY DEF TypeOK
  <2> QED
    BY <1>8, <2>1 DEF Crash, TypeOK, server
<1> QED
  BY <1>1, <1>2, <1>3, <1>4, <1>5, <1>6, <1>7, <1>8 DEF Next

(* Every variable keeps its type and the cursors of every device stay in    *)
(* order, whatever the interleaving of sends, acknowledgements and faults.  *)
THEOREM TypeCorrect == Spec => []TypeOK
<1>1. Init => TypeOK
  BY DEF Init, TypeOK, Writes
<1>2. TypeOK /\ [Next]_vars => TypeOK'
  BY TypeStep
<1> QED
  BY <1>1, <1>2, PTL DEF Spec

-----------------------------------------------------------------------------
(* What the steps that change a log or the server do to them.              *)

(* A send appends its four writes and disturbs nothing before them.        *)
LEMMA PushLog ==
    ASSUME TypeOK, NEW m \in Messages, ActionPushMessage(m)
    PROVE  /\ \A v \in Users :
                /\ Len(log'[v]) >= Len(log[v])
                /\ \A i \in 1 .. Len(log[v]) : log'[v][i] = log[v][i]
           /\ \A v \in Users : v # From[m] => log'[v] = log[v]
           /\ Len(log'[From[m]]) = Len(log[From[m]]) + 4
           /\ \A k \in Steps : log'[From[m]][Len(log[From[m]]) + k] = <<m, k>>
<1> DEFINE u == From[m]
           F == FanOut(m)
<1>1. u \in Users /\ log \in [Users -> Seq(Writes)]
  BY DEF TypeOK
<1>2. log' = [log EXCEPT ![u] = @ \o F]
  BY DEF ActionPushMessage
<1>3. F \in Seq(Writes) /\ Len(F) = 4 /\ \A k \in Steps : F[k] = <<m, k>>
  BY FanOutSeq
<1> HIDE DEF u, F
<1>4. log'[u] = log[u] \o F /\ log[u] \in Seq(Writes)
  BY <1>1, <1>2
<1>5. Len(log'[u]) = Len(log[u]) + 4
  <2>0. log[u] \in Seq(Writes) /\ F \in Seq(Writes)
    BY <1>3, <1>4
  <2>1. Len(log[u] \o F) = Len(log[u]) + Len(F)
    BY <2>0, ConcatProperties, Zenon
  <2> QED
    BY <1>3, <1>4, <2>1
<1>6. \A i \in 1 .. Len(log[u]) : log'[u][i] = log[u][i]
  BY <1>3, <1>4
<1>7. \A k \in Steps : log'[u][Len(log[u]) + k] = <<m, k>>
  <2> SUFFICES ASSUME NEW k \in Steps
               PROVE  (log[u] \o F)[Len(log[u]) + k] = <<m, k>>
    BY <1>4
  <2>1. k \in 1 .. 4 /\ Len(log[u]) \in Nat
    BY <1>4 DEF Steps
  <2>2. (log[u] \o F)[Len(log[u]) + k] = F[k]
    BY <1>3, <1>4, <2>1
  <2> QED
    BY <1>3, <2>2
<1>8. ASSUME NEW v \in Users
      PROVE  /\ Len(log'[v]) >= Len(log[v])
             /\ \A i \in 1 .. Len(log[v]) : log'[v][i] = log[v][i]
  <2>1. CASE v = u
    BY <1>4, <1>5, <1>6, <2>1
  <2>2. CASE v # u
    <3>1. log'[v] = log[v] /\ log[v] \in Seq(Writes)
      BY <1>1, <1>2, <2>2
    <3> QED
      BY <3>1
  <2> QED
    BY <2>1, <2>2
<1>9. \A v \in Users : v # u => log'[v] = log[v]
  BY <1>1, <1>2
<1> QED
  BY <1>5, <1>7, <1>8, <1>9 DEF u

(* A crash keeps of each log at least what was on disk.                    *)
LEMMA CrashLog ==
    ASSUME TypeOK, NEW u \in Users, Crash(u)
    PROVE  \A v \in Users :
             /\ persisted[v] <= Len(log'[v])
             /\ Len(log'[v]) <= Len(log[v])
             /\ \A i \in 1 .. Len(log'[v]) : log'[v][i] = log[v][i]
<1>1. log' = [log EXCEPT ![u] = SubSeq(@, 1, persisted[u])]
  BY DEF Crash
<1>2. /\ log \in [Users -> Seq(Writes)]
      /\ \A v \in Users : persisted[v] \in Nat /\ persisted[v] <= Len(log[v])
  BY DEF TypeOK
<1>3. /\ Len(SubSeq(log[u], 1, persisted[u])) = persisted[u]
      /\ \A i \in 1 .. persisted[u] : SubSeq(log[u], 1, persisted[u])[i] = log[u][i]
  BY <1>2
<1>4. log'[u] = SubSeq(log[u], 1, persisted[u])
  BY <1>1, <1>2
<1>5. ASSUME NEW v \in Users
      PROVE  /\ persisted[v] <= Len(log'[v])
             /\ Len(log'[v]) <= Len(log[v])
             /\ \A i \in 1 .. Len(log'[v]) : log'[v][i] = log[v][i]
  <2>1. CASE v = u
    BY <1>2, <1>3, <1>4, <2>1
  <2>2. CASE v # u
    <3>1. log'[v] = log[v] /\ log[v] \in Seq(Writes)
      BY <1>1, <1>2, <2>2
    <3> QED
      BY <1>2, <3>1
  <2> QED
    BY <2>1, <2>2
<1> QED
  BY <1>5

(* A commit dates one write, the only place of any log where it occurs.    *)
LEMMA CommitWrite ==
    ASSUME TypeOK, LogInv, NEW u \in Users, Commit(u)
    PROVE  LET p == applied[u] + 1
               w == log[u][p]
           IN  /\ w \in Writes
               /\ From[w[1]] = u
               /\ w[1] \in sent
               /\ p \in 1 .. persisted[u]
               /\ applied' = [applied EXCEPT ![u] = p]
               /\ stamp' = [stamp EXCEPT ![w] = clock + 1]
               /\ clock' = clock + 1
               /\ \A v \in Users : \A i \in 1 .. Len(log[v]) :
                    log[v][i] = w => v = u /\ i = p
<1> DEFINE p == applied[u] + 1
           w == log[u][p]
<1>1. /\ applied[u] < persisted[u]
      /\ applied' = [applied EXCEPT ![u] = p]
      /\ stamp' = [stamp EXCEPT ![w] = clock + 1]
      /\ clock' = clock + 1
  BY DEF Commit, ServerTimestamp
<1>2. /\ applied[u] \in Nat
      /\ persisted[u] \in Nat
      /\ persisted[u] <= Len(log[u])
      /\ log \in [Users -> Seq(Writes)]
  BY DEF TypeOK
<1>3. p \in 1 .. persisted[u] /\ p \in 1 .. Len(log[u])
  BY <1>1, <1>2
<1>4. w \in Writes
  BY <1>2, <1>3
<1>5. From[w[1]] = u /\ w[1] \in sent
  BY <1>3 DEF LogInv
<1>6. ASSUME NEW v \in Users, NEW i \in 1 .. Len(log[v]), log[v][i] = w
      PROVE  v = u /\ i = p
  <2>1. v = u
    BY <1>5, <1>6 DEF LogInv
  <2>2. ~(i < p)
    <3>1. i < p => i \in 1 .. p - 1
      BY <1>2
    <3> QED
      BY <1>3, <1>6, <2>1, <3>1 DEF LogInv
  <2>3. ~(p < i)
    <3>1. p < i => p \in 1 .. i - 1
      BY <1>2
    <3> QED
      BY <1>3, <1>6, <2>1, <3>1 DEF LogInv
  <2> QED
    BY <1>2, <2>1, <2>2, <2>3
<1> QED
  BY <1>1, <1>3, <1>4, <1>5, <1>6

-----------------------------------------------------------------------------
(* One lemma per conjunct of the inductive invariant.                      *)

(* A device's log holds its own writes, once each and in the order of       *)
(* actionPushMessage: only a send appends and only a crash cuts.           *)
LEMMA LogStep ==
    ASSUME TypeOK, LogInv, [Next]_vars
    PROVE  LogInv'
<1> USE DEF Steps
<1>1. ASSUME NEW m \in Messages, ActionPushMessage(m) PROVE LogInv'
  <2> SUFFICES ASSUME NEW v \in Users, NEW i \in 1 .. Len(log'[v])
               PROVE  LET w == log'[v][i] IN
                      /\ From[w[1]] = v
                      /\ w[1] \in sent'
                      /\ \A h \in 1 .. i - 1 : log'[v][h] # w
                      /\ \A k \in 1 .. w[2] - 1 :
                           \E h \in 1 .. i - 1 : log'[v][h] = <<w[1], k>>
    BY DEF LogInv
  <2>1. m \notin sent /\ sent' = sent \cup {m}
    BY <1>1 DEF ActionPushMessage
  <2>2. Len(log[v]) \in Nat /\ Len(log'[v]) \in Nat
    <3>1. TypeOK'
      BY <1>1, TypeStep DEF Next
    <3>2. log[v] \in Seq(Writes) /\ log'[v] \in Seq(Writes)
      BY <3>1 DEF TypeOK
    <3> QED
      BY <3>2
  <2>3. CASE i \in 1 .. Len(log[v])
    <3>1. \A h \in 1 .. i : log'[v][h] = log[v][h]
      BY <1>1, <2>2, <2>3, PushLog
    <3>2. LET w == log[v][i] IN
          /\ From[w[1]] = v
          /\ w[1] \in sent
          /\ \A h \in 1 .. i - 1 : log[v][h] # w
          /\ \A k \in 1 .. w[2] - 1 : \E h \in 1 .. i - 1 : log[v][h] = <<w[1], k>>
      BY <2>3 DEF LogInv
    <3>3. log'[v][i] = log[v][i] /\ \A h \in 1 .. i - 1 : log'[v][h] = log[v][h]
      BY <2>2, <2>3, <3>1
    <3> QED
      BY <2>1, <3>2, <3>3
  <2>4. CASE i \notin 1 .. Len(log[v])
    <3>1. v = From[m] /\ Len(log'[v]) = Len(log[v]) + 4
      BY <1>1, <2>4, PushLog
    <3>2. PICK q \in Steps : i = Len(log[v]) + q
      <4>1. i - Len(log[v]) \in 1 .. 4
        BY <2>2, <2>4, <3>1
      <4> QED
        BY <2>2, <4>1
    <3>3. \A k \in Steps : log'[v][Len(log[v]) + k] = <<m, k>>
      BY <1>1, <3>1, PushLog
    <3>4. log'[v][i] = <<m, q>>
      BY <3>2, <3>3
    <3>5. ASSUME NEW h \in 1 .. i - 1 PROVE log'[v][h] # <<m, q>>
      <4>1. CASE h \in 1 .. Len(log[v])
        <5>1. log'[v][h] = log[v][h] /\ log[v][h][1] \in sent
          BY <1>1, <4>1, PushLog DEF LogInv
        <5> QED
          BY <2>1, <5>1
      <4>2. CASE h \notin 1 .. Len(log[v])
        <5>1. h - Len(log[v]) \in Steps /\ h - Len(log[v]) < q
          BY <2>2, <3>2, <4>2
        <5>2. log'[v][Len(log[v]) + (h - Len(log[v]))] = <<m, h - Len(log[v])>>
          BY <3>3, <5>1
        <5>3. log'[v][h] = <<m, h - Len(log[v])>>
          BY <2>2, <5>2
        <5> QED
          BY <5>1, <5>3
      <4> QED
        BY <4>1, <4>2
    <3>6. ASSUME NEW k \in 1 .. q - 1
          PROVE  \E h \in 1 .. i - 1 : log'[v][h] = <<m, k>>
      <4>1. k \in Steps /\ Len(log[v]) + k \in 1 .. i - 1
        BY <2>2, <3>2
      <4> QED
        BY <3>3, <4>1
    <3>7. From[m] = v /\ m \in sent'
      BY <2>1, <3>1
    <3> DEFINE w == <<m, q>>
    <3>8. w[1] = m /\ w[2] = q
      OBVIOUS
    <3> HIDE DEF w
    <3> QED
      BY <3>4, <3>5, <3>6, <3>7, <3>8 DEF w
  <2> QED
    BY <2>3, <2>4
<1>2. ASSUME NEW u \in Users, Crash(u) PROVE LogInv'
  <2> SUFFICES ASSUME NEW v \in Users, NEW i \in 1 .. Len(log'[v])
               PROVE  LET w == log'[v][i] IN
                      /\ From[w[1]] = v
                      /\ w[1] \in sent'
                      /\ \A h \in 1 .. i - 1 : log'[v][h] # w
                      /\ \A k \in 1 .. w[2] - 1 :
                           \E h \in 1 .. i - 1 : log'[v][h] = <<w[1], k>>
    BY DEF LogInv
  <2>1. sent' = sent
    BY <1>2 DEF Crash
  <2>2. Len(log[v]) \in Nat /\ Len(log'[v]) \in Nat
    <3>1. TypeOK'
      BY <1>2, TypeStep DEF Next
    <3>2. log[v] \in Seq(Writes) /\ log'[v] \in Seq(Writes)
      BY <3>1 DEF TypeOK
    <3> QED
      BY <3>2
  <2>3. /\ i \in 1 .. Len(log[v])
        /\ \A h \in 1 .. i : log'[v][h] = log[v][h]
    BY <1>2, <2>2, CrashLog
  <2>4. LET w == log[v][i] IN
        /\ From[w[1]] = v
        /\ w[1] \in sent
        /\ \A h \in 1 .. i - 1 : log[v][h] # w
        /\ \A k \in 1 .. w[2] - 1 : \E h \in 1 .. i - 1 : log[v][h] = <<w[1], k>>
    BY <2>3 DEF LogInv
  <2>5. log'[v][i] = log[v][i] /\ \A h \in 1 .. i - 1 : log'[v][h] = log[v][h]
    BY <2>2, <2>3
  <2> QED
    BY <2>1, <2>4, <2>5
<1>3. ASSUME sent' = sent, log' = log PROVE LogInv'
  <2> SUFFICES ASSUME NEW v \in Users, NEW i \in 1 .. Len(log'[v])
               PROVE  LET w == log'[v][i] IN
                      /\ From[w[1]] = v
                      /\ w[1] \in sent'
                      /\ \A h \in 1 .. i - 1 : log'[v][h] # w
                      /\ \A k \in 1 .. w[2] - 1 :
                           \E h \in 1 .. i - 1 : log'[v][h] = <<w[1], k>>
    BY DEF LogInv
  <2>1. LET w == log[v][i] IN
        /\ From[w[1]] = v
        /\ w[1] \in sent
        /\ \A h \in 1 .. i - 1 : log[v][h] # w
        /\ \A k \in 1 .. w[2] - 1 : \E h \in 1 .. i - 1 : log[v][h] = <<w[1], k>>
    BY <1>3 DEF LogInv
  <2> QED
    BY <1>3, <2>1
<1>4. ASSUME NEW u \in Users, WriteLocally(u) PROVE LogInv'
  BY <1>3, <1>4 DEF WriteLocally
<1>5. ASSUME NEW u \in Users, Commit(u) PROVE LogInv'
  BY <1>3, <1>5 DEF Commit
<1>6. ASSUME NEW u \in Users, Acknowledge(u) PROVE LogInv'
  BY <1>3, <1>6 DEF Acknowledge
<1>7. ASSUME NEW u \in Users, Refuse(u) PROVE LogInv'
  BY <1>3, <1>7 DEF Refuse
<1>8. ASSUME NEW u \in Users, BreakStream(u) PROVE LogInv'
  BY <1>3, <1>8 DEF BreakStream
<1>9. CASE UNCHANGED vars
  BY <1>3, <1>9 DEF vars, device
<1> QED
  BY <1>1, <1>2, <1>4, <1>5, <1>6, <1>7, <1>8, <1>9 DEF Next

StoreInv == OnDisk /\ Answered /\ PrefixStored

(* Steps that store nothing, append nothing and keep what is on disk.      *)
LEMMA StoreFrame ==
    ASSUME TypeOK, StoreInv,
           stamp' = stamp, refused \subseteq refused',
           \A v \in Users :
             /\ persisted'[v] \in Nat
             /\ applied'[v] \in Nat
             /\ Len(log'[v]) \in Nat
             /\ persisted[v] <= persisted'[v]
             /\ persisted[v] <= Len(log'[v])
             /\ Len(log'[v]) <= Len(log[v])
             /\ \A i \in 1 .. Len(log'[v]) : log'[v][i] = log[v][i]
             /\ \A i \in 1 .. applied'[v] :
                  Stored(log[v][i]) \/ log[v][i] \in refused'
             /\ applied'[v] <= Len(log'[v])
    PROVE  StoreInv'
<1> USE DEF StoreInv, Stored
<1>1. \A v \in Users : persisted[v] \in Nat /\ Len(log[v]) \in Nat
  <2> TAKE v \in Users
  <2>1. log[v] \in Seq(Writes) /\ persisted[v] \in Nat
    BY DEF TypeOK
  <2> QED
    BY <2>1
<1>2. OnDisk'
  <2> SUFFICES ASSUME NEW w \in Writes, stamp[w] # 0
               PROVE  \E i \in 1 .. persisted'[From[w[1]]] : log'[From[w[1]]][i] = w
    BY DEF OnDisk
  <2>1. From[w[1]] \in Users
    BY PathType
  <2>2. PICK i \in 1 .. persisted[From[w[1]]] : log[From[w[1]]][i] = w
    BY DEF OnDisk
  <2>3. i \in 1 .. persisted'[From[w[1]]] /\ i \in 1 .. Len(log'[From[w[1]]])
    BY <1>1, <2>1, <2>2
  <2> QED
    BY <2>1, <2>2, <2>3
<1>3. Answered'
  <2> SUFFICES ASSUME NEW v \in Users, NEW i \in 1 .. applied'[v]
               PROVE  stamp[log'[v][i]] # 0 \/ log'[v][i] \in refused'
    BY DEF Answered
  <2>1. i \in 1 .. Len(log'[v])
    OBVIOUS
  <2> QED
    BY <2>1
<1>4. PrefixStored'
  <2> SUFFICES ASSUME NEW v \in Users, NEW i \in 1 .. Len(log'[v]),
                      stamp[log'[v][i]] # 0, NEW h \in 1 .. i - 1
               PROVE  stamp[log'[v][h]] # 0 \/ log'[v][h] \in refused'
    BY DEF PrefixStored
  <2>1. /\ i \in 1 .. Len(log[v])
        /\ h \in 1 .. Len(log'[v])
        /\ log'[v][i] = log[v][i]
        /\ log'[v][h] = log[v][h]
    BY <1>1
  <2> QED
    BY <2>1 DEF PrefixStored
<1> QED
  BY <1>2, <1>3, <1>4

(* Commits go up the log one write at a time, and neither a resend nor a    *)
(* crash takes anything back: the server keeps holding a prefix.           *)
LEMMA StoreStep ==
    ASSUME TypeOK, LogInv, StoreInv, [Next]_vars
    PROVE  StoreInv'
<1> USE DEF Stored
<1>t. \A v \in Users : /\ persisted[v] \in Nat /\ applied[v] \in Nat /\ acked[v] \in Nat
                       /\ acked[v] <= applied[v] /\ applied[v] <= persisted[v]
                       /\ persisted[v] <= Len(log[v]) /\ Len(log[v]) \in Nat
  <2> TAKE v \in Users
  <2>1. log[v] \in Seq(Writes)
    BY DEF TypeOK
  <2> QED
    BY <2>1 DEF TypeOK
<1>u. \A v \in Users : /\ persisted'[v] \in Nat /\ applied'[v] \in Nat
                       /\ applied'[v] <= persisted'[v]
                       /\ persisted'[v] <= Len(log'[v]) /\ Len(log'[v]) \in Nat
  <2> TAKE v \in Users
  <2>1. TypeOK'
    BY TypeStep
  <2>2. log'[v] \in Seq(Writes)
    BY <2>1 DEF TypeOK
  <2> QED
    BY <2>1, <2>2 DEF TypeOK
<1>1. ASSUME NEW m \in Messages, ActionPushMessage(m) PROVE StoreInv'
  <2>1. /\ stamp' = stamp /\ refused' = refused
        /\ persisted' = persisted /\ applied' = applied
        /\ m \notin sent
    BY <1>1 DEF ActionPushMessage, server
  <2>2. \A v \in Users : \A i \in 1 .. Len(log[v]) : log'[v][i] = log[v][i]
    BY <1>1, PushLog
  <2>3. OnDisk'
    <3> SUFFICES ASSUME NEW w \in Writes, stamp[w] # 0
                 PROVE  \E i \in 1 .. persisted[From[w[1]]] : log'[From[w[1]]][i] = w
      BY <2>1 DEF OnDisk
    <3>1. From[w[1]] \in Users
      BY PathType
    <3>2. PICK i \in 1 .. persisted[From[w[1]]] : log[From[w[1]]][i] = w
      BY DEF OnDisk, StoreInv
    <3>3. i \in 1 .. Len(log[From[w[1]]])
      BY <1>t, <3>1
    <3> QED
      BY <2>2, <3>1, <3>2, <3>3
  <2>4. Answered'
    <3> SUFFICES ASSUME NEW v \in Users, NEW i \in 1 .. applied[v]
                 PROVE  stamp[log'[v][i]] # 0 \/ log'[v][i] \in refused
      BY <2>1 DEF Answered
    <3>1. i \in 1 .. Len(log[v])
      BY <1>t
    <3> QED
      BY <2>2, <3>1 DEF Answered, StoreInv
  <2>5. PrefixStored'
    <3> SUFFICES ASSUME NEW v \in Users, NEW i \in 1 .. Len(log'[v]),
                        stamp[log'[v][i]] # 0, NEW h \in 1 .. i - 1
                 PROVE  stamp[log'[v][h]] # 0 \/ log'[v][h] \in refused
      BY <2>1 DEF PrefixStored
    <3>1. i \in 1 .. Len(log[v])
      <4> SUFFICES ASSUME i \notin 1 .. Len(log[v]) PROVE FALSE
        OBVIOUS
      <4>1. v = From[m] /\ Len(log'[v]) = Len(log[v]) + 4
        BY <1>1, PushLog
      <4>2. i - Len(log[v]) \in Steps
        <5>1. Len(log[v]) \in Nat /\ i \in 1 .. Len(log[v]) + 4
          BY <1>t, <4>1
        <5>2. i - Len(log[v]) \in 1 .. 4
          BY <5>1
        <5> QED
          BY <5>2 DEF Steps
      <4> DEFINE q == i - Len(log[v])
      <4>3. log'[v][Len(log[v]) + q] = <<m, q>>
        BY <1>1, <4>1, <4>2, PushLog
      <4>4. log'[v][i] = <<m, q>> /\ <<m, q>> \in Writes
        BY <1>t, <4>2, <4>3 DEF Writes
      <4>5. PICK j \in 1 .. persisted[From[m]] : log[From[m]][j] = <<m, q>>
        BY <4>4 DEF OnDisk, StoreInv
      <4>6. j \in 1 .. Len(log[v])
        BY <1>t, <4>1
      <4> QED
        BY <2>1, <4>1, <4>5, <4>6 DEF LogInv
    <3>2. h \in 1 .. Len(log[v])
      BY <1>t, <3>1
    <3> QED
      BY <2>2, <3>1, <3>2 DEF PrefixStored, StoreInv
  <2> QED
    BY <2>3, <2>4, <2>5 DEF StoreInv
<1>2. ASSUME NEW u \in Users, Commit(u) PROVE StoreInv'
  <2> DEFINE p == applied[u] + 1
             w == log[u][p]
  <2>1. /\ w \in Writes
        /\ From[w[1]] = u
        /\ p \in 1 .. persisted[u]
        /\ applied' = [applied EXCEPT ![u] = p]
        /\ stamp' = [stamp EXCEPT ![w] = clock + 1]
        /\ \A v \in Users : \A i \in 1 .. Len(log[v]) :
             log[v][i] = w => v = u /\ i = p
    BY <1>2, CommitWrite
  <2>2. log' = log /\ persisted' = persisted /\ refused' = refused
    BY <1>2 DEF Commit
  <2>3. /\ \A x \in Writes : x # w => stamp'[x] = stamp[x]
        /\ stamp'[w] # 0
    BY <2>1 DEF TypeOK
  <2>4. \A v \in Users : \A i \in 1 .. Len(log[v]) : log[v][i] \in Writes
    BY DEF TypeOK
  <2> HIDE DEF w
  <2>5. OnDisk'
    <3> SUFFICES ASSUME NEW x \in Writes, stamp'[x] # 0
                 PROVE  \E i \in 1 .. persisted[From[x[1]]] : log[From[x[1]]][i] = x
      BY <2>2 DEF OnDisk
    <3>1. CASE x = w
      BY <2>1, <3>1 DEF w
    <3>2. CASE x # w
      BY <2>3, <3>2 DEF OnDisk, StoreInv
    <3> QED
      BY <3>1, <3>2
  <2>6. Answered'
    <3> SUFFICES ASSUME NEW v \in Users, NEW i \in 1 .. applied'[v]
                 PROVE  stamp'[log[v][i]] # 0 \/ log[v][i] \in refused
      BY <2>2 DEF Answered
    <3>1. i \in 1 .. Len(log[v])
      BY <1>u, <2>2
    <3>2. CASE v = u /\ i = p
      BY <2>3, <3>2 DEF w
    <3>3. CASE ~(v = u /\ i = p)
      <4>1. log[v][i] # w /\ log[v][i] \in Writes
        BY <2>1, <2>4, <3>1, <3>3
      <4>2. i \in 1 .. applied[v]
        BY <1>t, <2>1, <3>3 DEF TypeOK
      <4> QED
        BY <2>3, <4>1, <4>2 DEF Answered, StoreInv
    <3> QED
      BY <3>2, <3>3
  <2>7. PrefixStored'
    <3> SUFFICES ASSUME NEW v \in Users, NEW i \in 1 .. Len(log[v]),
                        stamp'[log[v][i]] # 0, NEW h \in 1 .. i - 1
                 PROVE  stamp'[log[v][h]] # 0 \/ log[v][h] \in refused
      BY <2>2 DEF PrefixStored
    <3>1. h \in 1 .. Len(log[v]) /\ log[v][h] \in Writes
      BY <1>t, <2>4
    <3>2. stamp[log[v][h]] # 0 \/ log[v][h] \in refused
      <4>1. CASE v = u /\ i = p
        <5>1. h \in 1 .. applied[v]
          BY <1>t, <4>1
        <5> QED
          BY <5>1 DEF Answered, StoreInv
      <4>2. CASE ~(v = u /\ i = p)
        <5>1. log[v][i] # w /\ log[v][i] \in Writes
          BY <2>1, <2>4, <4>2
        <5> QED
          BY <2>3, <5>1 DEF PrefixStored, StoreInv
      <4> QED
        BY <4>1, <4>2
    <3> QED
      BY <2>3, <3>1, <3>2
  <2> QED
    BY <2>5, <2>6, <2>7 DEF StoreInv
<1> DEFINE Kept ==
             /\ stamp' = stamp
             /\ refused \subseteq refused'
             /\ \A v \in Users :
                  /\ persisted[v] <= persisted'[v]
                  /\ persisted[v] <= Len(log'[v])
                  /\ Len(log'[v]) <= Len(log[v])
                  /\ \A i \in 1 .. Len(log'[v]) : log'[v][i] = log[v][i]
                  /\ \A i \in 1 .. applied'[v] :
                       Stored(log[v][i]) \/ log[v][i] \in refused'
<1>f. ASSUME Kept PROVE StoreInv'
  <2>1. \A v \in Users : applied'[v] <= Len(log'[v])
    BY <1>u
  <2> QED
    BY <1>f, <1>u, <2>1, StoreFrame
<1>a. \A v \in Users : \A i \in 1 .. applied[v] : Stored(log[v][i]) \/ log[v][i] \in refused
  BY DEF Answered, StoreInv
<1>3. ASSUME NEW u \in Users, WriteLocally(u) PROVE StoreInv'
  <2>1. Kept
    BY <1>3, <1>t, <1>a DEF WriteLocally, server, TypeOK
  <2> QED
    BY <1>f, <2>1
<1>4. ASSUME NEW u \in Users, Acknowledge(u) PROVE StoreInv'
  <2>1. Kept
    BY <1>4, <1>t, <1>a DEF Acknowledge, server, TypeOK
  <2> QED
    BY <1>f, <2>1
<1>5. ASSUME NEW u \in Users, Refuse(u) PROVE StoreInv'
  <2>1. Kept
    <3>1. /\ stamp' = stamp /\ log' = log /\ persisted' = persisted
          /\ refused' = refused \cup {log[u][applied[u] + 1]}
          /\ applied' = [applied EXCEPT ![u] = @ + 1]
      BY <1>5 DEF Refuse, server
    <3>2. ASSUME NEW v \in Users, NEW i \in 1 .. applied'[v]
          PROVE  Stored(log[v][i]) \/ log[v][i] \in refused'
      <4>1. CASE v = u /\ i = applied[u] + 1
        BY <3>1, <4>1
      <4>2. CASE ~(v = u /\ i = applied[u] + 1)
        <5>0. applied'[v] = IF v = u THEN applied[u] + 1 ELSE applied[v]
          BY <3>1 DEF TypeOK
        <5>1. i \in 1 .. applied[v]
          BY <1>t, <4>2, <5>0
        <5> QED
          BY <1>a, <3>1, <5>1
      <4> QED
        BY <4>1, <4>2
    <3> QED
      BY <1>t, <3>1, <3>2
  <2> QED
    BY <1>f, <2>1
<1>6. ASSUME NEW u \in Users, BreakStream(u) PROVE StoreInv'
  <2>1. Kept
    BY <1>6, <1>t, <1>a DEF BreakStream, server, TypeOK
  <2> QED
    BY <1>f, <2>1
<1>7. ASSUME NEW u \in Users, Crash(u) PROVE StoreInv'
  <2>1. Kept
    <3>1. /\ stamp' = stamp /\ refused' = refused /\ persisted' = persisted
          /\ applied' = [applied EXCEPT ![u] = acked[u]]
      BY <1>7 DEF Crash, server
    <3>2. \A v \in Users : applied'[v] <= applied[v] /\ applied'[v] \in Nat
      BY <1>t, <3>1 DEF TypeOK
    <3>3. \A v \in Users : \A i \in 1 .. applied'[v] :
            Stored(log[v][i]) \/ log[v][i] \in refused
      BY <1>t, <1>a, <3>2
    <3>4. \A v \in Users :
            /\ persisted[v] <= Len(log'[v])
            /\ Len(log'[v]) <= Len(log[v])
            /\ \A i \in 1 .. Len(log'[v]) : log'[v][i] = log[v][i]
      BY <1>7, CrashLog
    <3> QED
      BY <1>t, <3>1, <3>3, <3>4
  <2> QED
    BY <1>f, <2>1
<1>8. CASE UNCHANGED vars
  <2>1. Kept
    BY <1>8, <1>t, <1>a DEF vars, device, server
  <2> QED
    BY <1>f, <2>1
<1> QED
  BY <1>1, <1>2, <1>3, <1>4, <1>5, <1>6, <1>7, <1>8 DEF Next

(* The cursors and the lengths of the logs, before and after a step.       *)
LEMMA Cursors ==
    ASSUME TypeOK, NEW v \in Users
    PROVE  /\ persisted[v] \in Nat /\ applied[v] \in Nat /\ acked[v] \in Nat
           /\ acked[v] <= applied[v] /\ applied[v] <= persisted[v]
           /\ persisted[v] <= Len(log[v]) /\ Len(log[v]) \in Nat
           /\ \A i \in 1 .. Len(log[v]) : log[v][i] \in Writes
<1>1. log[v] \in Seq(Writes)
  BY DEF TypeOK
<1> QED
  BY <1>1 DEF TypeOK

(* Steps that date nothing and answer only with a refusal.                 *)
LEMMA StampFrame ==
    ASSUME TypeOK, StampInv,
           stamp' = stamp, clock' = clock, refused \subseteq refused',
           \A v \in Users :
             /\ applied'[v] \in Nat
             /\ \A i \in 1 .. Len(log[v]) : i <= applied'[v] => log'[v][i] = log[v][i]
             /\ applied'[v] <= Len(log[v])
             /\ \A j \in 1 .. applied'[v] : j > applied[v] => log[v][j] \in refused'
    PROVE  StampInv'
<1> SUFFICES ASSUME NEW v \in Users, NEW j \in 1 .. applied'[v], NEW i \in 1 .. j - 1
             PROVE  \/ log'[v][i] \in refused'
                    \/ log'[v][j] \in refused'
                    \/ stamp[log'[v][i]] < stamp[log'[v][j]]
  BY DEF StampInv
<1>1. applied[v] \in Nat /\ Len(log[v]) \in Nat
  BY Cursors
<1>2. log'[v][i] = log[v][i] /\ log'[v][j] = log[v][j]
  BY <1>1
<1>3. CASE j > applied[v]
  BY <1>2, <1>3
<1>4. CASE ~(j > applied[v])
  <2>1. j \in 1 .. applied[v]
    BY <1>1, <1>4
  <2>2. \/ log[v][i] \in refused
        \/ log[v][j] \in refused
        \/ stamp[log[v][i]] < stamp[log[v][j]]
    BY <2>1 DEF StampInv
  <2> QED
    BY <1>2, <2>2
<1> QED
  BY <1>3, <1>4

(* A resend starts at the oldest unacknowledged write, and every commit is  *)
(* dated after all that went before: the dates stay in log order.          *)
LEMMA StampStep ==
    ASSUME TypeOK, LogInv, StampInv, [Next]_vars
    PROVE  StampInv'
<1>t. \A v \in Users :
        /\ persisted[v] \in Nat /\ applied[v] \in Nat /\ acked[v] \in Nat
        /\ acked[v] <= applied[v] /\ applied[v] <= persisted[v]
        /\ persisted[v] <= Len(log[v]) /\ Len(log[v]) \in Nat
        /\ \A i \in 1 .. Len(log[v]) : log[v][i] \in Writes
  BY Cursors
<1>f. ASSUME stamp' = stamp, clock' = clock, refused \subseteq refused',
             \A v \in Users :
               /\ applied'[v] \in Nat
               /\ \A i \in 1 .. Len(log[v]) : i <= applied'[v] => log'[v][i] = log[v][i]
               /\ applied'[v] <= Len(log[v])
               /\ \A j \in 1 .. applied'[v] : j > applied[v] => log[v][j] \in refused'
      PROVE  StampInv'
  BY <1>f, StampFrame
<1>1. ASSUME NEW m \in Messages, ActionPushMessage(m) PROVE StampInv'
  <2>1. /\ stamp' = stamp /\ clock' = clock /\ refused' = refused /\ applied' = applied
    BY <1>1 DEF ActionPushMessage, server
  <2>2. \A v \in Users : \A i \in 1 .. Len(log[v]) : log'[v][i] = log[v][i]
    BY <1>1, PushLog
  <2> QED
    BY <1>t, <1>f, <2>1, <2>2
<1>2. ASSUME NEW u \in Users, Commit(u) PROVE StampInv'
  <2> DEFINE p == applied[u] + 1
             w == log[u][p]
  <2>1. /\ w \in Writes
        /\ p \in 1 .. persisted[u]
        /\ applied' = [applied EXCEPT ![u] = p]
        /\ stamp' = [stamp EXCEPT ![w] = clock + 1]
        /\ clock' = clock + 1
        /\ \A v \in Users : \A i \in 1 .. Len(log[v]) :
             log[v][i] = w => v = u /\ i = p
    BY <1>2, CommitWrite
  <2>2. log' = log /\ refused' = refused
    BY <1>2 DEF Commit
  <2>3. /\ \A x \in Writes : x # w => stamp'[x] = stamp[x]
        /\ stamp'[w] = clock + 1
        /\ clock \in Nat
        /\ \A x \in Writes : stamp[x] \in Nat
    BY <2>1 DEF TypeOK
  <2> HIDE DEF w
  <2>4. \A x \in Writes : stamp'[x] <= clock'
    <3> TAKE x \in Writes
    <3>1. stamp[x] <= clock
      BY DEF StampInv
    <3>2. CASE x = w
      BY <2>1, <2>3, <3>2
    <3>3. CASE x # w
      BY <2>1, <2>3, <3>1, <3>3
    <3> QED
      BY <3>2, <3>3
  <2>5. ASSUME NEW v \in Users, NEW j \in 1 .. applied'[v], NEW i \in 1 .. j - 1
        PROVE  \/ log[v][i] \in refused
               \/ log[v][j] \in refused
               \/ stamp'[log[v][i]] < stamp'[log[v][j]]
    <3>1. applied'[v] = IF v = u THEN p ELSE applied[v]
      BY <2>1 DEF TypeOK
    <3>2. i \in 1 .. Len(log[v]) /\ j \in 1 .. Len(log[v])
      <4>1. /\ applied[v] \in Nat /\ Len(log[v]) \in Nat
            /\ applied[v] <= Len(log[v])
        BY <1>t
      <4>2. p \in 1 .. Len(log[u])
        <5>1. /\ persisted[u] \in Nat /\ Len(log[u]) \in Nat
              /\ persisted[u] <= Len(log[u])
          BY <1>t
        <5>2. p \in 1 .. persisted[u]
          BY <2>1
        <5> HIDE DEF p
        <5> QED
          BY <5>1, <5>2
      <4>3. applied'[v] \in Nat /\ applied'[v] <= Len(log[v])
        BY <3>1, <4>1, <4>2
      <4> QED
        BY <4>1, <4>3
    <3>3. log[v][i] \in Writes /\ log[v][j] \in Writes
      BY <1>t, <3>2
    <3>4. log[v][i] # w
      <4>1. ~(v = u /\ i = p)
        BY <1>t, <3>1
      <4> QED
        BY <2>1, <3>2, <4>1
    <3>5. stamp'[log[v][i]] = stamp[log[v][i]] /\ stamp[log[v][i]] <= clock
      BY <2>3, <3>3, <3>4 DEF StampInv
    <3>6. CASE v = u /\ j = p
      BY <2>3, <3>3, <3>5, <3>6 DEF w
    <3>7. CASE ~(v = u /\ j = p)
      <4>1. log[v][j] # w
        BY <2>1, <3>2, <3>7
      <4>2. stamp'[log[v][j]] = stamp[log[v][j]]
        BY <2>3, <3>3, <4>1
      <4>3. j \in 1 .. applied[v]
        BY <1>t, <3>1, <3>7
      <4> QED
        BY <3>5, <4>2, <4>3 DEF StampInv
    <3> QED
      BY <3>6, <3>7
  <2> QED
    BY <2>2, <2>4, <2>5 DEF StampInv
<1>3. ASSUME NEW u \in Users, WriteLocally(u) PROVE StampInv'
  BY <1>3, <1>t, <1>f DEF WriteLocally, server
<1>4. ASSUME NEW u \in Users, Acknowledge(u) PROVE StampInv'
  BY <1>4, <1>t, <1>f DEF Acknowledge, server
<1>5. ASSUME NEW u \in Users, Refuse(u) PROVE StampInv'
  <2>1. /\ stamp' = stamp /\ clock' = clock /\ log' = log
        /\ refused' = refused \cup {log[u][applied[u] + 1]}
        /\ applied' = [applied EXCEPT ![u] = @ + 1]
        /\ applied[u] < persisted[u]
    BY <1>5 DEF Refuse, server
  <2>2. ASSUME NEW v \in Users
        PROVE  /\ applied'[v] \in Nat
               /\ applied'[v] <= Len(log[v])
               /\ \A j \in 1 .. applied'[v] : j > applied[v] => log[v][j] \in refused'
    <3>1. CASE v = u
      <4>1. applied'[v] = applied[v] + 1
        BY <2>1, <3>1 DEF TypeOK
      <4>2. \A j \in 1 .. applied'[v] : j > applied[v] => j = applied[v] + 1
        BY <1>t, <4>1
      <4> QED
        BY <1>t, <2>1, <3>1, <4>1, <4>2
    <3>2. CASE v # u
      <4>1. applied'[v] = applied[v]
        BY <2>1, <3>2 DEF TypeOK
      <4> QED
        BY <1>t, <4>1
    <3> QED
      BY <3>1, <3>2
  <2>3. /\ refused \subseteq refused'
        /\ \A v \in Users : \A i \in 1 .. Len(log[v]) :
             i <= applied'[v] => log'[v][i] = log[v][i]
    BY <2>1
  <2> QED
    BY <1>f, <2>1, <2>2, <2>3
<1>6. ASSUME NEW u \in Users, BreakStream(u) PROVE StampInv'
  <2>1. /\ stamp' = stamp /\ clock' = clock /\ log' = log /\ refused' = refused
        /\ applied' = [applied EXCEPT ![u] = acked[u]]
    BY <1>6 DEF BreakStream, server
  <2>2. \A v \in Users : applied'[v] \in Nat /\ applied'[v] <= applied[v]
    BY <1>t, <2>1 DEF TypeOK
  <2> QED
    BY <1>t, <1>f, <2>1, <2>2
<1>7. ASSUME NEW u \in Users, Crash(u) PROVE StampInv'
  <2>1. /\ stamp' = stamp /\ clock' = clock /\ refused' = refused
        /\ applied' = [applied EXCEPT ![u] = acked[u]]
    BY <1>7 DEF Crash, server
  <2>2. \A v \in Users : applied'[v] \in Nat /\ applied'[v] <= applied[v]
    BY <1>t, <2>1 DEF TypeOK
  <2>3. \A v \in Users : \A i \in 1 .. Len(log[v]) :
          i <= applied'[v] => log'[v][i] = log[v][i]
    <3> TAKE v \in Users
    <3>1. TypeOK'
      BY TypeStep
    <3>2. /\ persisted[v] <= Len(log'[v])
          /\ \A i \in 1 .. Len(log'[v]) : log'[v][i] = log[v][i]
      BY <1>7, CrashLog
    <3>3. Len(log'[v]) \in Nat
      <4>1. log'[v] \in Seq(Writes)
        BY <3>1 DEF TypeOK
      <4> QED
        BY <4>1
    <3> QED
      BY <1>t, <2>2, <3>2, <3>3
  <2>4. \A v \in Users : /\ applied'[v] <= Len(log[v])
                         /\ \A j \in 1 .. applied'[v] : ~(j > applied[v])
    BY <1>t, <2>2
  <2>5. refused \subseteq refused'
    BY <2>1
  <2> QED
    BY <1>f, <2>1, <2>2, <2>3, <2>4, <2>5
<1>8. CASE UNCHANGED vars
  BY <1>8, <1>t, <1>f DEF vars, device, server
<1> QED
  BY <1>1, <1>2, <1>3, <1>4, <1>5, <1>6, <1>7, <1>8 DEF Next

(* Settled writes stay settled and are never dated again.                  *)
LEMMA SettledStep ==
    ASSUME TypeOK, LogInv, [Next]_vars, NEW w \in Writes, Settled(w)
    PROVE  Settled(w)' /\ stamp'[w] = stamp[w]
<1> DEFINE f == From[w[1]]
<1>1. f \in Users
  BY PathType
<1>2. PICK i \in 1 .. acked[f] : log[f][i] = w
  BY DEF Settled
<1>3. /\ acked[f] \in Nat /\ acked[f] <= applied[f] /\ applied[f] \in Nat
      /\ persisted[f] \in Nat /\ applied[f] <= persisted[f]
      /\ persisted[f] <= Len(log[f]) /\ Len(log[f]) \in Nat
  BY <1>1, Cursors
<1>4. i \in 1 .. Len(log[f])
  BY <1>3
<1> HIDE DEF f
<1>s. ASSUME acked'[f] \in Nat, acked[f] <= acked'[f], log'[f][i] = log[f][i]
      PROVE  Settled(w)'
  <2>1. i \in 1 .. acked'[f] /\ log'[f][i] = w
    BY <1>2, <1>3, <1>s
  <2> QED
    BY <2>1 DEF Settled, f
<1>5. ASSUME NEW m \in Messages, ActionPushMessage(m)
      PROVE  Settled(w)' /\ stamp'[w] = stamp[w]
  BY <1>1, <1>3, <1>4, <1>5, <1>s, PushLog DEF ActionPushMessage, server
<1>6. ASSUME NEW u \in Users, Commit(u)
      PROVE  Settled(w)' /\ stamp'[w] = stamp[w]
  <2> DEFINE p == applied[u] + 1
             x == log[u][p]
  <2>1. /\ x \in Writes
        /\ stamp' = [stamp EXCEPT ![x] = clock + 1]
        /\ \A v \in Users : \A h \in 1 .. Len(log[v]) :
             log[v][h] = x => v = u /\ h = p
    BY <1>6, CommitWrite
  <2> HIDE DEF x
  <2>2. acked' = acked /\ log' = log
    BY <1>6 DEF Commit
  <2>3. x # w
    <3>1. ~(f = u /\ i = p)
      BY <1>2, <1>3
    <3> QED
      BY <1>1, <1>2, <1>4, <2>1, <3>1
  <2>4. stamp'[w] = stamp[w]
    BY <2>1, <2>3 DEF TypeOK
  <2> QED
    BY <1>3, <1>s, <2>2, <2>4
<1>7. ASSUME NEW u \in Users, Crash(u)
      PROVE  Settled(w)' /\ stamp'[w] = stamp[w]
  <2>1. acked' = acked /\ stamp' = stamp
    BY <1>7 DEF Crash, server
  <2>2. TypeOK'
    BY TypeStep
  <2>3. Len(log'[f]) \in Nat
    <3>1. log'[f] \in Seq(Writes)
      BY <1>1, <2>2 DEF TypeOK
    <3> QED
      BY <3>1
  <2>4. /\ persisted[f] <= Len(log'[f])
        /\ \A h \in 1 .. Len(log'[f]) : log'[f][h] = log[f][h]
    BY <1>1, <1>7, CrashLog
  <2>5. log'[f][i] = log[f][i]
    BY <1>2, <1>3, <2>3, <2>4
  <2> QED
    BY <1>3, <1>s, <2>1, <2>5
<1>8. ASSUME NEW u \in Users, WriteLocally(u)
      PROVE  Settled(w)' /\ stamp'[w] = stamp[w]
  BY <1>3, <1>8, <1>s DEF WriteLocally, server
<1>9. ASSUME NEW u \in Users, Acknowledge(u)
      PROVE  Settled(w)' /\ stamp'[w] = stamp[w]
  <2>1. acked' = [acked EXCEPT ![u] = @ + 1] /\ log' = log /\ stamp' = stamp
    BY <1>9 DEF Acknowledge, server
  <2>2. acked'[f] = acked[f] \/ acked'[f] = acked[f] + 1
    BY <1>1, <2>1 DEF TypeOK
  <2> QED
    BY <1>3, <1>s, <2>1, <2>2
<1>10. ASSUME NEW u \in Users, Refuse(u)
       PROVE  Settled(w)' /\ stamp'[w] = stamp[w]
  <2>1. acked' = [acked EXCEPT ![u] = @ + 1] /\ log' = log /\ stamp' = stamp
    BY <1>10 DEF Refuse, server
  <2>2. acked'[f] = acked[f] \/ acked'[f] = acked[f] + 1
    BY <1>1, <2>1 DEF TypeOK
  <2> QED
    BY <1>3, <1>s, <2>1, <2>2
<1>11. ASSUME NEW u \in Users, BreakStream(u)
       PROVE  Settled(w)' /\ stamp'[w] = stamp[w]
  BY <1>3, <1>11, <1>s DEF BreakStream, server
<1>12. CASE UNCHANGED vars
  BY <1>3, <1>12, <1>s DEF vars, device, server
<1> QED
  BY <1>5, <1>6, <1>7, <1>8, <1>9, <1>10, <1>11, <1>12 DEF Next

(* What the server holds stays there, dated no earlier; a write that was    *)
(* already there changes its date only to a later one than any before.      *)
LEMMA ServerStep ==
    ASSUME TypeOK, LogInv, StampInv, [Next]_vars, NEW w \in Writes
    PROVE  /\ stamp[w] \in Nat /\ stamp'[w] \in Nat /\ clock \in Nat
           /\ stamp'[w] = stamp[w] \/ stamp'[w] = clock + 1
           /\ stamp[w] <= clock
           /\ stamp[w] <= stamp'[w]
<1>1. /\ stamp[w] \in Nat /\ clock \in Nat /\ stamp[w] <= clock
  BY DEF TypeOK, StampInv
<1>2. ASSUME NEW u \in Users, Commit(u)
      PROVE  stamp'[w] = stamp[w] \/ stamp'[w] = clock + 1
  <2> DEFINE x == log[u][applied[u] + 1]
  <2>1. /\ x \in Writes
        /\ stamp' = [stamp EXCEPT ![x] = clock + 1]
    BY <1>2, CommitWrite
  <2> HIDE DEF x
  <2> QED
    BY <2>1 DEF TypeOK
<1>3. ASSUME NEW m \in Messages, ActionPushMessage(m) PROVE stamp' = stamp
  BY <1>3 DEF ActionPushMessage, server
<1>4. ASSUME NEW u \in Users, \/ WriteLocally(u) \/ Acknowledge(u) \/ Refuse(u)
                              \/ BreakStream(u) \/ Crash(u)
      PROVE  stamp' = stamp
  BY <1>4 DEF WriteLocally, Acknowledge, Refuse, BreakStream, Crash, server
<1>5. CASE UNCHANGED vars
  BY <1>1, <1>5 DEF vars, server
<1> QED
  BY <1>1, <1>2, <1>3, <1>4, <1>5 DEF Next

(* The server holds no write of a message that has not been sent.          *)
LEMMA StoredIsSent ==
    ASSUME TypeOK, LogInv, OnDisk, NEW m \in Messages, NEW k \in Steps,
           Stored(<<m, k>>)
    PROVE  m \in sent
<1>1. <<m, k>> \in Writes /\ From[m] \in Users
  BY DEF Writes
<1>2. PICK i \in 1 .. persisted[From[m]] : log[From[m]][i] = <<m, k>>
  BY <1>1 DEF OnDisk
<1>3. i \in 1 .. Len(log[From[m]])
  <2>1. /\ persisted[From[m]] \in Nat
        /\ persisted[From[m]] <= Len(log[From[m]])
        /\ Len(log[From[m]]) \in Nat
    BY <1>1, Cursors
  <2> QED
    BY <2>1
<1> QED
  BY <1>1, <1>2, <1>3 DEF LogInv

(* Only the commit of a preview changes a preview, to its own message.      *)
LEMMA PreviewStep ==
    ASSUME TypeOK, LogInv, StampInv, PreviewInv, [Next]_vars
    PROVE  PreviewInv'
<1> USE DEF Stored
<1>1. SUFFICES ASSUME NEW a \in Users, NEW b \in Users, preview'[<<a, b>>] # None
               PROVE  \E k \in {3, 4} : /\ stamp'[<<preview'[<<a, b>>], k>>] # 0
                                        /\ Owner(<<preview'[<<a, b>>], k>>) = a
                                        /\ Peer(<<preview'[<<a, b>>], k>>) = b
  BY DEF PreviewInv, Owner, Peer
<1>2. CASE preview'[<<a, b>>] = preview[<<a, b>>]
  <2> DEFINE m == preview[<<a, b>>]
  <2>1. m \in Messages
    BY <1>1, <1>2 DEF TypeOK
  <2>2. PICK k \in {3, 4} : /\ stamp[<<m, k>>] # 0
                            /\ Owner(<<m, k>>) = a
                            /\ Peer(<<m, k>>) = b
    BY <1>1, <1>2 DEF PreviewInv
  <2>3. <<m, k>> \in Writes
    BY <2>1 DEF Writes, Steps
  <2> HIDE DEF m
  <2>4. stamp'[<<m, k>>] # 0
    BY <2>2, <2>3, ServerStep
  <2> QED
    BY <1>2, <2>2, <2>4 DEF m
<1>3. CASE preview'[<<a, b>>] # preview[<<a, b>>]
  <2>1. PICK u \in Users : Commit(u)
    BY <1>3 DEF Next, vars, server, ActionPushMessage, WriteLocally, Acknowledge,
                Refuse, BreakStream, Crash
  <2> DEFINE w == log[u][applied[u] + 1]
  <2>2. /\ w \in Writes
        /\ stamp' = [stamp EXCEPT ![w] = clock + 1]
    BY <2>1, CommitWrite
  <2>3. preview' = IF IsPreview(w)
                   THEN [preview EXCEPT ![<<Owner(w), Peer(w)>>] = w[1]]
                   ELSE preview
    BY <2>1 DEF Commit, SalvarConversa, Path
  <2> HIDE DEF w
  <2>4. IsPreview(w) /\ <<Owner(w), Peer(w)>> = <<a, b>> /\ preview'[<<a, b>>] = w[1]
    BY <1>3, <2>3 DEF TypeOK
  <2>5. w = <<w[1], w[2]>> /\ w[2] \in {3, 4}
    BY <2>2, <2>4 DEF Writes, IsPreview
  <2>6. stamp'[w] # 0
    BY <2>2 DEF TypeOK
  <2>7. Owner(w) = a /\ Peer(w) = b
    BY <2>4
  <2> QED
    BY <2>4, <2>5, <2>6, <2>7
<1> QED
  BY <1>2, <1>3

(* What has been applied on the present stream stays so, and is not dated   *)
(* anew, until the stream breaks or the process dies with it in flight.     *)
LEMMA AppliedStep ==
    ASSUME TypeOK, LogInv, [Next]_vars, NEW w \in Writes, Applied(w)
    PROVE  \/ Applied(w)' /\ stamp'[w] = stamp[w]
           \/ /\ ~Settled(w)
              /\ w \in InFlight(From[w[1]])
              /\ BreakStream(From[w[1]]) \/ Crash(From[w[1]])
<1> DEFINE f == From[w[1]]
<1>1. f \in Users
  BY PathType
<1>2. PICK i \in 1 .. applied[f] : log[f][i] = w
  BY DEF Applied
<1> HIDE DEF f
<1>3. /\ applied[f] \in Nat /\ acked[f] \in Nat /\ Len(log[f]) \in Nat
      /\ acked[f] <= applied[f] /\ i \in 1 .. Len(log[f])
  <2>1. /\ persisted[f] \in Nat /\ applied[f] \in Nat /\ acked[f] \in Nat
        /\ acked[f] <= applied[f] /\ applied[f] <= persisted[f]
        /\ persisted[f] <= Len(log[f]) /\ Len(log[f]) \in Nat
    BY <1>1, Cursors
  <2> QED
    BY <2>1
<1>4. TypeOK'
  BY TypeStep
<1>5. applied'[f] \in Nat /\ acked'[f] \in Nat /\ acked'[f] <= applied'[f]
  BY <1>1, <1>4 DEF TypeOK
<1>s. ASSUME applied[f] <= applied'[f], log'[f][i] = log[f][i]
      PROVE  Applied(w)'
  <2>1. i \in 1 .. applied'[f] /\ log'[f][i] = w
    BY <1>2, <1>3, <1>5, <1>s
  <2> QED
    BY <2>1 DEF Applied, f
<1>6. CASE Settled(w)
  <2>1. Settled(w)' /\ stamp'[w] = stamp[w]
    BY <1>6, SettledStep
  <2>2. PICK h \in 1 .. acked'[f] : log'[f][h] = w
    BY <2>1 DEF Settled, f
  <2>3. h \in 1 .. applied'[f]
    BY <1>5
  <2>4. Applied(w)'
    BY <2>2, <2>3 DEF Applied, f
  <2> QED
    BY <2>1, <2>4
<1>7. CASE ~Settled(w)
  <2>1. i \in acked[f] + 1 .. applied[f]
    <3>1. ~(i \in 1 .. acked[f])
      BY <1>2, <1>7 DEF Settled, f
    <3> QED
      BY <1>3, <3>1
  <2>2. w \in InFlight(f)
    BY <1>2, <2>1 DEF InFlight
  <2>3. ASSUME NEW m \in Messages, ActionPushMessage(m)
        PROVE  Applied(w)' /\ stamp'[w] = stamp[w]
    <3>1. applied' = applied /\ stamp' = stamp
      BY <2>3 DEF ActionPushMessage, server
    <3>2. log'[f][i] = log[f][i]
      BY <1>1, <1>3, <2>3, PushLog
    <3> QED
      BY <1>3, <1>s, <3>1, <3>2
  <2>4. ASSUME NEW u \in Users, Commit(u)
        PROVE  Applied(w)' /\ stamp'[w] = stamp[w]
    <3> DEFINE p == applied[u] + 1
               x == log[u][p]
    <3>1. /\ x \in Writes
          /\ stamp' = [stamp EXCEPT ![x] = clock + 1]
          /\ applied' = [applied EXCEPT ![u] = p]
          /\ \A v \in Users : \A h \in 1 .. Len(log[v]) :
               log[v][h] = x => v = u /\ h = p
      BY <2>4, CommitWrite
    <3> HIDE DEF x
    <3>2. log' = log
      BY <2>4 DEF Commit
    <3>3. x # w
      <4>1. ~(f = u /\ i = p)
        BY <1>2, <1>3
      <4> QED
        BY <1>1, <1>2, <1>3, <3>1, <4>1
    <3>4. stamp'[w] = stamp[w] /\ applied[f] <= applied'[f]
      BY <1>1, <1>3, <3>1, <3>3 DEF TypeOK
    <3> QED
      BY <1>s, <3>2, <3>4
  <2>5. ASSUME NEW u \in Users, BreakStream(u) \/ Crash(u), u # f
        PROVE  Applied(w)' /\ stamp'[w] = stamp[w]
    <3>1. /\ applied' = [applied EXCEPT ![u] = acked[u]]
          /\ stamp' = stamp
          /\ log' = log \/ log' = [log EXCEPT ![u] = SubSeq(@, 1, persisted[u])]
      BY <2>5 DEF BreakStream, Crash, server
    <3>2. applied'[f] = applied[f] /\ log'[f] = log[f]
      BY <1>1, <2>5, <3>1 DEF TypeOK
    <3> QED
      BY <1>3, <1>s, <3>1, <3>2
  <2>6. ASSUME NEW u \in Users, WriteLocally(u) \/ Acknowledge(u)
        PROVE  Applied(w)' /\ stamp'[w] = stamp[w]
    BY <1>3, <1>s, <2>6 DEF WriteLocally, Acknowledge, server
  <2>7. ASSUME NEW u \in Users, Refuse(u)
        PROVE  Applied(w)' /\ stamp'[w] = stamp[w]
    <3>1. applied' = [applied EXCEPT ![u] = @ + 1] /\ log' = log /\ stamp' = stamp
      BY <2>7 DEF Refuse, server
    <3>2. applied[f] <= applied'[f]
      BY <1>1, <1>3, <3>1 DEF TypeOK
    <3> QED
      BY <1>s, <3>1, <3>2
  <2>8. CASE UNCHANGED vars
    BY <1>3, <1>s, <2>8 DEF vars, device, server
  <2> QED
    BY <1>7, <2>2, <2>3, <2>4, <2>5, <2>6, <2>7, <2>8 DEF Next, f
<1> QED
  BY <1>6, <1>7

(* A write is settled or in flight, not both: it stands in one place only.   *)
LEMMA SettledNotInFlight ==
    ASSUME TypeOK, LogInv, NEW w \in Writes, Settled(w), NEW u \in Users,
           w \in InFlight(u)
    PROVE  FALSE
<1>1. /\ applied[u] \in Nat /\ acked[u] \in Nat /\ applied[u] <= Len(log[u])
      /\ Len(log[u]) \in Nat
  <2>1. /\ persisted[u] \in Nat /\ applied[u] \in Nat /\ acked[u] \in Nat
        /\ applied[u] <= persisted[u]
        /\ persisted[u] <= Len(log[u]) /\ Len(log[u]) \in Nat
    BY Cursors
  <2> QED
    BY <2>1
<1>2. PICK i \in acked[u] + 1 .. applied[u] : log[u][i] = w
  BY DEF InFlight
<1>3. i \in 1 .. Len(log[u])
  BY <1>1
<1>4. From[w[1]] = u /\ \A h \in 1 .. i - 1 : log[u][h] # w
  BY <1>2, <1>3 DEF LogInv
<1>5. PICK h \in 1 .. acked[u] : log[u][h] = w
  BY <1>4 DEF Settled
<1>6. h \in 1 .. i - 1
  BY <1>1
<1> QED
  BY <1>4, <1>5, <1>6

(* What a step does to the history of a message already sent: what is sent  *)
(* again leaves kept, everything else stays.                               *)
LEMMA HistoryStep ==
    ASSUME TypeOK, LogInv, [Next]_vars, NEW m \in Messages, ~ActionPushMessage(m)
    PROVE  /\ basis'[m] = basis[m]
           /\ kept'[m] \subseteq kept[m]
           /\ \A w \in kept[m] :
                w \notin kept'[m] <=>
                  \E u \in Users : (BreakStream(u) \/ Crash(u)) /\ w \in InFlight(u)
<1>0. kept \in [Messages -> SUBSET Writes] /\ basis \in [Messages -> SUBSET Writes]
  BY DEF TypeOK
<1>1. ASSUME NEW u \in Users, NEW v \in Users, BreakStream(u) \/ Crash(u),
             BreakStream(v) \/ Crash(v)
      PROVE  InFlight(u) = InFlight(v) \/ InFlight(v) = {}
  <2>1. /\ applied' = [applied EXCEPT ![u] = acked[u]]
        /\ applied' = [applied EXCEPT ![v] = acked[v]]
    BY <1>1 DEF BreakStream, Crash
  <2>2. u # v => applied[v] = acked[v]
    BY <2>1 DEF TypeOK
  <2>3. applied[v] = acked[v] => acked[v] + 1 .. applied[v] = {}
    BY DEF TypeOK
  <2> QED
    BY <2>2, <2>3 DEF InFlight
<1>2. ASSUME NEW u \in Users, BreakStream(u) \/ Crash(u)
      PROVE  /\ basis'[m] = basis[m]
             /\ kept'[m] = kept[m] \ InFlight(u)
  BY <1>2 DEF BreakStream, Crash
<1>3. CASE \E u \in Users : BreakStream(u) \/ Crash(u)
  <2>1. PICK u \in Users : BreakStream(u) \/ Crash(u)
    BY <1>3
  <2>2. \A v \in Users : BreakStream(v) \/ Crash(v) =>
            InFlight(v) \subseteq InFlight(u)
    BY <1>1, <2>1
  <2> QED
    BY <1>2, <2>1, <2>2
<1>4. CASE ~\E u \in Users : BreakStream(u) \/ Crash(u)
  <2>1. kept'[m] = kept[m] /\ basis'[m] = basis[m]
    <3>1. ASSUME NEW x \in Messages, ActionPushMessage(x)
          PROVE  kept'[m] = kept[m] /\ basis'[m] = basis[m]
      <4>1. x # m
        BY <3>1
      <4> QED
        BY <1>0, <3>1, <4>1 DEF ActionPushMessage
    <3> QED
      BY <1>4, <3>1 DEF Next, vars, history, WriteLocally, Commit, Acknowledge, Refuse
  <2> QED
    BY <1>4, <2>1
<1> QED
  BY <1>3, <1>4

(* What others had on the server when a message was sent is before it, unless *)
(* it is sent again; what was settled by then never is.                    *)
LEMMA BasisStep ==
    ASSUME TypeOK, LogInv, OnDisk, StampInv, BasisInv, [Next]_vars
    PROVE  BasisInv'
<1> USE DEF Stored
<1>1. SUFFICES ASSUME NEW m \in Messages
               PROVE  /\ kept'[m] # {} => m \in sent'
                      /\ basis'[m] \subseteq kept'[m]
                      /\ \A w \in basis'[m] : Settled(w)'
                      /\ \A w \in kept'[m] :
                           /\ stamp'[w] # 0 /\ Applied(w)'
                           /\ \A k \in Steps :
                                stamp'[<<m, k>>] # 0 => stamp'[w] < stamp'[<<m, k>>]
  BY DEF BasisInv, Settled, Applied
<1>2. \A k \in Steps : <<m, k>> \in Writes
  BY DEF Writes
<1>3. CASE ActionPushMessage(m)
  <2>1. /\ kept' = [kept EXCEPT ![m] = {w \in Answerable(m) : Applied(w)}]
        /\ basis' = [basis EXCEPT ![m] = {w \in Answerable(m) : Settled(w)}]
        /\ m \notin sent /\ sent' = sent \cup {m}
        /\ stamp' = stamp
    BY <1>3 DEF ActionPushMessage, server
  <2>2. /\ kept'[m] = {w \in Answerable(m) : Applied(w)}
        /\ basis'[m] = {w \in Answerable(m) : Settled(w)}
    BY <2>1 DEF TypeOK
  <2>3. ASSUME NEW w \in Writes, Settled(w) PROVE Applied(w)
    <3>1. PICK i \in 1 .. acked[From[w[1]]] : log[From[w[1]]][i] = w
      BY <2>3 DEF Settled
    <3>2. From[w[1]] \in Users
      BY PathType
    <3>3. i \in 1 .. applied[From[w[1]]]
      <4>1. /\ acked[From[w[1]]] \in Nat /\ applied[From[w[1]]] \in Nat
            /\ acked[From[w[1]]] <= applied[From[w[1]]]
        BY <3>2, Cursors
      <4> QED
        BY <4>1
    <3> QED
      BY <3>1, <3>3 DEF Applied
  <2>4. \A w \in basis'[m] : Settled(w)'
    BY <2>2, SettledStep DEF Answerable
  <2>5. ASSUME NEW u \in Users, BreakStream(u) \/ Crash(u) PROVE FALSE
    <3>1. faults' = faults + 1 /\ faults' = faults
      BY <1>3, <2>5 DEF BreakStream, Crash, ActionPushMessage
    <3> QED
      BY <3>1 DEF TypeOK
  <2>6. ASSUME NEW w \in kept'[m] PROVE stamp'[w] # 0 /\ Applied(w)'
    <3>1. w \in Writes /\ stamp[w] # 0 /\ Applied(w)
      BY <2>2, <2>6 DEF Answerable
    <3>2. From[w[1]] \in Users
      BY <3>1, PathType
    <3> QED
      BY <2>1, <2>5, <3>1, <3>2, AppliedStep
  <2>7. \A k \in Steps : stamp'[<<m, k>>] = 0
    BY <2>1, StoredIsSent
  <2>8. basis'[m] \subseteq kept'[m] /\ m \in sent'
    BY <2>1, <2>2, <2>3 DEF Answerable
  <2> QED
    BY <2>4, <2>6, <2>7, <2>8
<1>4. CASE ~ActionPushMessage(m)
  <2>1. /\ kept[m] # {} => m \in sent
        /\ basis[m] \subseteq kept[m]
        /\ \A w \in basis[m] : Settled(w)
        /\ \A w \in kept[m] :
             /\ stamp[w] # 0 /\ Applied(w)
             /\ \A k \in Steps : stamp[<<m, k>>] # 0 => stamp[w] < stamp[<<m, k>>]
        /\ kept[m] \subseteq Writes
    BY DEF BasisInv, TypeOK
  <2>2. /\ basis'[m] = basis[m]
        /\ kept'[m] \subseteq kept[m]
        /\ \A w \in kept[m] :
             w \notin kept'[m] <=>
               \E u \in Users : (BreakStream(u) \/ Crash(u)) /\ w \in InFlight(u)
    BY <1>4, HistoryStep
  <2>3. sent \subseteq sent'
    BY DEF Next, vars, ActionPushMessage, WriteLocally, Commit, Acknowledge,
           Refuse, BreakStream, Crash
  <2>4. ASSUME NEW w \in basis[m] PROVE w \in kept'[m] /\ Settled(w)'
    <3>1. w \in Writes /\ w \in kept[m] /\ Settled(w)
      BY <2>1
    <3>2. ASSUME NEW u \in Users, w \in InFlight(u) PROVE FALSE
      BY <3>1, <3>2, SettledNotInFlight
    <3> QED
      BY <2>2, <3>1, <3>2, SettledStep
  <2>5. ASSUME NEW w \in kept'[m]
        PROVE  stamp'[w] # 0 /\ Applied(w)' /\ stamp'[w] = stamp[w]
    <3>1. /\ w \in kept[m] /\ w \in Writes /\ From[w[1]] \in Users
          /\ Applied(w) /\ stamp[w] # 0
      BY <2>1, <2>2, PathType
    <3>2. ~(/\ w \in InFlight(From[w[1]])
            /\ BreakStream(From[w[1]]) \/ Crash(From[w[1]]))
      BY <2>2, <3>1
    <3> QED
      BY <3>1, <3>2, AppliedStep
  <2>6. ASSUME NEW w \in kept'[m], NEW k \in Steps, stamp'[<<m, k>>] # 0
        PROVE  stamp'[w] < stamp'[<<m, k>>]
    <3>1. stamp[<<m, k>>] # 0 => stamp[w] < stamp[<<m, k>>]
      BY <2>1, <2>2
    <3>2. w \in Writes /\ stamp[w] \in Nat /\ stamp[w] <= clock /\ clock \in Nat
      BY <2>1, <2>2, ServerStep
    <3>3. stamp'[<<m, k>>] = stamp[<<m, k>>] \/ stamp'[<<m, k>>] = clock + 1
      BY <1>2, ServerStep
    <3> QED
      BY <2>5, <2>6, <3>1, <3>2, <3>3
  <2> QED
    BY <2>1, <2>2, <2>3, <2>4, <2>5, <2>6
<1> QED
  BY <1>3, <1>4

(* A commit is dated after every preview there is: the preview it leaves is *)
(* the last one of its path.                                               *)
LEMMA PreviewLatestStep ==
    ASSUME TypeOK, LogInv, StampInv, PreviewLatest, [Next]_vars
    PROVE  PreviewLatest'
<1>1. SUFFICES ASSUME NEW a \in Users, NEW b \in Users, preview'[<<a, b>>] # None
               PROVE  \E w \in Previews(preview'[<<a, b>>]) : \A v \in Writes :
                        IsPreview(v) /\ Path(v) = <<a, b>> => stamp'[v] <= stamp'[w]
  BY DEF PreviewLatest, Previews, Path, Owner, Peer, IsPreview
<1>2. CASE preview' = preview /\ stamp' = stamp
  BY <1>1, <1>2 DEF PreviewLatest
<1>3. ASSUME NEW u \in Users, Commit(u)
      PROVE  \E w \in Previews(preview'[<<a, b>>]) : \A v \in Writes :
               IsPreview(v) /\ Path(v) = <<a, b>> => stamp'[v] <= stamp'[w]
  <2> DEFINE x == log[u][applied[u] + 1]
  <2>1. /\ x \in Writes
        /\ stamp' = [stamp EXCEPT ![x] = clock + 1]
    BY <1>3, CommitWrite
  <2>2. preview' = IF IsPreview(x) THEN [preview EXCEPT ![Path(x)] = x[1]] ELSE preview
    BY <1>3 DEF Commit, SalvarConversa
  <2> HIDE DEF x
  <2>3. \A v \in Writes : /\ stamp[v] \in Nat /\ stamp'[v] \in Nat /\ clock \in Nat
                          /\ stamp[v] <= clock /\ stamp[v] <= stamp'[v]
                          /\ stamp'[v] = stamp[v] \/ stamp'[v] = clock + 1
    BY ServerStep
  <2>4. stamp'[x] = clock + 1 /\ \A v \in Writes : v # x => stamp'[v] = stamp[v]
    BY <2>1 DEF TypeOK
  <2>5. CASE IsPreview(x) /\ Path(x) = <<a, b>>
    <3>1. preview'[<<a, b>>] = x[1]
      BY <2>2, <2>5 DEF TypeOK
    <3>2. x = <<x[1], x[2]>> /\ x[2] \in {3, 4}
      BY <2>1, <2>5 DEF Writes, IsPreview
    <3>3. x \in Previews(preview'[<<a, b>>])
      BY <3>1, <3>2 DEF Previews
    <3>4. \A v \in Writes : stamp'[v] <= stamp'[x]
      BY <2>3, <2>4
    <3> QED
      BY <3>3, <3>4
  <2>6. CASE ~(IsPreview(x) /\ Path(x) = <<a, b>>)
    <3>1. preview'[<<a, b>>] = preview[<<a, b>>]
      BY <2>2, <2>6 DEF TypeOK
    <3>2. PICK w \in Previews(preview[<<a, b>>]) : \A v \in Writes :
             IsPreview(v) /\ Path(v) = <<a, b>> => stamp[v] <= stamp[w]
      BY <1>1, <3>1 DEF PreviewLatest
    <3>3. w \in Writes
      BY <1>1, <3>1, <3>2 DEF Previews, Writes, Steps, TypeOK
    <3>4. ASSUME NEW v \in Writes, IsPreview(v), Path(v) = <<a, b>>
          PROVE  stamp'[v] <= stamp'[w]
      <4>1. v # x
        BY <2>6, <3>4
      <4>2. stamp'[v] = stamp[v] /\ stamp[v] <= stamp[w]
        BY <2>4, <3>2, <3>4, <4>1
      <4> QED
        BY <2>3, <3>3, <4>2
    <3> QED
      BY <3>1, <3>2, <3>4
  <2> QED
    BY <2>5, <2>6
<1>4. (\E u \in Users : Commit(u)) \/ (preview' = preview /\ stamp' = stamp)
  BY DEF Next, vars, server, ActionPushMessage, WriteLocally, Acknowledge,
         Refuse, BreakStream, Crash
<1> QED
  BY <1>2, <1>3, <1>4

(* What a send does to its log, by message: the old part holds none of its  *)
(* writes, the new part nothing else.                                      *)
LEMMA PushParts ==
    ASSUME TypeOK, LogInv, NEW m \in Messages, ActionPushMessage(m), NEW v \in Users
    PROVE  /\ Len(log[v]) \in Nat /\ Len(log'[v]) \in Nat
           /\ Len(log[v]) <= Len(log'[v])
           /\ \A x \in 1 .. Len(log[v]) :
                /\ log'[v][x] = log[v][x]
                /\ log[v][x][1] # m
           /\ \A x \in 1 .. Len(log'[v]) :
                x > Len(log[v]) => /\ v = From[m]
                                   /\ log'[v][x] = <<m, x - Len(log[v])>>
                                   /\ x - Len(log[v]) \in Steps
           /\ v = From[m] => Len(log'[v]) = Len(log[v]) + 4
<1>1. TypeOK'
  BY TypeStep DEF Next
<1>2. Len(log[v]) \in Nat /\ Len(log'[v]) \in Nat
  <2>1. log[v] \in Seq(Writes) /\ log'[v] \in Seq(Writes)
    BY <1>1 DEF TypeOK
  <2> QED
    BY <2>1
<1>3. /\ Len(log[v]) <= Len(log'[v])
      /\ \A x \in 1 .. Len(log[v]) : log'[v][x] = log[v][x]
  BY <1>2, PushLog
<1>4. ASSUME NEW x \in 1 .. Len(log[v]) PROVE log[v][x][1] # m
  <2>1. log[v][x][1] \in sent
    BY DEF LogInv
  <2>2. m \notin sent
    BY DEF ActionPushMessage
  <2> QED
    BY <2>1, <2>2
<1>5. ASSUME NEW x \in 1 .. Len(log'[v]), x > Len(log[v])
      PROVE  /\ v = From[m]
             /\ log'[v][x] = <<m, x - Len(log[v])>>
             /\ x - Len(log[v]) \in Steps
  <2>1. v = From[m]
    <3>1. CASE v # From[m]
      <4>1. log'[v] = log[v]
        BY <3>1, PushLog
      <4> QED
        BY <1>2, <1>5, <4>1
    <3> QED
      BY <3>1
  <2>2. /\ Len(log'[v]) = Len(log[v]) + 4
        /\ \A k \in Steps : log'[v][Len(log[v]) + k] = <<m, k>>
    BY <2>1, PushLog
  <2>3. x - Len(log[v]) \in Steps /\ Len(log[v]) + (x - Len(log[v])) = x
    BY <1>2, <1>5, <2>2 DEF Steps
  <2> QED
    BY <2>1, <2>2, <2>3
<1>6. v = From[m] => Len(log'[v]) = Len(log[v]) + 4
  BY PushLog
<1> QED
  BY <1>2, <1>3, <1>4, <1>5, <1>6

(* Only a send appends to a log and only a crash cuts one.                 *)
LEMMA LogKept ==
    ASSUME [Next]_vars,
           \A m \in Messages : ~ActionPushMessage(m),
           \A u \in Users : ~Crash(u)
    PROVE  log' = log
  BY DEF Next, vars, device, WriteLocally, Commit, Acknowledge, Refuse, BreakStream

(* The calls of one actionPushMessage stay together: a send appends all of  *)
(* its own behind everybody else's, and a crash only shortens the log.      *)
LEMMA ContiguousStep ==
    ASSUME TypeOK, LogInv, Contiguous, [Next]_vars
    PROVE  Contiguous'
<1>1. ASSUME NEW m \in Messages, ActionPushMessage(m) PROVE Contiguous'
  <2> SUFFICES ASSUME NEW v \in Users,
                      NEW i \in 1 .. Len(log'[v]),
                      NEW j \in 1 .. Len(log'[v]),
                      NEW h \in 1 .. Len(log'[v]),
                      i < j, j < h, log'[v][i][1] = log'[v][h][1]
               PROVE  log'[v][j][1] = log'[v][i][1]
    BY DEF Contiguous
  <2>1. /\ Len(log[v]) \in Nat /\ Len(log'[v]) \in Nat
        /\ \A x \in 1 .. Len(log[v]) :
                /\ log'[v][x] = log[v][x]
                /\ log[v][x][1] # m
        /\ \A x \in 1 .. Len(log'[v]) : x > Len(log[v]) => log'[v][x][1] = m
    BY <1>1, PushParts
  <2>2. CASE h <= Len(log[v])
    <3>1. /\ i \in 1 .. Len(log[v]) /\ j \in 1 .. Len(log[v]) /\ h \in 1 .. Len(log[v])
          /\ log'[v][i] = log[v][i] /\ log'[v][j] = log[v][j] /\ log'[v][h] = log[v][h]
      BY <2>1, <2>2
    <3> QED
      BY <3>1 DEF Contiguous
  <2>3. CASE h > Len(log[v])
    <3>1. log'[v][i][1] = m
      BY <2>1, <2>3
    <3>2. i > Len(log[v])
      BY <2>1, <3>1
    <3>3. log'[v][j][1] = m
      BY <2>1, <3>2
    <3> QED
      BY <3>1, <3>3
  <2> QED
    BY <2>1, <2>2, <2>3
<1>2. ASSUME NEW u \in Users, Crash(u) PROVE Contiguous'
  <2> SUFFICES ASSUME NEW v \in Users,
                      NEW i \in 1 .. Len(log'[v]),
                      NEW j \in 1 .. Len(log'[v]),
                      NEW h \in 1 .. Len(log'[v]),
                      i < j, j < h, log'[v][i][1] = log'[v][h][1]
               PROVE  log'[v][j][1] = log'[v][i][1]
    BY DEF Contiguous
  <2>1. /\ Len(log'[v]) <= Len(log[v])
        /\ \A x \in 1 .. Len(log'[v]) : log'[v][x] = log[v][x]
    BY <1>2, CrashLog
  <2>2. Len(log[v]) \in Nat /\ Len(log'[v]) \in Nat
    <3>1. TypeOK'
      BY TypeStep
    <3>2. log[v] \in Seq(Writes) /\ log'[v] \in Seq(Writes)
      BY <3>1 DEF TypeOK
    <3> QED
      BY <3>2
  <2>3. /\ i \in 1 .. Len(log[v]) /\ j \in 1 .. Len(log[v]) /\ h \in 1 .. Len(log[v])
        /\ log'[v][i] = log[v][i] /\ log'[v][j] = log[v][j] /\ log'[v][h] = log[v][h]
    BY <2>1, <2>2
  <2> QED
    BY <2>3 DEF Contiguous
<1>3. CASE log' = log
  BY <1>3 DEF Contiguous
<1> QED
  BY <1>1, <1>2, <1>3, LogKept

(* A commit shows its own message, and the writes of that message all stand *)
(* behind those of every earlier one: no earlier message comes back.        *)
LEMMA PreviewOrderStep ==
    ASSUME TypeOK, LogInv, Contiguous, PreviewOrder, [Next]_vars
    PROVE  PreviewOrder'
<1>c. \A v \in Users :
        /\ persisted[v] \in Nat /\ applied[v] \in Nat /\ acked[v] \in Nat
        /\ acked[v] <= applied[v] /\ applied[v] <= persisted[v]
        /\ persisted[v] <= Len(log[v]) /\ Len(log[v]) \in Nat
        /\ \A i \in 1 .. Len(log[v]) : log[v][i] \in Writes
  BY Cursors
<1>f. ASSUME preview' = preview, refused \subseteq refused',
             \A v \in Users :
               /\ applied'[v] \in Nat
               /\ applied'[v] <= Len(log[v])
               /\ \A i \in 1 .. Len(log[v]) : i <= applied'[v] => log'[v][i] = log[v][i]
               /\ \A j \in 1 .. applied'[v] : j > applied[v] => log[v][j] \in refused'
      PROVE  PreviewOrder'
  <2> SUFFICES ASSUME NEW v \in Users, NEW j \in 1 .. applied'[v], NEW i \in 1 .. j - 1,
                      SamePreview(log'[v][i], log'[v][j]), log'[v][j] \notin refused'
               PROVE  preview'[Path(log'[v][j])] # log'[v][i][1]
    BY Zenon DEF PreviewOrder
  <2>0. /\ i \in 1 .. Len(log[v]) /\ i <= applied'[v]
        /\ j \in 1 .. Len(log[v]) /\ j <= applied'[v]
    BY <1>c, <1>f
  <2>1. log'[v][i] = log[v][i] /\ log'[v][j] = log[v][j] /\ log[v][j] \notin refused
    BY <1>f, <2>0
  <2>2. j \in 1 .. applied[v]
    BY <1>c, <1>f, <2>1
  <2> QED
    BY <1>f, <2>1, <2>2 DEF PreviewOrder
<1>1. ASSUME NEW m \in Messages, ActionPushMessage(m) PROVE PreviewOrder'
  <2>1. /\ preview' = preview /\ refused' = refused /\ applied' = applied
    BY <1>1 DEF ActionPushMessage, server
  <2>2. \A v \in Users : \A i \in 1 .. Len(log[v]) : log'[v][i] = log[v][i]
    BY <1>1, PushLog
  <2> QED
    BY <1>c, <1>f, <2>1, <2>2
<1>2. ASSUME NEW u \in Users, Commit(u) PROVE PreviewOrder'
  <2> DEFINE p == applied[u] + 1
             x == log[u][p]
  <2>1. /\ x \in Writes
        /\ From[x[1]] = u
        /\ p \in 1 .. persisted[u]
        /\ applied' = [applied EXCEPT ![u] = p]
    BY <1>2, CommitWrite
  <2>2. /\ log' = log /\ refused' = refused
        /\ preview' = IF IsPreview(x)
                      THEN [preview EXCEPT ![Path(x)] = x[1]]
                      ELSE preview
    BY <1>2 DEF Commit, SalvarConversa
  <2>3. Path(x) \in Users \X Users
    BY <2>1, PathType DEF Path
  <2> SUFFICES ASSUME NEW v \in Users, NEW j \in 1 .. applied'[v], NEW i \in 1 .. j - 1,
                      SamePreview(log[v][i], log[v][j]), log[v][j] \notin refused
               PROVE  preview'[Path(log[v][j])] # log[v][i][1]
    BY <2>2, Zenon DEF PreviewOrder
  <2>4. applied'[v] = IF v = u THEN p ELSE applied[v]
    BY <2>1 DEF TypeOK
  <2>5. /\ i \in 1 .. Len(log[v]) /\ j \in 1 .. Len(log[v]) /\ i < j
        /\ p \in 1 .. Len(log[u])
    <3>1. /\ applied[v] \in Nat /\ applied[v] <= Len(log[v])
          /\ Len(log[v]) \in Nat /\ Len(log[u]) \in Nat
          /\ persisted[u] \in Nat /\ persisted[u] <= Len(log[u])
      BY <1>c
    <3>2. p \in 1 .. Len(log[u])
      BY <2>1, <3>1
    <3>3. applied'[v] \in Nat /\ applied'[v] <= Len(log[v])
      BY <2>4, <3>1, <3>2
    <3> QED
      BY <3>1, <3>2, <3>3
  <2>a. /\ IsPreview(log[v][j])
        /\ log[v][i][1] # log[v][j][1]
        /\ Path(log[v][i]) = Path(log[v][j])
    BY DEF SamePreview
  <2> HIDE DEF x
  <2>6. From[log[v][i][1]] = v
    BY <2>5 DEF LogInv
  <2>7. x[1] # log[v][i][1]
    <3>1. CASE v # u
      BY <2>1, <2>6, <3>1
    <3>2. CASE v = u /\ j = p
      BY <2>a, <3>2 DEF x
    <3>3. CASE v = u /\ j # p
      <4>1. j < p
        BY <1>c, <2>4, <2>5, <3>3
      <4>2. /\ i \in 1 .. Len(log[u]) /\ j \in 1 .. Len(log[u])
            /\ p \in 1 .. Len(log[u])
        BY <2>5, <3>3
      <4>3. log[u][i][1] = log[u][p][1] => log[u][j][1] = log[u][i][1]
        BY <2>5, <4>1, <4>2 DEF Contiguous
      <4> QED
        BY <2>a, <3>3, <4>3 DEF x
    <3> QED
      BY <3>1, <3>2, <3>3
  <2>8. CASE preview'[Path(log[v][j])]
               = preview[Path(log[v][j])]
    <3>1. CASE j \in 1 .. applied[v]
      BY <2>8, <3>1 DEF PreviewOrder
    <3>2. CASE j \notin 1 .. applied[v]
      <4>0. applied'[v] \in Nat /\ j \in 1 .. applied'[v] /\ applied[v] \in Nat
        BY <1>c, <2>4
      <4>1. v = u /\ j = p
        BY <4>0, <2>4, <3>2
      <4>2. log[v][j] = x
        BY <4>1 DEF x
      <4>3. preview' = [preview EXCEPT ![Path(x)] = x[1]]
        BY <2>a, <2>2, <4>2
      <4>4. preview'[Path(x)] = x[1]
        BY <2>3, <4>3 DEF TypeOK
      <4> QED
        BY <2>7, <4>2, <4>4
    <3> QED
      BY <3>1, <3>2
  <2>9. CASE preview'[Path(log[v][j])]
               # preview[Path(log[v][j])]
    <3>1. Path(log[v][j]) \in Users \X Users
      BY <1>c, <2>5, PathType DEF Path
    <3>2. preview'[Path(log[v][j])] = x[1]
      BY <2>2, <2>3, <2>9, <3>1 DEF TypeOK
    <3> QED
      BY <2>7, <3>2
  <2> QED
    BY <2>8, <2>9
<1>3. ASSUME NEW u \in Users, WriteLocally(u) PROVE PreviewOrder'
  BY <1>3, <1>c, <1>f DEF WriteLocally, server
<1>4. ASSUME NEW u \in Users, Acknowledge(u) PROVE PreviewOrder'
  BY <1>4, <1>c, <1>f DEF Acknowledge, server
<1>5. ASSUME NEW u \in Users, Refuse(u) PROVE PreviewOrder'
  <2>1. /\ applied' = [applied EXCEPT ![u] = @ + 1]
        /\ refused' = refused \cup {log[u][applied[u] + 1]}
        /\ applied[u] < persisted[u]
        /\ preview' = preview /\ log' = log
    BY <1>5 DEF Refuse, server
  <2>2. \A v \in Users : applied'[v] = IF v = u THEN applied[v] + 1 ELSE applied[v]
    BY <2>1 DEF TypeOK
  <2> QED
    BY <1>c, <1>f, <2>1, <2>2
<1>6. ASSUME NEW u \in Users, BreakStream(u) PROVE PreviewOrder'
  <2>1. /\ applied' = [applied EXCEPT ![u] = acked[u]]
        /\ refused' = refused /\ preview' = preview /\ log' = log
    BY <1>6 DEF BreakStream, server
  <2>2. \A v \in Users : applied'[v] = IF v = u THEN acked[v] ELSE applied[v]
    BY <2>1 DEF TypeOK
  <2> QED
    BY <1>c, <1>f, <2>1, <2>2
<1>7. ASSUME NEW u \in Users, Crash(u) PROVE PreviewOrder'
  <2>1. /\ applied' = [applied EXCEPT ![u] = acked[u]]
        /\ refused' = refused /\ preview' = preview
    BY <1>7 DEF Crash, server
  <2>2. \A v \in Users : applied'[v] = IF v = u THEN acked[v] ELSE applied[v]
    BY <2>1 DEF TypeOK
  <2>3. \A v \in Users : /\ persisted[v] <= Len(log'[v])
                         /\ Len(log'[v]) <= Len(log[v])
                         /\ \A i \in 1 .. Len(log'[v]) : log'[v][i] = log[v][i]
    BY <1>7, CrashLog
  <2>4. \A v \in Users : Len(log'[v]) \in Nat
    <3> TAKE v \in Users
    <3>1. TypeOK'
      BY TypeStep
    <3>2. log'[v] \in Seq(Writes)
      BY <3>1 DEF TypeOK
    <3> QED
      BY <3>2
  <2>5. \A v \in Users : \A i \in 1 .. Len(log[v]) :
          i <= applied'[v] => log'[v][i] = log[v][i]
    <3> SUFFICES ASSUME NEW v \in Users, NEW i \in 1 .. Len(log[v]), i <= applied'[v]
                 PROVE  log'[v][i] = log[v][i]
      OBVIOUS
    <3>1. i \in 1 .. Len(log'[v])
      BY <1>c, <2>2, <2>3, <2>4
    <3> QED
      BY <2>3, <3>1
  <2> QED
    BY <1>c, <1>f, <2>1, <2>2, <2>5
<1>8. CASE UNCHANGED vars
  BY <1>8, <1>c, <1>f DEF vars, device, server
<1> QED
  BY <1>1, <1>2, <1>3, <1>4, <1>5, <1>6, <1>7, <1>8 DEF Next

(* A refusal advances the acknowledgement cursor over what it refuses, and  *)
(* what is settled stays settled.                                          *)
LEMMA RefusedStep ==
    ASSUME TypeOK, LogInv, RefusedSettled, [Next]_vars
    PROVE  RefusedSettled'
<1> SUFFICES ASSUME NEW w \in refused' PROVE Settled(w)'
  BY DEF RefusedSettled, Settled
<1>1. CASE w \in refused
  <2>1. w \in Writes /\ Settled(w)
    BY <1>1 DEF TypeOK, RefusedSettled
  <2> QED
    BY <2>1, SettledStep
<1>2. CASE w \notin refused
  <2>1. PICK u \in Users : Refuse(u)
    BY <1>2 DEF Next, vars, server, ActionPushMessage, WriteLocally, Commit,
                Acknowledge, BreakStream, Crash
  <2>2. /\ acked' = [acked EXCEPT ![u] = @ + 1]
        /\ acked[u] = applied[u] /\ applied[u] < persisted[u]
        /\ log' = log
        /\ w = log[u][applied[u] + 1]
    BY <1>2, <2>1 DEF Refuse
  <2>3. /\ acked'[u] = acked[u] + 1 /\ acked[u] \in Nat
        /\ acked[u] + 1 \in 1 .. Len(log[u])
    BY <2>2, Cursors DEF TypeOK
  <2>4. From[w[1]] = u
    BY <2>2, <2>3 DEF LogInv
  <2>5. acked'[u] \in 1 .. acked'[u] /\ log'[u][acked'[u]] = w
    BY <2>2, <2>3
  <2> QED
    BY <2>4, <2>5 DEF Settled
<1> QED
  BY <1>1, <1>2

(* The four calls only enqueue: what is still in memory was issued since    *)
(* the last crash, by an actionPushMessage that issued its whole message.   *)
LEMMA MemoryStep ==
    ASSUME TypeOK, LogInv, MemoryWhole, [Next]_vars
    PROVE  MemoryWhole'
<1>c. \A v \in Users :
        /\ persisted[v] \in Nat /\ Len(log[v]) \in Nat
        /\ persisted[v] <= Len(log[v])
        /\ persisted'[v] \in Nat /\ Len(log'[v]) \in Nat
  <2> TAKE v \in Users
  <2>1. TypeOK'
    BY TypeStep
  <2>2. log[v] \in Seq(Writes) /\ log'[v] \in Seq(Writes)
    BY <2>1 DEF TypeOK
  <2> QED
    BY <2>1, <2>2 DEF TypeOK
<1>1. ASSUME NEW m \in Messages, ActionPushMessage(m) PROVE MemoryWhole'
  <2>0. persisted' = persisted
    BY <1>1 DEF ActionPushMessage
  <2> SUFFICES ASSUME NEW v \in Users, NEW i \in persisted[v] + 1 .. Len(log'[v])
               PROVE  WholeIn(log'[v], log'[v][i][1])
    BY <2>0 DEF MemoryWhole, WholeIn, InLog
  <2>1. /\ \A x \in 1 .. Len(log[v]) : log'[v][x] = log[v][x]
        /\ Len(log[v]) <= Len(log'[v])
        /\ \A x \in 1 .. Len(log'[v]) :
             x > Len(log[v]) => v = From[m] /\ log'[v][x][1] = m
    BY <1>1, PushParts
  <2>2. CASE i <= Len(log[v])
    <3>1. i \in persisted[v] + 1 .. Len(log[v]) /\ i \in 1 .. Len(log[v])
      BY <1>c, <2>2
    <3>2. WholeIn(log[v], log[v][i][1]) /\ log'[v][i] = log[v][i]
      BY <2>1, <3>1 DEF MemoryWhole
    <3>3. ASSUME NEW k \in Steps
          PROVE  \E h \in 1 .. Len(log'[v]) : log'[v][h] = <<log[v][i][1], k>>
      <4>1. PICK h \in 1 .. Len(log[v]) : log[v][h] = <<log[v][i][1], k>>
        BY <3>2 DEF WholeIn, InLog
      <4>2. h \in 1 .. Len(log'[v]) /\ log'[v][h] = log[v][h]
        BY <1>c, <2>1
      <4> QED
        BY <4>1, <4>2
    <3> QED
      BY <3>2, <3>3 DEF WholeIn, InLog
  <2>3. CASE i > Len(log[v])
    <3>1. v = From[m] /\ log'[v][i][1] = m
      BY <1>c, <2>1, <2>3
    <3>2. /\ Len(log'[v]) = Len(log[v]) + 4
          /\ \A k \in Steps : log'[v][Len(log[v]) + k] = <<m, k>>
      BY <1>1, <3>1, PushLog
    <3>3. \A k \in Steps : Len(log[v]) + k \in 1 .. Len(log'[v])
      BY <1>c, <3>2 DEF Steps
    <3> QED
      BY <3>1, <3>2, <3>3 DEF WholeIn, InLog
  <2> QED
    BY <1>c, <2>2, <2>3
<1>2. ASSUME NEW u \in Users, Crash(u) PROVE MemoryWhole'
  <2>1. /\ persisted' = persisted
        /\ log' = [log EXCEPT ![u] = SubSeq(@, 1, persisted[u])]
        /\ log \in [Users -> Seq(Writes)]
    BY <1>2 DEF Crash, TypeOK
  <2> SUFFICES ASSUME NEW v \in Users, NEW i \in persisted[v] + 1 .. Len(log'[v])
               PROVE  WholeIn(log'[v], log'[v][i][1])
    BY <2>1 DEF MemoryWhole, WholeIn, InLog
  <2>2. CASE v # u
    <3>1. log'[v] = log[v]
      BY <2>1, <2>2
    <3>2. WholeIn(log[v], log[v][i][1])
      BY <3>1 DEF MemoryWhole
    <3> QED
      BY <3>1, <3>2, Zenon
  <2>3. CASE v = u
    <3>1. log'[v] = SubSeq(log[v], 1, persisted[v]) /\ log[v] \in Seq(Writes)
      BY <2>1, <2>3
    <3>2. Len(log'[v]) = persisted[v]
      BY <1>c, <3>1
    <3> QED
      BY <1>c, <3>2
  <2> QED
    BY <2>2, <2>3
<1>3. ASSUME log' = log, \A v \in Users : persisted[v] <= persisted'[v]
      PROVE  MemoryWhole'
  <2> SUFFICES ASSUME NEW v \in Users, NEW i \in persisted'[v] + 1 .. Len(log'[v])
               PROVE  WholeIn(log'[v], log'[v][i][1])
    BY DEF MemoryWhole, WholeIn, InLog
  <2>1. i \in persisted[v] + 1 .. Len(log[v])
    BY <1>c, <1>3
  <2>2. WholeIn(log[v], log[v][i][1])
    BY <2>1 DEF MemoryWhole
  <2> QED
    BY <1>3, <2>2, Zenon
<1>4. ASSUME NEW u \in Users, WriteLocally(u)
      PROVE  \A v \in Users : persisted[v] <= persisted'[v]
  <2>1. persisted' = [persisted EXCEPT ![u] = @ + 1]
    BY <1>4 DEF WriteLocally
  <2> QED
    BY <1>c, <2>1 DEF TypeOK
<1>5. (\A u \in Users : ~WriteLocally(u)) => persisted' = persisted
  BY DEF Next, vars, device, ActionPushMessage, Commit, Acknowledge, Refuse, BreakStream, Crash
<1>6. \A v \in Users : persisted[v] <= persisted'[v]
  BY <1>4, <1>5, <1>c
<1> QED
  BY <1>1, <1>2, <1>3, <1>6, LogKept

-----------------------------------------------------------------------------
(* The invariant and what follows from it.                                 *)

\* Nothing sent, nothing stored, no preview.
LEMMA InductiveInit == ASSUME Init PROVE Inductive
<1>1. TypeOK
  BY DEF Init, TypeOK, Writes
<1>2. LogInv
  BY DEF Init, LogInv
<1>3. OnDisk
  BY DEF Init, OnDisk, Stored
<1>4. Answered
  BY DEF Init, Answered
<1>5. PrefixStored
  BY DEF Init, PrefixStored
<1>6. StampInv
  BY DEF Init, StampInv
<1>7. PreviewInv
  BY DEF Init, PreviewInv
<1>8. BasisInv /\ PreviewLatest
  BY DEF Init, BasisInv, PreviewLatest
<1>9. Contiguous /\ MemoryWhole
  BY DEF Init, Contiguous, MemoryWhole
<1>10. PreviewOrder /\ RefusedSettled
  BY DEF Init, PreviewOrder, RefusedSettled
<1> QED
  BY <1>1, <1>2, <1>3, <1>4, <1>5, <1>6, <1>7, <1>8, <1>9, <1>10 DEF Inductive

\* Every step of the clients and the server keeps the order.
LEMMA InductiveStep == ASSUME Inductive, [Next]_vars PROVE Inductive'
<1>1. /\ TypeOK /\ LogInv /\ OnDisk /\ StampInv /\ PreviewInv /\ BasisInv
      /\ PreviewLatest /\ StoreInv /\ Contiguous /\ PreviewOrder /\ RefusedSettled /\ MemoryWhole
  BY DEF Inductive, StoreInv
<1>2. TypeOK'
  BY <1>1, TypeStep
<1>3. LogInv'
  BY <1>1, LogStep
<1>4. StoreInv'
  BY <1>1, StoreStep
<1>5. StampInv'
  BY <1>1, StampStep
<1>6. PreviewInv'
  BY <1>1, PreviewStep
<1>7. BasisInv' /\ PreviewLatest'
  BY <1>1, BasisStep, PreviewLatestStep
<1>8. Contiguous' /\ PreviewOrder'
  BY <1>1, ContiguousStep, PreviewOrderStep
<1>9. RefusedSettled' /\ MemoryWhole'
  BY <1>1, RefusedStep, MemoryStep
<1> QED
  BY <1>2, <1>3, <1>4, <1>5, <1>6, <1>7, <1>8, <1>9 DEF Inductive, StoreInv

(* Logs, server and previews agree on the order in which actionPushMessage  *)
(* issued the writes, at every step of every behaviour of the send path.    *)
THEOREM InductiveInvariant == Spec => []Inductive
<1>1. Init => Inductive
  BY InductiveInit
<1>2. Inductive /\ [Next]_vars => Inductive'
  BY InductiveStep
<1> QED
  BY <1>1, <1>2, PTL DEF Spec

(* A write stands in its log after the earlier writes of its message.       *)
LEMMA IssuedBefore ==
    ASSUME LogInv, NEW u \in Users, NEW i \in 1 .. Len(log[u]),
           NEW q \in 1 .. log[u][i][2] - 1
    PROVE  \E h \in 1 .. i - 1 : log[u][h] = <<log[u][i][1], q>>
<1>1. LET w == log[u][i] IN \A k \in 1 .. w[2] - 1 : \E h \in 1 .. i - 1 : log[u][h] = <<w[1], k>>
  BY DEF LogInv
<1> QED
  BY <1>1

(* A message never half-arrives out of order: the server holds no write of  *)
(* actionPushMessage without the ones issued before it, refusals aside.     *)
LEMMA InOrder == Inductive => StoredInOrder
<1> SUFFICES ASSUME Inductive, NEW m \in Messages, NEW k \in Steps, Stored(<<m, k>>),
                    NEW j \in 1 .. k - 1
             PROVE  Stored(<<m, j>>) \/ <<m, j>> \in refused
  BY DEF StoredInOrder
<1>1. <<m, k>> \in Writes /\ From[m] \in Users
  BY DEF Writes
<1>2. PICK i \in 1 .. persisted[From[m]] : log[From[m]][i] = <<m, k>>
  BY <1>1 DEF Inductive, OnDisk
<1>3. i \in 1 .. Len(log[From[m]])
  <2>1. /\ persisted[From[m]] \in Nat
        /\ persisted[From[m]] <= Len(log[From[m]])
        /\ Len(log[From[m]]) \in Nat
    BY <1>1, Cursors DEF Inductive
  <2> QED
    BY <2>1
<1>4. PICK h \in 1 .. i - 1 : log[From[m]][h] = <<m, j>>
  <2>1. LogInv
    BY DEF Inductive
  <2>2. log[From[m]][i][1] = m /\ log[From[m]][i][2] = k
    BY <1>2
  <2>3. j \in 1 .. log[From[m]][i][2] - 1
    BY <2>2
  <2>4. \E h \in 1 .. i - 1 : log[From[m]][h] = <<log[From[m]][i][1], j>>
    BY <1>1, <1>3, <2>1, <2>3, IssuedBefore
  <2> QED
    BY <2>2, <2>4
<1>5. PrefixStored
  BY DEF Inductive
<1>6. Stored(log[From[m]][i])
  BY <1>2
<1>7. Stored(log[From[m]][h]) \/ log[From[m]][h] \in refused
  BY <1>1, <1>3, <1>5, <1>6 DEF PrefixStored
<1> QED
  BY <1>4, <1>7

(* In every state of the send path the four writes are stored in order.     *)
THEOREM FanOutInOrder == Spec => []StoredInOrder
  BY InductiveInvariant, InOrder, PTL

(* A conversation preview never names a message whose copy is missing from  *)
(* the chat it leads to, unless the server refused that copy.               *)
THEOREM PreviewsLead == Spec => []NoDanglingPreview
<1>1. Inductive => NoDanglingPreview
  <2> SUFFICES ASSUME Inductive, NEW a \in Users, NEW b \in Users,
                      preview[<<a, b>>] # None
               PROVE  LET m == preview[<<a, b>>] IN
                      m \in Mailbox(a, b) \/ \E k \in {1, 2} : <<m, k>> \in refused
    BY DEF NoDanglingPreview
  <2> DEFINE m == preview[<<a, b>>]
  <2>1. m \in Messages
    BY DEF Inductive, TypeOK
  <2>2. PICK k \in {3, 4} : /\ Stored(<<m, k>>)
                            /\ Owner(<<m, k>>) = a
                            /\ Peer(<<m, k>>) = b
    BY DEF Inductive, PreviewInv
  <2> HIDE DEF m
  <2>3. \A j \in {1, 2} : Stored(<<m, j>>) \/ <<m, j>> \in refused
    <3>1. \A j \in 1 .. k - 1 : Stored(<<m, j>>) \/ <<m, j>> \in refused
      <4>1. k \in Steps /\ StoredInOrder
        BY <2>2, InOrder DEF Steps
      <4> QED
        BY <2>1, <2>2, <4>1 DEF StoredInOrder
    <3>2. 1 \in 1 .. k - 1 /\ 2 \in 1 .. k - 1
      BY <2>2
    <3> QED
      BY <3>1, <3>2
  <2>4. /\ Owner(<<m, k - 2>>) = a /\ Peer(<<m, k - 2>>) = b
        /\ k - 2 \in {1, 2}
    BY <2>2 DEF Owner, Peer
  <2> QED
    BY <2>1, <2>3, <2>4 DEF Mailbox, m
<1> QED
  BY <1>1, InductiveInvariant, PTL

(* Messages of one author keep the order of their sends in "data", the      *)
(* field addListenerRecuperarMensagens sorts by, whatever was sent again.   *)
THEOREM AuthorsKeepOrder == Spec => []AuthorOrderKept
<1>1. Inductive => AuthorOrderKept
  <2> SUFFICES ASSUME Inductive, NEW u \in Users, NEW j \in 1 .. acked[u],
                      NEW i \in 1 .. j - 1
               PROVE  \/ log[u][i] \in refused
                      \/ log[u][j] \in refused
                      \/ stamp[log[u][i]] < stamp[log[u][j]]
    BY DEF AuthorOrderKept
  <2>1. j \in 1 .. applied[u]
    <3>1. acked[u] \in Nat /\ applied[u] \in Nat /\ acked[u] <= applied[u]
      BY DEF Inductive, TypeOK
    <3> QED
      BY <3>1
  <2> QED
    BY <2>1 DEF Inductive, StampInv
<1> QED
  BY <1>1, InductiveInvariant, PTL

(* Once a salvarConversa has left the mutation queue, no earlier message of  *)
(* the same author leads that conversation, however often the stream broke. *)
THEOREM LaterPreviewStays == Spec => []PreviewNotOvertaken
<1>1. Inductive => PreviewNotOvertaken
  <2> SUFFICES ASSUME Inductive, NEW u \in Users, NEW j \in 1 .. acked[u],
                      NEW i \in 1 .. j - 1, SamePreview(log[u][i], log[u][j]),
                      log[u][j] \notin refused
               PROVE  preview[Path(log[u][j])] # log[u][i][1]
    BY DEF PreviewNotOvertaken
  <2>1. j \in 1 .. applied[u]
    <3>1. acked[u] \in Nat /\ applied[u] \in Nat /\ acked[u] <= applied[u]
      BY DEF Inductive, TypeOK
    <3> QED
      BY <3>1
  <2> QED
    BY <2>1 DEF Inductive, PreviewOrder
<1> QED
  BY <1>1, InductiveInvariant, PTL

(* Whatever of others the server held when a message was sent is dated before *)
(* all its documents, in both mailboxes, for as long as its author's client has *)
(* not had to send it again for want of an acknowledgement.                 *)
THEOREM RepliesFollow == Spec => []ReplyFollowsBasis
<1>1. Inductive => ReplyFollowsBasis
  BY DEF Inductive, BasisInv, ReplyFollowsBasis
<1> QED
  BY <1>1, InductiveInvariant, PTL

(* Of two devices that write the same preview, the one that answers has the *)
(* last word: what it answers, unless sent again, does not come back over   *)
(* the answer in either list.                                              *)
THEOREM AnswersStayOnTop == Spec => []AnswerStaysOnTop
<1>1. Inductive => AnswerStaysOnTop
  <2> SUFFICES ASSUME Inductive, NEW m \in Messages, NEW n \in Messages,
                      Previews(n) \subseteq kept[m],
                      NEW w \in Previews(m), Stored(w), preview[Path(w)] = n
               PROVE  FALSE
    BY DEF AnswerStaysOnTop
  <2>1. w \in Writes /\ w = <<m, w[2]>> /\ w[2] \in Steps /\ IsPreview(w)
    BY DEF Previews, Writes, Steps, IsPreview
  <2>2. Path(w) = <<Owner(w), Peer(w)>> /\ Owner(w) \in Users /\ Peer(w) \in Users
    BY <2>1, PathType DEF Path
  <2>3. n # None
    OBVIOUS
  <2>4. PICK x \in Previews(n) : \A v \in Writes :
          IsPreview(v) /\ Path(v) = Path(w) => stamp[v] <= stamp[x]
    BY <2>2, <2>3 DEF Inductive, PreviewLatest
  <2>5. stamp[w] <= stamp[x] /\ x \in Writes
    BY <2>1, <2>4 DEF Previews, Writes, Steps
  <2>6. stamp[x] < stamp[w]
    BY <2>1, <2>4 DEF Inductive, BasisInv
  <2>7. stamp[w] \in Nat /\ stamp[x] \in Nat
    BY <2>1, <2>5 DEF Inductive, TypeOK
  <2> QED
    BY <2>5, <2>6, <2>7
<1> QED
  BY <1>1, InductiveInvariant, PTL

(* Once both clients have sent everything, two mailboxes differ only by     *)
(* copies that were refused or that died with a process.                    *)
THEOREM MailboxesConverge == Spec => []MailboxesAgree
<1>1. Inductive => MailboxesAgree
  <2> SUFFICES ASSUME Inductive, NEW a \in Users, NEW b \in Users,
                      Drained(a), Drained(b),
                      NEW m \in Mailbox(a, b) \ Mailbox(b, a),
                      \A k \in {1, 2} :
                        /\ <<m, k>> \notin refused
                        /\ \E i \in 1 .. Len(log[From[m]]) : log[From[m]][i] = <<m, k>>
               PROVE  FALSE
    BY DEF MailboxesAgree, InLog
  <2>1. m \in Messages /\ From[m] \in Users
    BY DEF Mailbox
  <2>2. PICK k \in {1, 2} : Owner(<<m, k>>) = a /\ Peer(<<m, k>>) = b
    BY DEF Mailbox
  <2>3. From[m] = a \/ From[m] = b
    BY <2>2 DEF Owner, Peer
  <2>4. Len(log[From[m]]) = applied[From[m]]
    <3>1. /\ acked[From[m]] \in Nat /\ applied[From[m]] \in Nat
          /\ persisted[From[m]] \in Nat /\ Len(log[From[m]]) \in Nat
          /\ acked[From[m]] <= applied[From[m]]
          /\ applied[From[m]] <= persisted[From[m]]
          /\ persisted[From[m]] <= Len(log[From[m]])
      BY <2>1, Cursors DEF Inductive
    <3> QED
      BY <2>3, <3>1 DEF Drained
  <2>5. \A j \in {1, 2} : Stored(<<m, j>>)
    BY <2>1, <2>4 DEF Inductive, Answered
  <2>6. /\ Owner(<<m, 3 - k>>) = b /\ Peer(<<m, 3 - k>>) = a
        /\ 3 - k \in {1, 2}
    BY <2>2 DEF Owner, Peer
  <2>7. m \in Mailbox(b, a)
    BY <2>1, <2>5, <2>6 DEF Mailbox
  <2> QED
    BY <2>7
<1> QED
  BY <1>1, InductiveInvariant, PTL

-----------------------------------------------------------------------------
(* The send path implements the contract of OrderedFanOut.                 *)

(* The fate of a write, before and after a step.                           *)
LEMMA FateOf ==
    ASSUME NEW w \in Writes
    PROVE  /\ stamp[w] # 0 => fate[w] = "stored"
           /\ stamp[w] = 0 /\ w \in refused => fate[w] = "refused"
           /\ stamp[w] = 0 /\ w \notin refused =>
                /\ w[1] \notin sent => fate[w] = "unsent"
                /\ w[1] \in sent /\ InLog(log[From[w[1]]], w) => fate[w] = "pending"
                /\ w[1] \in sent /\ ~InLog(log[From[w[1]]], w) => fate[w] = "lost"
  BY DEF fate, Stored

LEMMA FateAfter ==
    ASSUME NEW w \in Writes
    PROVE  /\ stamp'[w] # 0 => fate'[w] = "stored"
           /\ stamp'[w] = 0 /\ w \in refused' => fate'[w] = "refused"
           /\ stamp'[w] = 0 /\ w \notin refused' =>
                /\ w[1] \notin sent' => fate'[w] = "unsent"
                /\ w[1] \in sent' /\ InLog(log'[From[w[1]]], w) => fate'[w] = "pending"
                /\ w[1] \in sent' /\ ~InLog(log'[From[w[1]]], w) => fate'[w] = "lost"
  BY DEF fate, Stored, InLog

(* A step that stores, refuses, sends and forgets no write changes no fate. *)
LEMMA FateKept ==
    ASSUME NEW w \in Writes,
           (stamp'[w] = 0) <=> (stamp[w] = 0),
           (w \in refused') <=> (w \in refused),
           (w[1] \in sent') <=> (w[1] \in sent),
           InLog(log'[From[w[1]]], w) <=> InLog(log[From[w[1]]], w)
    PROVE  fate'[w] = fate[w]
<1>1. CASE stamp[w] # 0
  BY <1>1, FateOf, FateAfter
<1>2. CASE stamp[w] = 0 /\ w \in refused
  BY <1>2, FateOf, FateAfter
<1>3. CASE stamp[w] = 0 /\ w \notin refused /\ w[1] \notin sent
  BY <1>3, FateOf, FateAfter
<1>4. CASE stamp[w] = 0 /\ w \notin refused /\ w[1] \in sent
  <2>1. CASE InLog(log[From[w[1]]], w)
    BY <1>4, <2>1, FateOf, FateAfter
  <2>2. CASE ~InLog(log[From[w[1]]], w)
    BY <1>4, <2>2, FateOf, FateAfter
  <2> QED
    BY <2>1, <2>2
<1> QED
  BY <1>1, <1>2, <1>3, <1>4

(* fate is a function on the writes, so that it is known by its values.     *)
LEMMA FateFunction ==
    /\ fate = [w \in Writes |-> fate[w]]
    /\ fate' = [w \in Writes |-> fate'[w]]
  BY DEF fate

(* What the log, the server or the refusals know of, is of a sent message.  *)
LEMMA KnownIsSent ==
    ASSUME Inductive, NEW w \in Writes,
           stamp[w] # 0 \/ w \in refused \/ InLog(log[From[w[1]]], w)
    PROVE  /\ w[1] \in sent
           /\ InLog(log[From[w[1]]], w)
<1> DEFINE f == From[w[1]]
<1>1. f \in Users /\ TypeOK /\ LogInv
  BY PathType DEF Inductive
<1>2. /\ persisted[f] \in Nat /\ acked[f] \in Nat /\ Len(log[f]) \in Nat
      /\ persisted[f] <= Len(log[f]) /\ acked[f] <= Len(log[f])
  <2>1. /\ persisted[f] \in Nat /\ applied[f] \in Nat /\ acked[f] \in Nat
        /\ acked[f] <= applied[f] /\ applied[f] <= persisted[f]
        /\ persisted[f] <= Len(log[f]) /\ Len(log[f]) \in Nat
    BY <1>1, Cursors
  <2> QED
    BY <2>1
<1> HIDE DEF f
<1>3. \E i \in 1 .. Len(log[f]) : log[f][i] = w
  <2>1. CASE stamp[w] # 0
    <3>1. PICK i \in 1 .. persisted[f] : log[f][i] = w
      BY <2>1 DEF Inductive, OnDisk, Stored, f
    <3> QED
      BY <1>2, <3>1
  <2>2. CASE w \in refused
    <3>1. PICK i \in 1 .. acked[f] : log[f][i] = w
      BY <2>2 DEF Inductive, RefusedSettled, Settled, f
    <3> QED
      BY <1>2, <3>1
  <2>3. CASE InLog(log[From[w[1]]], w)
    BY <2>3 DEF InLog, f
  <2> QED
    BY <2>1, <2>2, <2>3
<1>4. PICK i \in 1 .. Len(log[f]) : log[f][i] = w
  BY <1>3
<1>5. w[1] \in sent
  BY <1>1, <1>4 DEF LogInv
<1> QED
  BY <1>3, <1>5 DEF InLog, f

(* The writes before the next one of the pipeline have met their fate: the  *)
(* next one is due.                                                        *)
LEMMA NextIsDue ==
    ASSUME Inductive, NEW u \in Users, applied[u] < persisted[u],
           stamp[log[u][applied[u] + 1]] = 0
    PROVE  LET w == log[u][applied[u] + 1] IN
           /\ w \in Writes
           /\ w \notin refused
           /\ Contract!Due(w[1], w[2])
<1> DEFINE p == applied[u] + 1
           w == log[u][p]
<1>1. TypeOK /\ LogInv /\ Answered
  BY DEF Inductive
<1>2. /\ persisted[u] \in Nat /\ applied[u] \in Nat /\ acked[u] \in Nat
      /\ acked[u] <= applied[u] /\ applied[u] <= persisted[u]
      /\ persisted[u] <= Len(log[u]) /\ Len(log[u]) \in Nat
      /\ \A i \in 1 .. Len(log[u]) : log[u][i] \in Writes
  BY <1>1, Cursors
<1>3. p \in 1 .. Len(log[u]) /\ w \in Writes
  BY <1>2
<1>4. w = <<w[1], w[2]>> /\ w[1] \in Messages /\ w[2] \in Steps
  BY <1>3 DEF Writes
<1>s. stamp[w] = 0
  OBVIOUS
<1>5. /\ From[w[1]] = u
      /\ w[1] \in sent
      /\ \A h \in 1 .. p - 1 : log[u][h] # w
  BY <1>1, <1>3 DEF LogInv
<1>i. InLog(log[u], w)
  BY <1>3 DEF InLog
<1> HIDE DEF w
<1>6. w \notin refused
  <2> SUFFICES ASSUME w \in refused PROVE FALSE
    OBVIOUS
  <2>1. PICK i \in 1 .. acked[u] : log[u][i] = w
    BY <1>5 DEF Inductive, RefusedSettled, Settled
  <2>2. i \in 1 .. p - 1
    BY <1>2
  <2> QED
    BY <1>5, <2>1, <2>2
<1>7. fate[w] = "pending"
  BY <1>3, <1>5, <1>6, <1>i, <1>s, FateOf
<1>8. ASSUME NEW j \in Steps, j < w[2] PROVE fate[<<w[1], j>>] # "pending"
  <2>1. j \in 1 .. w[2] - 1
    BY <1>4, <1>8 DEF Steps
  <2>2. PICK h \in 1 .. p - 1 : log[u][h] = <<w[1], j>>
    BY <1>1, <1>3, <2>1, IssuedBefore DEF w
  <2>3. h \in 1 .. applied[u] /\ <<w[1], j>> \in Writes
    BY <1>2, <1>4 DEF Writes
  <2>4. stamp[<<w[1], j>>] # 0 \/ <<w[1], j>> \in refused
    BY <1>1, <2>2, <2>3 DEF Answered, Stored
  <2> QED
    BY <2>3, <2>4, FateOf
<1>9. Contract!Due(w[1], w[2])
  BY <1>4, <1>7, <1>8 DEF Contract!Due
<1> QED
  BY <1>3, <1>6, <1>9 DEF w

(* actionPushMessage issues a message no write of which is known yet.       *)
LEMMA PushSends ==
    ASSUME Inductive, NEW m \in Messages, ActionPushMessage(m)
    PROVE  Contract!Send(m)
<1>1. TypeOK /\ LogInv
  BY DEF Inductive
<1>2. /\ m \notin sent /\ sent' = sent \cup {m}
      /\ stamp' = stamp /\ refused' = refused
  BY DEF ActionPushMessage, server
<1>3. ASSUME NEW k \in Steps
      PROVE  /\ <<m, k>> \in Writes
             /\ stamp[<<m, k>>] = 0 /\ <<m, k>> \notin refused
             /\ fate[<<m, k>>] = "unsent"
  <2>1. <<m, k>> \in Writes /\ <<m, k>>[1] = m
    BY DEF Writes
  <2>2. stamp[<<m, k>>] = 0 /\ <<m, k>> \notin refused
    BY <1>2, <2>1, KnownIsSent
  <2> QED
    BY <1>2, <2>1, <2>2, FateOf
<1>4. ASSUME NEW k \in Steps PROVE fate'[<<m, k>>] = "pending"
  <2>1. /\ Len(log[From[m]]) \in Nat
        /\ Len(log'[From[m]]) = Len(log[From[m]]) + 4
        /\ log'[From[m]][Len(log[From[m]]) + k] = <<m, k>>
    <3>1. From[m] \in Users
      OBVIOUS
    <3> QED
      BY <1>1, <3>1, Cursors, PushLog
  <2>2. Len(log[From[m]]) + k \in 1 .. Len(log'[From[m]])
    BY <2>1 DEF Steps
  <2>3. InLog(log'[From[m]], <<m, k>>)
    BY <2>1, <2>2 DEF InLog
  <2>4. <<m, k>>[1] = m
    OBVIOUS
  <2> QED
    BY <1>2, <1>3, <2>3, <2>4, FateAfter
<1>5. ASSUME NEW w \in Writes, w[1] # m PROVE fate'[w] = fate[w]
  <2> DEFINE f == From[w[1]]
  <2>1. f \in Users
    BY PathType
  <2> HIDE DEF f
  <2>2. /\ Len(log[f]) \in Nat /\ Len(log'[f]) \in Nat
        /\ Len(log[f]) <= Len(log'[f])
        /\ \A x \in 1 .. Len(log[f]) : log'[f][x] = log[f][x]
        /\ \A x \in 1 .. Len(log'[f]) :
             x > Len(log[f]) => log'[f][x] = <<m, x - Len(log[f])>>
    BY <1>1, <2>1, PushParts
  <2>3. InLog(log[f], w) => InLog(log'[f], w)
    BY <2>2 DEF InLog
  <2>4. ASSUME NEW x \in 1 .. Len(log'[f]), log'[f][x] = w
        PROVE  x \in 1 .. Len(log[f]) /\ log[f][x] = w
    <3>1. ~(x > Len(log[f]))
      BY <1>5, <2>2, <2>4
    <3> QED
      BY <2>2, <2>4, <3>1
  <2>5. InLog(log'[f], w) => InLog(log[f], w)
    BY <2>4 DEF InLog
  <2> QED
    BY <1>2, <1>5, <2>3, <2>5, FateKept DEF f
<1>6. \A w \in Writes : fate'[w] = IF w[1] = m THEN "pending" ELSE fate[w]
  <2> TAKE w \in Writes
  <2>1. w[1] = m => \E k \in Steps : w = <<m, k>>
    BY DEF Writes
  <2> QED
    BY <1>4, <1>5, <2>1
<1>7. fate' = [w \in Writes |-> IF w[1] = m THEN "pending" ELSE fate[w]]
  BY <1>6, FateFunction
<1> QED
  BY <1>3, <1>7 DEF Contract!Send, Contract!Writes, Writes

(* The server stores the write that is due, or dates again one it has.      *)
LEMMA CommitStores ==
    ASSUME Inductive, NEW u \in Users, Commit(u)
    PROVE  Contract!Next \/ fate' = fate
<1> DEFINE w == log[u][applied[u] + 1]
<1>1. TypeOK /\ LogInv
  BY DEF Inductive
<1>2. /\ w \in Writes
      /\ stamp' = [stamp EXCEPT ![w] = clock + 1]
  BY <1>1, CommitWrite
<1>3. /\ applied[u] < persisted[u]
      /\ log' = log /\ refused' = refused /\ sent' = sent
  BY DEF Commit
<1>4. stamp'[w] # 0 /\ \A x \in Writes : x # w => stamp'[x] = stamp[x]
  BY <1>1, <1>2 DEF TypeOK
<1>5. \A x \in Writes : x # w => fate'[x] = fate[x]
  BY <1>3, <1>4, FateKept
<1>6. fate'[w] = "stored"
  BY <1>2, <1>4, FateAfter
<1>7. CASE stamp[w] # 0
  <2>1. fate[w] = "stored"
    BY <1>2, <1>7, FateOf
  <2>2. \A x \in Writes : fate'[x] = fate[x]
    BY <1>5, <1>6, <2>1
  <2> QED
    BY <2>2, FateFunction
<1>8. CASE stamp[w] = 0
  <2>1. Contract!Due(w[1], w[2])
    BY <1>3, <1>8, NextIsDue
  <2>2. w = <<w[1], w[2]>> /\ w[1] \in Messages /\ w[2] \in Steps
    BY <1>2 DEF Writes
  <2> HIDE DEF w
  <2>3. fate' = [fate EXCEPT ![w] = "stored"]
    BY <1>2, <1>5, <1>6, FateFunction
  <2>4. Contract!Store(w[1], w[2])
    BY <2>1, <2>2, <2>3 DEF Contract!Store
  <2> QED
    BY <2>2, <2>4 DEF Contract!Next
<1> QED
  BY <1>4, <1>7, <1>8

(* A permanent error turns down the write that is due, unless the server    *)
(* has it from before the stream broke.                                    *)
LEMMA RefuseRefuses ==
    ASSUME Inductive, NEW u \in Users, Refuse(u)
    PROVE  Contract!Next \/ fate' = fate
<1> DEFINE w == log[u][applied[u] + 1]
<1>1. TypeOK /\ LogInv
  BY DEF Inductive
<1>2. /\ applied[u] < persisted[u]
      /\ refused' = refused \cup {w}
      /\ log' = log /\ stamp' = stamp /\ sent' = sent
  BY DEF Refuse, server
<1>3. w \in Writes
  <2>1. /\ applied[u] \in Nat /\ persisted[u] \in Nat /\ Len(log[u]) \in Nat
        /\ persisted[u] <= Len(log[u])
        /\ \A i \in 1 .. Len(log[u]) : log[u][i] \in Writes
    BY <1>1, Cursors
  <2>2. applied[u] + 1 \in 1 .. Len(log[u])
    BY <1>2, <2>1
  <2> QED
    BY <2>1, <2>2
<1>4. \A x \in Writes : x # w => fate'[x] = fate[x]
  BY <1>2, FateKept
<1>5. CASE stamp[w] # 0
  <2>1. fate[w] = "stored" /\ fate'[w] = "stored"
    BY <1>2, <1>3, <1>5, FateOf, FateAfter
  <2>2. \A x \in Writes : fate'[x] = fate[x]
    BY <1>4, <2>1
  <2> QED
    BY <2>2, FateFunction
<1>6. CASE stamp[w] = 0
  <2>1. Contract!Due(w[1], w[2])
    BY <1>2, <1>6, NextIsDue
  <2>2. w = <<w[1], w[2]>> /\ w[1] \in Messages /\ w[2] \in Steps
    BY <1>3 DEF Writes
  <2>3. fate'[w] = "refused"
    BY <1>2, <1>3, <1>6, FateAfter
  <2> HIDE DEF w
  <2>4. fate' = [fate EXCEPT ![w] = "refused"]
    BY <1>3, <1>4, <2>3, FateFunction
  <2>5. Contract!Refuse(w[1], w[2])
    BY <2>1, <2>2, <2>4 DEF Contract!Refuse
  <2> QED
    BY <2>2, <2>5 DEF Contract!Next
<1> QED
  BY <1>5, <1>6

(* What a crash loses of a message is its tail: the log holds the writes of *)
(* a message in order, and a message not wholly on disk is whole in memory. *)
LEMMA CrashLoses ==
    ASSUME Inductive, NEW u \in Users, Crash(u)
    PROVE  Contract!Next
<1>1. TypeOK /\ LogInv /\ OnDisk /\ RefusedSettled /\ MemoryWhole
  BY DEF Inductive
<1>2. /\ stamp' = stamp /\ refused' = refused /\ sent' = sent
      /\ log' = [log EXCEPT ![u] = SubSeq(@, 1, persisted[u])]
  BY DEF Crash, server
<1>3. /\ persisted[u] \in Nat /\ acked[u] \in Nat /\ Len(log[u]) \in Nat
      /\ acked[u] <= persisted[u] /\ persisted[u] <= Len(log[u])
  <2>1. /\ persisted[u] \in Nat /\ applied[u] \in Nat /\ acked[u] \in Nat
        /\ acked[u] <= applied[u] /\ applied[u] <= persisted[u]
        /\ persisted[u] <= Len(log[u]) /\ Len(log[u]) \in Nat
    BY <1>1, Cursors
  <2> QED
    BY <2>1
<1>4. /\ Len(log'[u]) = persisted[u]
      /\ \A i \in 1 .. persisted[u] : log'[u][i] = log[u][i]
      /\ \A v \in Users : v # u => log'[v] = log[v]
  <2>1. log \in [Users -> Seq(Writes)] /\ log[u] \in Seq(Writes)
    BY <1>1 DEF TypeOK
  <2>2. log'[u] = SubSeq(log[u], 1, persisted[u])
    BY <1>2, <2>1
  <2>3. \A v \in Users : v # u => log'[v] = log[v]
    BY <1>2, <2>1
  <2>4. /\ Len(log'[u]) = persisted[u]
        /\ \A i \in 1 .. persisted[u] : log'[u][i] = log[u][i]
    BY <1>3, <2>1, <2>2
  <2> QED
    BY <2>3, <2>4
<1> DEFINE Cut(w) == /\ w[1] \in sent
                     /\ InLog(log[From[w[1]]], w)
                     /\ ~InLog(log'[From[w[1]]], w)
           S == {w \in Writes : Cut(w)}
\* What is cut was only in memory.
<1>5. ASSUME NEW w \in Writes, Cut(w)
      PROVE  /\ From[w[1]] = u
             /\ \E i \in persisted[u] + 1 .. Len(log[u]) : log[u][i] = w
             /\ stamp[w] = 0 /\ w \notin refused
             /\ fate[w] = "pending"
  <2>1. From[w[1]] \in Users
    BY PathType
  <2>2. From[w[1]] = u
    <3>1. From[w[1]] # u => log'[From[w[1]]] = log[From[w[1]]]
      BY <1>4, <2>1
    <3> QED
      BY <1>5, <3>1
  <2>3. \A i \in 1 .. persisted[u] : log[u][i] # w
    BY <1>4, <1>5, <2>2 DEF InLog
  <2>4. \E i \in persisted[u] + 1 .. Len(log[u]) : log[u][i] = w
    <3>1. PICK i \in 1 .. Len(log[u]) : log[u][i] = w
      BY <1>5, <2>2 DEF InLog
    <3>2. ~(i <= persisted[u])
      BY <1>3, <2>3, <3>1
    <3>3. i \in persisted[u] + 1 .. Len(log[u])
      BY <1>3, <3>2
    <3> QED
      BY <3>1, <3>3
  <2>5. stamp[w] = 0
    BY <1>1, <2>2, <2>3 DEF OnDisk, Stored
  <2>6. w \notin refused
    <3> SUFFICES ASSUME w \in refused PROVE FALSE
      OBVIOUS
    <3>1. PICK i \in 1 .. acked[u] : log[u][i] = w
      BY <1>1, <2>2 DEF RefusedSettled, Settled
    <3>2. i \in 1 .. persisted[u]
      BY <1>3
    <3> QED
      BY <2>3, <3>1, <3>2
  <2>7. fate[w] = "pending"
    BY <1>5, <2>5, <2>6, FateOf
  <2> QED
    BY <2>2, <2>4, <2>5, <2>6, <2>7
\* With a write, the rest of its message is cut.
<1>6. ASSUME NEW m \in Messages, NEW k \in Steps, Cut(<<m, k>>), NEW j \in Steps, j > k
      PROVE  Cut(<<m, j>>)
  <2>1. /\ <<m, k>> \in Writes /\ <<m, k>>[1] = m
        /\ <<m, j>>[1] = m /\ <<m, j>>[2] = j
    BY DEF Writes
  <2>2. /\ From[m] = u
        /\ \E i \in persisted[u] + 1 .. Len(log[u]) : log[u][i] = <<m, k>>
    BY <1>5, <1>6, <2>1
  <2>3. PICK i \in persisted[u] + 1 .. Len(log[u]) : log[u][i] = <<m, k>>
    BY <2>2
  <2>4. InLog(log[u], <<m, j>>)
    <3>1. WholeIn(log[u], log[u][i][1])
      BY <1>1 DEF MemoryWhole
    <3> QED
      BY <2>3, <3>1 DEF WholeIn
  <2>5. ASSUME NEW h \in 1 .. persisted[u], log[u][h] = <<m, j>> PROVE FALSE
    <3>1. h \in 1 .. Len(log[u]) /\ k \in 1 .. log[u][h][2] - 1
      BY <1>3, <1>6, <2>5 DEF Steps
    <3>2. PICK g \in 1 .. h - 1 : log[u][g] = <<m, k>>
      <4>1. log[u][h][1] = m
        BY <2>5
      <4>2. \E g \in 1 .. h - 1 : log[u][g] = <<log[u][h][1], k>>
        BY <1>1, <3>1, IssuedBefore
      <4> QED
        BY <4>1, <4>2
    <3>3. g \in 1 .. i - 1 /\ i \in 1 .. Len(log[u])
      BY <1>3
    <3>4. log[u][g] # log[u][i]
      <4>1. \A x \in 1 .. i - 1 : log[u][x] # log[u][i]
        BY <1>1, <3>3 DEF LogInv
      <4> QED
        BY <3>3, <4>1
    <3> QED
      BY <2>3, <3>2, <3>4
  <2>6. ~InLog(log'[u], <<m, j>>)
    BY <1>4, <2>5 DEF InLog
  <2>7. m \in sent
    BY <1>6, <2>1
  <2> QED
    BY <2>1, <2>2, <2>4, <2>6, <2>7
<1>7. ASSUME NEW w \in Writes, Cut(w) PROVE fate'[w] = "lost"
  BY <1>2, <1>5, <1>7, FateAfter
<1>8. ASSUME NEW w \in Writes, ~Cut(w) PROVE fate'[w] = fate[w]
  <2> DEFINE f == From[w[1]]
  <2>1. f \in Users
    BY PathType
  <2>2. InLog(log'[f], w) => InLog(log[f], w)
    <3>1. CASE f = u
      <4>1. \A i \in 1 .. persisted[u] : i \in 1 .. Len(log[u])
        BY <1>3
      <4> QED
        BY <1>4, <3>1, <4>1 DEF InLog
    <3>2. CASE f # u
      BY <1>4, <2>1, <3>2
    <3> QED
      BY <3>1, <3>2
  <2>3. InLog(log[f], w) => w[1] \in sent
    BY KnownIsSent
  <2>4. InLog(log'[f], w) <=> InLog(log[f], w)
    BY <1>8, <2>2, <2>3
  <2> QED
    BY <1>2, <2>4, FateKept
<1> HIDE DEF Cut
<1>9. fate' = [w \in Writes |-> IF w \in S THEN "lost" ELSE fate[w]]
  <2>1. \A w \in Writes : fate'[w] = IF w \in S THEN "lost" ELSE fate[w]
    BY <1>7, <1>8
  <2> HIDE DEF S
  <2> QED
    BY <2>1, FateFunction
<1>10. ASSUME NEW m \in Messages, NEW k \in Steps, <<m, k>> \in S
       PROVE  /\ fate[<<m, k>>] = "pending"
              /\ \A j \in Steps : j > k => <<m, j>> \in S
  <2>1. \A j \in Steps : <<m, j>> \in Writes
    BY DEF Writes
  <2>2. Cut(<<m, k>>) /\ <<m, k>> \in Writes
    BY <1>10
  <2>3. fate[<<m, k>>] = "pending"
    BY <1>5, <2>2
  <2>4. \A j \in Steps : j > k => Cut(<<m, j>>)
    BY <1>6, <2>2
  <2> QED
    BY <2>1, <2>3, <2>4
<1>11. S \in SUBSET Writes
  OBVIOUS
<1> HIDE DEF S
<1>12. Contract!Lose(S)
  BY <1>9, <1>10 DEF Contract!Lose, Contract!Writes, Writes
<1> QED
  BY <1>11, <1>12 DEF Contract!Next, Contract!Writes, Writes

(* What an observer is told of a message is what OrderedFanOut promises: its *)
(* four writes take effect in the order of actionPushMessage, one after the *)
(* other, and what a crash takes of them is the end.                       *)
THEOREM SendPathKeepsContract == Spec => ImplementsContract
<1>1. Init => Contract!Init
  <2> SUFFICES ASSUME Init PROVE fate = [w \in Contract!Writes |-> "unsent"]
    BY DEF Contract!Init
  <2>1. \A w \in Writes : fate[w] = "unsent"
    BY FateOf DEF Init
  <2> QED
    BY <2>1, FateFunction DEF Contract!Writes, Writes
<1>2. Inductive /\ [Next]_vars => [Contract!Next]_fate
  <2> SUFFICES ASSUME Inductive, [Next]_vars
               PROVE  Contract!Next \/ fate' = fate
    OBVIOUS
  <2>1. ASSUME NEW m \in Messages, ActionPushMessage(m) PROVE Contract!Next
    BY <2>1, PushSends DEF Contract!Next
  <2>2. ASSUME stamp' = stamp, refused' = refused, sent' = sent, log' = log
        PROVE  fate' = fate
    BY <2>2 DEF fate, Stored
  <2>3. ASSUME NEW u \in Users, WriteLocally(u) PROVE fate' = fate
    BY <2>2, <2>3 DEF WriteLocally, server
  <2>4. ASSUME NEW u \in Users, Acknowledge(u) PROVE fate' = fate
    BY <2>2, <2>4 DEF Acknowledge, server
  <2>5. ASSUME NEW u \in Users, BreakStream(u) PROVE fate' = fate
    BY <2>2, <2>5 DEF BreakStream, server
  <2>6. CASE UNCHANGED vars
    BY <2>2, <2>6 DEF vars, device, server
  <2> QED
    BY <2>1, <2>3, <2>4, <2>5, <2>6, CommitStores, RefuseRefuses, CrashLoses DEF Next
<1> QED
  BY <1>1, <1>2, InductiveInvariant, PTL DEF Spec, ImplementsContract, Contract!Spec
=============================================================================
