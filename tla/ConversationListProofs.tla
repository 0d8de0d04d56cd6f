----------------------- MODULE ConversationListProofs -----------------------
(***************************************************************************)
(* Theorems about the home screen, for any set of peers and any number of  *)
(* contact queries, listeners and contacts looked up.                      *)
(***************************************************************************)
EXTENDS ConversationList, FiniteSetTheorems, TLAPS

USE ListAssumption

-----------------------------------------------------------------------------
(* The documents of a snapshot.                                            *)

\* The place of x among the numbers of S.
Place(S, x) == Cardinality({y \in S : y <= x})

(* Finitely many ids can be put in order: each goes to its place.          *)
LEMMA InOrder ==
    ASSUME NEW S \in SUBSET Nat, IsFiniteSet(S)
    PROVE  \E q \in [1 .. Cardinality(S) -> S] :
               \A i, j \in 1 .. Cardinality(S) : i < j => q[i] < q[j]
<1> DEFINE n == Cardinality(S)
           Below(x) == {y \in S : y <= x}
           f == [x \in S |-> Place(S, x)]
<1>1. n \in Nat
  BY FS_CardinalityType
<1>2. \A x \in S : /\ IsFiniteSet(Below(x)) /\ Cardinality(Below(x)) \in Nat
                   /\ Cardinality(Below(x)) <= n
  <2> TAKE x \in S
  <2> DEFINE B == Below(x)
  <2>1. B \in SUBSET S
    OBVIOUS
  <2> HIDE DEF B
  <2>2. IsFiniteSet(B) /\ Cardinality(B) <= n /\ Cardinality(B) \in Nat
    BY <2>1, FS_Subset, FS_CardinalityType
  <2> QED
    BY <2>2 DEF B
<1>3. \A x \in S : Cardinality(Below(x)) >= 1
  <2> TAKE x \in S
  <2> DEFINE B == Below(x)
  <2>1. x \in B
    OBVIOUS
  <2>2. IsFiniteSet(B) /\ Cardinality(B) \in Nat
    BY <1>2
  <2> HIDE DEF B
  <2>3. Cardinality(B) # 0
    BY <2>1, <2>2, FS_EmptySet
  <2>4. Cardinality(B) >= 1
    BY <2>2, <2>3
  <2> QED
    BY <2>4 DEF B
<1>4. \A x, y \in S : x < y => Cardinality(Below(x)) < Cardinality(Below(y))
  <2> SUFFICES ASSUME NEW x \in S, NEW y \in S, x < y
               PROVE  Cardinality(Below(x)) < Cardinality(Below(y))
    OBVIOUS
  <2> DEFINE A == Below(x)
             B == Below(y)
  <2>1. A \in SUBSET B /\ A # B
    <3>1. y \in B /\ y \notin A
      OBVIOUS
    <3>2. \A z \in S : z <= x => z <= y
      OBVIOUS
    <3>3. A \subseteq B
      BY <3>2
    <3> HIDE DEF A, B
    <3> QED
      BY <3>1, <3>3
  <2>2. IsFiniteSet(B) /\ Cardinality(A) \in Nat /\ Cardinality(B) \in Nat
    BY <1>2
  <2> HIDE DEF A, B
  <2>3. Cardinality(A) <= Cardinality(B) /\ Cardinality(A) # Cardinality(B)
    BY <2>1, <2>2, FS_Subset
  <2>4. Cardinality(A) < Cardinality(B)
    BY <2>2, <2>3
  <2> QED
    BY <2>4 DEF A, B
<1>5. f \in [S -> 1 .. n] /\ \A x, y \in S : x < y => f[x] < f[y]
  BY <1>1, <1>2, <1>3, <1>4 DEF Place
<1>6. f \in Injection(S, 1 .. n)
  <2>1. \A x, y \in S : f[x] = f[y] => x = y
    <3> SUFFICES ASSUME NEW x \in S, NEW y \in S, x # y PROVE f[x] # f[y]
      OBVIOUS
    <3>1. x < y \/ y < x
      OBVIOUS
    <3> HIDE DEF f
    <3>2. f[x] \in Int /\ f[y] \in Int
      BY <1>5
    <3> QED
      BY <1>5, <3>1, <3>2
  <2> HIDE DEF f
  <2> QED
    BY <1>5, <2>1 DEF Injection, IsInjective
<1>7. IsFiniteSet(1 .. n) /\ Cardinality(1 .. n) = n
  BY <1>1, FS_Interval
<1> HIDE DEF f, n
<1>8. f \in Surjection(S, 1 .. n)
  BY <1>6, <1>7, FS_Injection DEF n
<1>9. \A i \in 1 .. n : \E x \in S : f[x] = i
  BY <1>8 DEF Surjection
<1> DEFINE q == [i \in 1 .. n |-> CHOOSE x \in S : f[x] = i]
<1>10. q \in [1 .. n -> S] /\ \A i \in 1 .. n : f[q[i]] = i
  BY <1>9
<1> HIDE DEF q
<1>11. \A i, j \in 1 .. n : i < j => q[i] < q[j]
  <2> SUFFICES ASSUME NEW i \in 1 .. n, NEW j \in 1 .. n, i < j, ~(q[i] < q[j])
               PROVE  FALSE
    OBVIOUS
  <2>1. q[i] \in S /\ q[j] \in S /\ f[q[i]] = i /\ f[q[j]] = j
    BY <1>10
  <2>2. q[j] < q[i] \/ q[j] = q[i]
    <3>1. q[i] \in Nat /\ q[j] \in Nat
      BY <2>1
    <3> QED
      BY <3>1
  <2>3. j < i \/ j = i
    BY <1>5, <2>1, <2>2
  <2> QED
    BY <1>1, <2>3
<1> QED
  BY <1>10, <1>11 DEF n

(* The listener's array holds every document of the snapshot, once each.    *)
LEMMA DocumentsOf ==
    ASSUME NEW S \in SUBSET Peers
    PROVE  /\ Documents(S) \in Seq(Peers)
           /\ \A p \in S : \E i \in DOMAIN Documents(S) : Documents(S)[i] = p
           /\ \A i, j \in DOMAIN Documents(S) : Documents(S)[i] = Documents(S)[j] => i = j
<1> DEFINE n == Cardinality(S)
           d == Documents(S)
           Sorted(q) == \A i, j \in 1 .. n : i < j => q[i] < q[j]
<1>1. S \in SUBSET Nat /\ IsFiniteSet(S) /\ n \in Nat
  BY FS_Subset, FS_CardinalityType
<1>2. \E q \in [1 .. n -> S] : Sorted(q)
  BY <1>1, InOrder
<1>3. d = CHOOSE q \in [1 .. n -> S] : Sorted(q)
  BY Zenon DEF Documents
<1> HIDE DEF Sorted, d
<1>4. d \in [1 .. n -> S] /\ Sorted(d)
  BY <1>2, <1>3, Zenon
<1>5. \A i, j \in 1 .. n : d[i] = d[j] => i = j
  <2> SUFFICES ASSUME NEW i \in 1 .. n, NEW j \in 1 .. n, i # j PROVE d[i] # d[j]
    OBVIOUS
  <2>1. i < j \/ j < i
    BY <1>1
  <2>2. d[i] \in Nat /\ d[j] \in Nat
    BY <1>1, <1>4
  <2>3. d[i] < d[j] \/ d[j] < d[i]
    BY <1>4, <2>1 DEF Sorted
  <2> QED
    BY <2>2, <2>3
<1>6. d \in Surjection(1 .. n, S)
  <2>1. d \in Injection(1 .. n, S)
    BY <1>4, <1>5 DEF Injection, IsInjective
  <2>2. IsFiniteSet(1 .. n) /\ Cardinality(1 .. n) = n
    BY <1>1, FS_Interval
  <2> QED
    BY <1>1, <2>1, <2>2, FS_Injection
<1>7. \A p \in S : \E i \in 1 .. n : d[i] = p
  BY <1>6 DEF Surjection
<1>8. d \in Seq(Peers) /\ DOMAIN d = 1 .. n
  <2>1. d \in [1 .. n -> Peers] /\ n \in Nat
    BY <1>1, <1>4
  <2> HIDE DEF n
  <2> QED
    BY <2>1
<1> QED
  BY <1>5, <1>7, <1>8 DEF d
(* What is saved and not answered for are peers too.                        *)
LEMMA SavingPeers == TypeOK => Saving \in SUBSET Peers
<1> SUFFICES ASSUME TypeOK, NEW k \in DOMAIN saves PROVE saves[k] \in Peers
  BY DEF Saving
<1>1. saves \in Seq(Peers)
  BY DEF TypeOK
<1> QED
  BY <1>1
-----------------------------------------------------------------------------
(* The inductive invariant.                                                *)

\* The handle is the only listener that a selected conversations tab has not paid
\* for with a repeated tap, and the contacts tab has stopped it.
Handled ==
    /\ Cardinality(active \ {handle}) <= repeats
    /\ screenContact => handle \notin active

\* Queries that do not overlap find the array empty and hold each contact once.
Single ==
    ~overlap =>
        /\ Len(loads) <= 1
        /\ loads # << >> => listContact = << >>
        /\ \A i, j \in DOMAIN listContact : listContact[i] = listContact[j] => i = j

Listed(p) == \E i \in DOMAIN listContact : listContact[i] = p
Loading(p) == \E i \in DOMAIN loads : p \in loads[i]

\* A known contact that is not listed will come with a query on its way, or after the
\* alert of its acknowledgement; or one of these was lost.
Pending ==
    screenContact =>
        \A p \in known : Listed(p) \/ Loading(p) \/ alert = "success" \/ lost

ListInv == TypeOK /\ RowsInSync /\ Handled /\ Single /\ Pending
-----------------------------------------------------------------------------
(* Who writes what.                                                        *)

(* The arrays, the view and the queries are left alone by the dialogue, the *)
(* rows, the other screens and the server.                                 *)
LEMMA ListWriters ==
    ASSUME [Next]_vars
    PROVE  \/ UNCHANGED <<screenContact, lists, loads, failed, overlap>>
           \/ TappedContactButton
           \/ TappedConversationRegister
           \/ \E i \in 1 .. MaxLoads : ContatosLoaded(i)
           \/ \E i \in 1 .. MaxLoads : ContatosFailed(i)
           \/ \E l \in 1 .. MaxListeners : ConversasSnapshot(l) \/ ConversasCached(l)
           \/ DismissSuccess
<1>1. CASE \/ UNCHANGED vars \/ ActionConfigUser \/ Back \/ Dismiss \/ Adicionar
           \/ LookupFailed \/ LookupEmpty \/ SaveAcknowledged \/ SaveRefused
  BY <1>1 DEF vars, lists, history, ActionConfigUser, Back, Dismiss, Adicionar, LookupFailed,
     LookupEmpty, SaveAcknowledged, SaveRefused
<1>2. CASE \E l \in 1 .. MaxListeners : ListenerFailed(l)
  BY <1>2 DEF ListenerFailed, history
<1>3. CASE \E p \in Peers : NewMessage(p) \/ LookupFound(p)
  BY <1>3 DEF NewMessage, LookupFound, history
<1>4. CASE \E i \in DOMAIN face : ShowRow(i) \/ DidSelectItem(i)
  BY <1>4 DEF ShowRow, DidSelectItem, history
<1> QED
  BY <1>1, <1>2, <1>3, <1>4 DEF Next

(* The listeners are left alone by all but the tabs, their own callbacks    *)
(* and the server; only the tabs and the errors of the client change which  *)
(* of them there are.                                                      *)
LEMMA ListenerWriters ==
    ASSUME [Next]_vars
    PROVE  /\ \/ UNCHANGED listeners
              \/ TappedContactButton
              \/ TappedConversationRegister
              \/ \E l \in 1 .. MaxListeners : \/ ConversasSnapshot(l) \/ ConversasCached(l)
                                              \/ ListenerFailed(l)
              \/ \E p \in Peers : NewMessage(p)
           /\ \/ UNCHANGED <<active, handle, screenContact, repeats>>
              \/ TappedContactButton
              \/ TappedConversationRegister
              \/ \E l \in 1 .. MaxListeners : ListenerFailed(l)
<1>1. CASE \/ UNCHANGED vars \/ ActionConfigUser \/ Back \/ Dismiss \/ Adicionar
           \/ LookupFailed \/ LookupEmpty \/ SaveAcknowledged \/ SaveRefused \/ DismissSuccess
  BY <1>1 DEF vars, listeners, history, ActionConfigUser, Back, Dismiss, Adicionar,
     LookupFailed, LookupEmpty, SaveAcknowledged, SaveRefused, DismissSuccess
<1>2. CASE \E i \in 1 .. MaxLoads : ContatosLoaded(i) \/ ContatosFailed(i)
  BY <1>2 DEF ContatosLoaded, ContatosFailed, listeners
<1>3. CASE \E p \in Peers : NewMessage(p) \/ LookupFound(p)
  BY <1>3 DEF NewMessage, LookupFound, listeners, history
<1>4. CASE \E i \in DOMAIN face : ShowRow(i) \/ DidSelectItem(i)
  BY <1>4 DEF ShowRow, DidSelectItem, listeners, history
<1>5. CASE \E l \in 1 .. MaxListeners : ConversasSnapshot(l) \/ ConversasCached(l)
  BY <1>5 DEF ConversasSnapshot, ConversasCached, Recuperar
<1> QED
  BY <1>1, <1>2, <1>3, <1>4, <1>5 DEF Next

-----------------------------------------------------------------------------
(* The helpers of the actions.                                             *)

(* An answered query leaves the queue, the others stay.                     *)
LEMMA WithoutParts ==
    ASSUME NEW S, NEW q \in Seq(S), NEW i \in DOMAIN q
    PROVE  /\ Without(q, i) \in Seq(S)
           /\ Len(Without(q, i)) = Len(q) - 1
           /\ \A j \in DOMAIN q : j # i =>
                \E k \in DOMAIN Without(q, i) : Without(q, i)[k] = q[j]
<1> DEFINE a == SubSeq(q, 1, i - 1)
           b == SubSeq(q, i + 1, Len(q))
           L == Len(q)
<1>1. L \in Nat /\ i \in 1 .. L /\ DOMAIN q = 1 .. L
  OBVIOUS
<1>2. /\ a \in Seq(S) /\ Len(a) = i - 1
      /\ \A k \in 1 .. i - 1 : a[k] = q[k]
  BY <1>1
<1>3. /\ b \in Seq(S) /\ Len(b) = L - i
      /\ \A k \in 1 .. L - i : b[k] = q[i + k]
  BY <1>1
<1>4. Without(q, i) = a \o b
  BY DEF Without
<1> HIDE DEF a, b, L
<1>5. /\ a \o b \in Seq(S) /\ Len(a \o b) = L - 1
      /\ \A k \in 1 .. L - 1 : (a \o b)[k] = IF k <= i - 1 THEN a[k] ELSE b[k - (i - 1)]
  <2>1. /\ a \o b \in Seq(S) /\ Len(a \o b) = Len(a) + Len(b)
        /\ \A k \in 1 .. Len(a) + Len(b) :
             (a \o b)[k] = IF k <= Len(a) THEN a[k] ELSE b[k - Len(a)]
    <3>1. a \in Seq(S) /\ b \in Seq(S)
      BY <1>2, <1>3
    <3> QED
      BY <3>1
  <2>2. Len(a) + Len(b) = L - 1 /\ Len(a) = i - 1
    BY <1>1, <1>2, <1>3
  <2> QED
    BY <2>1, <2>2
<1>6. ASSUME NEW j \in 1 .. L, j # i
      PROVE  \E k \in 1 .. L - 1 : (a \o b)[k] = q[j]
  <2>1. CASE j < i
    <3>1. j \in 1 .. L - 1 /\ j \in 1 .. i - 1
      BY <1>1, <2>1
    <3> QED
      BY <1>2, <1>5, <3>1
  <2>2. CASE j > i
    <3>1. j - 1 \in 1 .. L - 1 /\ ~(j - 1 <= i - 1) /\ j - i \in 1 .. L - i
          /\ (j - 1) - (i - 1) = j - i /\ i + (j - i) = j
      BY <1>1, <2>2
    <3>2. (a \o b)[j - 1] = b[j - i] /\ b[j - i] = q[j]
      BY <1>3, <1>5, <3>1
    <3> QED
      BY <3>1, <3>2
  <2>3. j < i \/ j > i
    BY <1>1, <1>6
  <2> QED
    BY <2>1, <2>2, <2>3
<1>7. DOMAIN (a \o b) = 1 .. L - 1
  <2> DEFINE c == a \o b
  <2>1. c \in Seq(S) /\ Len(c) = L - 1
    BY <1>5
  <2> HIDE DEF c
  <2>2. DOMAIN c = 1 .. L - 1
    BY <2>1
  <2> QED
    BY <2>2 DEF c
<1> QED
  BY <1>1, <1>4, <1>5, <1>6, <1>7 DEF L

(* The rows of the view are peers, and the row that adds a contact.         *)
LEMMA RowsType ==
    ASSUME NEW c \in BOOLEAN, NEW v \in Seq(Peers), NEW p \in Seq(Peers)
    PROVE  Rows(c, v, p) \in Seq(Peers \cup {AddRow})
<1>1. v \in Seq(Peers \cup {AddRow}) /\ p \in Seq(Peers \cup {AddRow})
  OBVIOUS
<1> QED
  BY <1>1 DEF Rows

(* What cellForItemAt and didSelectItemAt read for a row.                   *)
LEMMA AtType ==
    ASSUME TypeOK, NEW i \in DOMAIN face
    PROVE  At(i) \in Peers \cup {AddRow, NoRow}
<1>1. i \in Nat /\ i >= 1
  BY DEF TypeOK
<1>2. /\ i <= Len(listContact) => listContact[i] \in Peers
      /\ i <= Len(listaConversas) => listaConversas[i] \in Peers
  BY <1>1 DEF TypeOK
<1> QED
  BY <1>2 DEF At

-----------------------------------------------------------------------------
(* Every action keeps the types.                                           *)

(* The arrays, the view and the queries.                                    *)
LEMMA ListTypes ==
    ASSUME TypeOK, [Next]_vars
    PROVE  /\ screenContact' \in BOOLEAN
           /\ listaConversas' \in Seq(Peers) /\ listContact' \in Seq(Peers)
           /\ face' \in Seq(Peers \cup {AddRow})
           /\ loads' \in Seq(SUBSET Peers) /\ Len(loads') <= MaxLoads
<1>1. /\ screenContact \in BOOLEAN
      /\ listaConversas \in Seq(Peers) /\ listContact \in Seq(Peers)
      /\ face \in Seq(Peers \cup {AddRow})
      /\ loads \in Seq(SUBSET Peers) /\ Len(loads) \in Nat /\ Len(loads) <= MaxLoads
      /\ known \in SUBSET Peers /\ conversas \in SUBSET Peers /\ contatos \in SUBSET Peers
  <2>1. /\ screenContact \in BOOLEAN
        /\ listaConversas \in Seq(Peers) /\ listContact \in Seq(Peers)
        /\ face \in Seq(Peers \cup {AddRow})
        /\ loads \in Seq(SUBSET Peers) /\ Len(loads) <= MaxLoads
        /\ known \subseteq contatos /\ contatos \subseteq Peers /\ conversas \subseteq Peers
    BY DEF TypeOK
  <2>2. Len(loads) \in Nat /\ known \in SUBSET Peers
    BY <2>1
  <2> QED
    BY <2>1, <2>2
<1>2. CASE UNCHANGED <<screenContact, lists, loads, failed, overlap>>
  BY <1>1, <1>2 DEF lists
<1>3. ASSUME GetContatos
      PROVE  /\ listContact' \in Seq(Peers)
             /\ loads' \in Seq(SUBSET Peers) /\ Len(loads') <= MaxLoads
  <2>1. loads' = Append(loads, known) /\ listContact' = << >> /\ Len(loads) < MaxLoads
    BY <1>3 DEF GetContatos
  <2> QED
    BY <1>1, <2>1
<1>4. CASE TappedContactButton
  BY <1>1, <1>3, <1>4 DEF TappedContactButton
<1>5. CASE TappedConversationRegister
  <2>1. face' = Rows(FALSE, listaConversas, listContact)
    BY <1>5 DEF TappedConversationRegister, Reload
  <2>2. face' \in Seq(Peers \cup {AddRow})
    BY <1>1, <2>1, RowsType
  <2> QED
    BY <1>1, <1>5, <2>2 DEF TappedConversationRegister
<1>6. ASSUME NEW i \in 1 .. MaxLoads, ContatosLoaded(i) \/ ContatosFailed(i)
      PROVE  loads' \in Seq(SUBSET Peers) /\ Len(loads') <= MaxLoads
  <2>1. i \in DOMAIN loads /\ loads' = Without(loads, i)
    BY <1>6 DEF ContatosLoaded, ContatosFailed
  <2>2. loads' \in Seq(SUBSET Peers) /\ Len(loads') = Len(loads) - 1
    BY <1>1, <2>1, WithoutParts
  <2> QED
    BY <1>1, <2>2
<1>7. ASSUME NEW i \in 1 .. MaxLoads, ContatosLoaded(i)
      PROVE  /\ listContact' \in Seq(Peers) /\ face' \in Seq(Peers \cup {AddRow})
             /\ UNCHANGED <<screenContact, listaConversas>>
  <2>1. PICK S \in SUBSET contatos : listContact' = listContact \o Documents(S \cup Saving)
    BY <1>7 DEF ContatosLoaded
  <2>2. Documents(S \cup Saving) \in Seq(Peers)
    <3>1. S \cup Saving \in SUBSET Peers
      BY <1>1, SavingPeers
    <3> QED
      BY <3>1, DocumentsOf
  <2>3. listContact' \in Seq(Peers)
    <3> DEFINE d == Documents(S \cup Saving)
    <3>1. d \in Seq(Peers) /\ listContact' = listContact \o d
      BY <2>1, <2>2
    <3> HIDE DEF d
    <3> QED
      BY <1>1, <3>1
  <2>4. face' = Rows(screenContact, listaConversas, listContact')
    BY <1>7 DEF ContatosLoaded, Reload
  <2> QED
    BY <1>1, <1>7, <2>3, <2>4, RowsType DEF ContatosLoaded
<1>8. ASSUME NEW i \in 1 .. MaxLoads, ContatosFailed(i)
      PROVE  UNCHANGED <<screenContact, lists>>
  BY <1>8 DEF ContatosFailed
<1>9. ASSUME NEW S \in SUBSET Peers, Recuperar(S)
      PROVE  /\ listaConversas' \in Seq(Peers) /\ face' \in Seq(Peers \cup {AddRow})
             /\ UNCHANGED <<screenContact, listContact, loads>>
  <2>1. /\ listaConversas' = Documents(S)
        /\ face' = Rows(screenContact, listaConversas', listContact)
    BY <1>9 DEF Recuperar, Reload
  <2>2. listaConversas' \in Seq(Peers)
    BY <2>1, DocumentsOf
  <2> QED
    BY <1>1, <1>9, <2>1, <2>2, RowsType DEF Recuperar
<1>10. CASE \E l \in 1 .. MaxListeners : ConversasSnapshot(l) \/ ConversasCached(l)
  <2>1. PICK S \in SUBSET Peers : Recuperar(S)
    BY <1>1, <1>10 DEF ConversasSnapshot, ConversasCached
  <2> QED
    BY <1>1, <1>9, <2>1
<1>11. CASE DismissSuccess
  BY <1>1, <1>3, <1>11 DEF DismissSuccess
<1>12. CASE \E i \in 1 .. MaxLoads : ContatosLoaded(i)
  BY <1>1, <1>6, <1>7, <1>12
<1>13. CASE \E i \in 1 .. MaxLoads : ContatosFailed(i)
  BY <1>1, <1>6, <1>8, <1>13 DEF lists
<1> QED
  BY <1>2, <1>4, <1>5, <1>10, <1>11, <1>12, <1>13, ListWriters

(* The collections of the server and the contacts in the cache.             *)
LEMMA ServerTypes ==
    ASSUME TypeOK, [Next]_vars
    PROVE  conversas' \subseteq Peers /\ contatos' \subseteq Peers /\ known' \subseteq contatos'
<1>1. CASE \/ UNCHANGED vars \/ TappedContactButton \/ TappedConversationRegister
           \/ ActionConfigUser \/ Back \/ Dismiss \/ Adicionar
           \/ LookupFailed \/ LookupEmpty \/ SaveRefused \/ DismissSuccess
  BY <1>1 DEF TypeOK, vars, server, TappedContactButton, TappedConversationRegister,
     ActionConfigUser, Back, Dismiss, Adicionar, LookupFailed, LookupEmpty, SaveRefused,
     DismissSuccess
<1>2. CASE \E l \in 1 .. MaxListeners :
             ConversasSnapshot(l) \/ ConversasCached(l) \/ ListenerFailed(l)
  BY <1>2 DEF TypeOK, server, ConversasSnapshot, ConversasCached, ListenerFailed, Recuperar
<1>3. CASE \E i \in DOMAIN face : ShowRow(i) \/ DidSelectItem(i)
  BY <1>3 DEF TypeOK, server, ShowRow, DidSelectItem
<1>4. CASE \E p \in Peers : NewMessage(p) \/ LookupFound(p)
  BY <1>4 DEF TypeOK, server, NewMessage, LookupFound
<1>5. CASE \E i \in 1 .. MaxLoads : ContatosLoaded(i) \/ ContatosFailed(i)
  BY <1>5 DEF TypeOK, server, ContatosLoaded, ContatosFailed
<1>6. CASE SaveAcknowledged
  <2>1. saves \in Seq(Peers) /\ saves # << >>
    BY <1>6 DEF SaveAcknowledged, TypeOK
  <2>2. Head(saves) \in Peers
    BY <2>1
  <2> QED
    BY <1>6, <2>2 DEF SaveAcknowledged, TypeOK
<1> QED
  BY <1>1, <1>2, <1>3, <1>4, <1>5, <1>6 DEF Next

(* The listeners.                                                          *)
LEMMA ListenerTypes ==
    ASSUME TypeOK, [Next]_vars
    PROVE  /\ added' \in 1 .. MaxListeners /\ handle' \in 1 .. added'
           /\ active' \subseteq 1 .. added' /\ due' \subseteq active' /\ fresh' \subseteq active'
<1>1. CASE UNCHANGED listeners
  BY <1>1 DEF TypeOK, listeners
<1>2. ASSUME NEW l, Remove(l), UNCHANGED <<handle, added>>
      PROVE  /\ added' \in 1 .. MaxListeners /\ handle' \in 1 .. added'
             /\ active' \subseteq 1 .. added' /\ due' \subseteq active'
             /\ fresh' \subseteq active'
  BY <1>2 DEF TypeOK, Remove
<1>3. CASE TappedContactButton
  BY <1>2, <1>3 DEF TappedContactButton
<1>4. CASE TappedConversationRegister
  <2>1. AddListenerRecuperarConversa
    BY <1>4 DEF TappedConversationRegister
  <2>2. added \in Nat /\ added + 1 \in 1 .. MaxListeners /\ 1 .. added \subseteq 1 .. added + 1
    BY <2>1 DEF AddListenerRecuperarConversa, TypeOK
  <2> QED
    BY <2>1, <2>2 DEF AddListenerRecuperarConversa, TypeOK
<1>5. CASE \E l \in 1 .. MaxListeners : ConversasSnapshot(l) \/ ConversasCached(l)
  BY <1>5 DEF TypeOK, ConversasSnapshot, ConversasCached, Recuperar
<1>6. CASE \E l \in 1 .. MaxListeners : ListenerFailed(l)
  BY <1>2, <1>6 DEF ListenerFailed
<1>7. CASE \E p \in Peers : NewMessage(p)
  BY <1>7 DEF TypeOK, NewMessage
<1> QED
  BY <1>1, <1>3, <1>4, <1>5, <1>6, <1>7, ListenerWriters

(* The screens, the dialogue and the history.                               *)
LEMMA DialogueTypes ==
    ASSUME TypeOK, [Next]_vars
    PROVE  /\ top' \in {"home", "chat", "detail"}
           /\ alert' \in {"none", "addContact", "message", "success"}
           /\ lookups' \in Nat /\ saves' \in Seq(Peers) /\ adds' \in 0 .. MaxAdds
           /\ opened' \in (Peers \cup {AddRow, NoRow}) \X (Peers \cup {AddRow, NoRow})
           /\ failed' \in BOOLEAN /\ overlap' \in BOOLEAN /\ lost' \in BOOLEAN
           /\ trap' \in BOOLEAN /\ repeats' \in Nat
<1> USE DEF TypeOK
<1>0. failed \in BOOLEAN /\ overlap \in BOOLEAN /\ lost \in BOOLEAN /\ trap \in BOOLEAN
  OBVIOUS
<1>1. CASE UNCHANGED vars
  BY <1>1 DEF vars, dialogue, history
<1>2. CASE TappedContactButton \/ TappedConversationRegister \/ DismissSuccess
  <2>1. CASE TappedContactButton
    BY <1>0, <2>1 DEF TappedContactButton, GetContatos, dialogue
  <2>2. CASE TappedConversationRegister
    <3>1. repeats' \in Nat
      <4>1. repeats \in Nat /\ repeats' \in {repeats, repeats + 1}
        BY <2>2 DEF TappedConversationRegister
      <4> QED
        BY <4>1
    <3> QED
      BY <1>0, <2>2, <3>1 DEF TappedConversationRegister, Reload, dialogue
  <2>3. CASE DismissSuccess
    BY <1>0, <2>3 DEF DismissSuccess, GetContatos
  <2> QED
    BY <1>2, <2>1, <2>2, <2>3
<1>3. CASE ActionConfigUser \/ Back \/ Dismiss
  BY <1>3 DEF ActionConfigUser, Back, Dismiss, dialogue, history
<1>4. CASE Adicionar \/ LookupFailed \/ LookupEmpty
  <2>1. UNCHANGED <<top, saves, opened, failed, overlap, repeats, lost, trap>>
    BY <1>4 DEF Adicionar, LookupFailed, LookupEmpty, history
  <2>2. lookups' \in Nat /\ adds' \in 0 .. MaxAdds
    BY <1>4 DEF Adicionar, LookupFailed, LookupEmpty
  <2>3. alert' \in {"none", "addContact", "message", "success"}
    BY <1>4 DEF Adicionar, LookupFailed, LookupEmpty, Present
  <2> QED
    BY <1>0, <2>1, <2>2, <2>3
<1>5. CASE SaveAcknowledged \/ SaveRefused
  <2>1. saves' \in Seq(Peers)
    <3>1. saves \in Seq(Peers) /\ saves # << >> /\ saves' = Tail(saves)
      BY <1>5 DEF SaveAcknowledged, SaveRefused
    <3> QED
      BY <3>1
  <2>2. CASE SaveAcknowledged
    BY <1>0, <2>1, <2>2 DEF SaveAcknowledged, Present
  <2>3. CASE SaveRefused
    BY <1>0, <2>1, <2>3 DEF SaveRefused, history
  <2> QED
    BY <1>5, <2>2, <2>3
<1>6. CASE \E i \in 1 .. MaxLoads : ContatosLoaded(i) \/ ContatosFailed(i)
  <2>1. /\ UNCHANGED <<top, alert, lookups, saves, adds, opened, overlap, repeats, trap>>
        /\ failed' \in BOOLEAN /\ lost' \in BOOLEAN
    BY <1>0, <1>6 DEF ContatosLoaded, ContatosFailed, Reload, dialogue
  <2> QED
    BY <1>0, <2>1
<1>7. CASE \E l \in 1 .. MaxListeners :
             ConversasSnapshot(l) \/ ConversasCached(l) \/ ListenerFailed(l)
  <2>1. /\ UNCHANGED <<top, alert, lookups, saves, adds, opened, overlap, repeats, lost, trap>>
        /\ failed' = failed \/ failed' = FALSE
    BY <1>7 DEF ConversasSnapshot, ConversasCached, ListenerFailed, Recuperar, Reload,
       dialogue, history
  <2> QED
    BY <1>0, <2>1
<1>8. CASE \E p \in Peers : NewMessage(p) \/ LookupFound(p)
  <2>1. /\ UNCHANGED <<top, alert, adds, opened, failed, overlap, repeats, lost, trap>>
        /\ lookups' \in Nat
    BY <1>8 DEF NewMessage, LookupFound, dialogue, history
  <2>2. saves \in Seq(Peers)
    OBVIOUS
  <2>3. saves' \in Seq(Peers)
    <3>1. PICK p \in Peers : NewMessage(p) \/ LookupFound(p)
      BY <1>8
    <3>2. CASE NewMessage(p)
      BY <3>2 DEF NewMessage, dialogue
    <3>3. CASE LookupFound(p)
      BY <2>2, <3>3 DEF LookupFound
    <3> QED
      BY <3>1, <3>2, <3>3
  <2> QED
    BY <1>0, <2>1, <2>3
<1>9. ASSUME NEW i \in DOMAIN face, ShowRow(i) \/ DidSelectItem(i)
      PROVE  /\ top' \in {"home", "chat", "detail"}
             /\ alert' \in {"none", "addContact", "message", "success"}
             /\ opened' \in (Peers \cup {AddRow, NoRow}) \X (Peers \cup {AddRow, NoRow})
             /\ trap' \in BOOLEAN
             /\ UNCHANGED <<lookups, saves, adds, failed, overlap, repeats, lost>>
  <2>1. face[i] \in Peers \cup {AddRow, NoRow} /\ At(i) \in Peers \cup {AddRow, NoRow}
    BY AtType
  <2>2. CASE ShowRow(i)
    BY <2>2 DEF ShowRow, dialogue, history
  <2>3. CASE DidSelectItem(i)
    <3>1. \/ trap' = TRUE /\ UNCHANGED <<top, alert, opened>>
          \/ alert' = "addContact" /\ UNCHANGED <<top, opened, trap>>
          \/ top' = "chat" /\ opened' = <<face[i], At(i)>> /\ UNCHANGED <<alert, trap>>
      BY <2>3, Zenon DEF DidSelectItem
    <3>2. UNCHANGED <<lookups, saves, adds, failed, overlap, repeats, lost>>
      BY <2>3 DEF DidSelectItem
    <3> DEFINE a == At(i)
    <3>3. <<face[i], a>> \in (Peers \cup {AddRow, NoRow}) \X (Peers \cup {AddRow, NoRow})
      BY <2>1
    <3>4. opened' \in (Peers \cup {AddRow, NoRow}) \X (Peers \cup {AddRow, NoRow})
      BY <3>1, <3>3, Zenon DEF TypeOK
    <3> QED
      BY <1>0, <3>1, <3>2, <3>4
  <2> QED
    BY <1>9, <2>2, <2>3
<1>10. CASE \E i \in DOMAIN face : ShowRow(i) \/ DidSelectItem(i)
  BY <1>9, <1>10
<1> QED
  BY <1>1, <1>2, <1>3, <1>4, <1>5, <1>6, <1>7, <1>8, <1>10 DEF Next

(* All of them together.                                                   *)
LEMMA TypeStep == TypeOK /\ [Next]_vars => TypeOK'
<1> SUFFICES ASSUME TypeOK, [Next]_vars PROVE TypeOK'
  OBVIOUS
<1>1. \A flag \in {failed', overlap', lost', trap'} : flag \in BOOLEAN
  BY DialogueTypes
<1> QED
  BY <1>1, ListTypes, ServerTypes, ListenerTypes, DialogueTypes DEF TypeOK

-----------------------------------------------------------------------------
(* Every action keeps the rest of the invariant.                           *)

(* The view and its arrays: each reload brings the rows up to date, each    *)
(* getContatos empties the array with a query on its way.                  *)
LEMMA SyncStep == TypeOK /\ RowsInSync /\ [Next]_vars => RowsInSync'
<1> SUFFICES ASSUME TypeOK, RowsInSync, [Next]_vars PROVE RowsInSync'
  OBVIOUS
<1> DEFINE Behind == screenContact /\ listContact = << >> /\ (loads # << >> \/ failed)
<1>0. /\ loads \in Seq(SUBSET Peers) /\ known \in SUBSET Peers
      /\ listContact \in Seq(Peers) /\ listaConversas \in Seq(Peers)
  BY DEF TypeOK
<1>1. face' # CurrentRows' => Behind'
  <2>1. CASE UNCHANGED <<screenContact, lists, loads, failed, overlap>>
    BY <2>1 DEF lists, RowsInSync, CurrentRows
  <2>2. ASSUME GetContatos PROVE listContact' = << >> /\ loads' # << >>
    BY <1>0, <2>2 DEF GetContatos
  <2>3. CASE TappedContactButton
    BY <2>2, <2>3 DEF TappedContactButton
  <2>4. CASE TappedConversationRegister
    BY <2>4 DEF TappedConversationRegister, Reload, CurrentRows, Rows
  <2>5. CASE \E i \in 1 .. MaxLoads : ContatosLoaded(i)
    BY <2>5 DEF ContatosLoaded, Reload, CurrentRows
  <2>6. CASE \E i \in 1 .. MaxLoads : ContatosFailed(i)
    BY <2>6 DEF ContatosFailed, lists, RowsInSync, CurrentRows
  <2>7. CASE \E l \in 1 .. MaxListeners : ConversasSnapshot(l) \/ ConversasCached(l)
    <3>1. PICK S : Recuperar(S)
      BY <2>7 DEF ConversasSnapshot, ConversasCached
    <3> QED
      BY <3>1 DEF Recuperar, Reload, CurrentRows
  <2>8. CASE DismissSuccess
    <3>1. UNCHANGED <<screenContact, face, listaConversas>> /\ listContact' = << >> /\ loads' # << >>
      BY <2>2, <2>8 DEF DismissSuccess
    <3>2. CASE screenContact
      BY <3>1, <3>2
    <3>3. CASE ~screenContact
      BY <3>1, <3>3 DEF RowsInSync, CurrentRows, Rows
    <3> QED
      BY <3>2, <3>3
  <2> QED
    BY <2>1, <2>3, <2>4, <2>5, <2>6, <2>7, <2>8, ListWriters
<1>2. opened'[2] \in Peers => opened'[1] = opened'[2]
  <2>1. CASE opened' = opened
    BY <2>1 DEF RowsInSync
  <2>2. ASSUME NEW i \in DOMAIN face, DidSelectItem(i), At(i) \in Peers PROVE At(i) = face[i]
    <3>1. i \in Nat /\ i >= 1 /\ i <= Len(face)
      BY DEF TypeOK
    <3>2. CASE face = CurrentRows
      <4>1. CASE screenContact
        <5>1. face = Append(listContact, AddRow)
          BY <3>2, <4>1 DEF CurrentRows, Rows
        <5>2. At(i) = IF i = Len(listContact) + 1 THEN AddRow
                      ELSE IF i <= Len(listContact) THEN listContact[i] ELSE NoRow
          BY <4>1 DEF At
        <5> QED
          BY <1>0, <2>2, <3>1, <5>1, <5>2
      <4>2. CASE ~screenContact
        BY <3>1, <3>2, <4>2 DEF CurrentRows, Rows, At
      <4> QED
        BY <4>1, <4>2
    <3>3. CASE face # CurrentRows
      <4>1. screenContact /\ Len(listContact) = 0
        BY <3>3 DEF RowsInSync
      <4>2. At(i) \in {AddRow, NoRow}
        BY <3>1, <4>1 DEF At
      <4> QED
        BY <2>2, <4>2
    <3> QED
      BY <3>2, <3>3
  <2>3. ASSUME NEW i \in DOMAIN face, DidSelectItem(i)
        PROVE  opened'[2] \in Peers => opened'[1] = opened'[2]
    <3>1. CASE At(i) \in {NoRow, AddRow}
      BY <2>1, <2>3, <3>1 DEF DidSelectItem
    <3>2. CASE At(i) \notin {NoRow, AddRow}
      <4>1. At(i) \in Peers
        BY <3>2, AtType
      <4>2. opened' = <<face[i], At(i)>>
        BY <2>3, <3>2 DEF DidSelectItem
      <4> QED
        BY <2>2, <2>3, <4>1, <4>2
    <3> QED
      BY <3>1, <3>2
  <2>4. (\E i \in DOMAIN face : DidSelectItem(i)) \/ Back \/ opened' = opened
    <3>1. CASE \/ UNCHANGED vars \/ TappedContactButton \/ TappedConversationRegister
               \/ ActionConfigUser \/ Dismiss \/ Adicionar \/ LookupFailed \/ LookupEmpty
               \/ SaveAcknowledged \/ SaveRefused \/ DismissSuccess
      BY <3>1 DEF vars, history, TappedContactButton, TappedConversationRegister,
         ActionConfigUser, Dismiss, Adicionar, LookupFailed, LookupEmpty, SaveAcknowledged,
         SaveRefused, DismissSuccess
    <3>2. CASE \E l \in 1 .. MaxListeners :
                 ConversasSnapshot(l) \/ ConversasCached(l) \/ ListenerFailed(l)
      BY <3>2 DEF history, ConversasSnapshot, ConversasCached, ListenerFailed, Recuperar
    <3>3. CASE \E p \in Peers : NewMessage(p) \/ LookupFound(p)
      BY <3>3 DEF history, NewMessage, LookupFound
    <3>4. CASE \E i \in 1 .. MaxLoads : ContatosLoaded(i) \/ ContatosFailed(i)
      BY <3>4 DEF ContatosLoaded, ContatosFailed
    <3>5. CASE \E i \in DOMAIN face : ShowRow(i)
      BY <3>5 DEF ShowRow, history
    <3> QED
      BY <3>1, <3>2, <3>3, <3>4, <3>5 DEF Next
  <2>5. CASE Back
    BY <2>5 DEF Back
  <2> QED
    BY <2>1, <2>3, <2>4, <2>5
<1> QED
  BY <1>1, <1>2 DEF RowsInSync

(* The listeners: remove() stops the one the handle refers to, a tap on the *)
(* selected tab leaves it without a handle.                                *)
LEMMA HandledStep == TypeOK /\ Handled /\ [Next]_vars => Handled'
<1> SUFFICES ASSUME TypeOK, Handled, [Next]_vars PROVE Handled'
  OBVIOUS
<1>0. /\ added \in Nat /\ handle \in 1 .. added /\ active \subseteq 1 .. added
      /\ IsFiniteSet(active) /\ repeats \in Nat /\ screenContact \in BOOLEAN
  <2>1. added \in Nat /\ handle \in 1 .. added /\ active \in SUBSET (1 .. added)
    BY DEF TypeOK
  <2>2. IsFiniteSet(1 .. added)
    BY <2>1, FS_Interval
  <2>3. IsFiniteSet(active)
    BY <2>1, <2>2, FS_Subset
  <2> QED
    BY <2>1, <2>3 DEF TypeOK
<1>1. ASSUME NEW l, active' = active \ {l}, UNCHANGED <<handle, repeats>>,
             screenContact' => handle \notin active'
      PROVE  Handled'
  <2> DEFINE A == active \ {handle}
             B == active' \ {handle}
  <2>1. IsFiniteSet(A)
    BY <1>0, FS_RemoveElement
  <2>2. B \in SUBSET A
    BY <1>1
  <2> HIDE DEF A, B
  <2>3. IsFiniteSet(B) /\ Cardinality(B) <= Cardinality(A) /\ Cardinality(B) \in Nat
        /\ Cardinality(A) \in Nat
    BY <2>1, <2>2, FS_Subset, FS_CardinalityType
  <2>4. Cardinality(A) <= repeats
    BY DEF Handled, A
  <2>5. Cardinality(B) <= repeats
    BY <1>0, <2>3, <2>4
  <2> QED
    BY <1>1, <2>5 DEF Handled, B
<1>2. CASE UNCHANGED <<active, handle, screenContact, repeats>>
  BY <1>2 DEF Handled
<1>3. CASE TappedContactButton
  BY <1>1, <1>3 DEF TappedContactButton, Remove
<1>4. CASE \E l \in 1 .. MaxListeners : ListenerFailed(l)
  BY <1>1, <1>4 DEF ListenerFailed, Remove, history, Handled
<1>5. CASE TappedConversationRegister
  <2>1. /\ handle' = added + 1 /\ active' = active \cup {added + 1} /\ screenContact' = FALSE
        /\ repeats' = IF screenContact THEN repeats ELSE repeats + 1
    BY <1>5 DEF TappedConversationRegister, AddListenerRecuperarConversa
  <2>2. active' \ {handle'} = active
    <3>1. added + 1 \notin active
      BY <1>0
    <3> QED
      BY <2>1, <3>1
  <2>3. Cardinality(active) <= repeats'
    <3> DEFINE A == active \ {handle}
    <3>1. /\ Cardinality(active) \in Nat
          /\ Cardinality(A) = IF handle \in active THEN Cardinality(active) - 1
                              ELSE Cardinality(active)
      BY <1>0, FS_RemoveElement, FS_CardinalityType
    <3>2. Cardinality(A) <= repeats /\ (screenContact => handle \notin active)
      BY DEF Handled
    <3> HIDE DEF A
    <3> QED
      BY <1>0, <2>1, <3>1, <3>2
  <2> QED
    BY <2>1, <2>2, <2>3 DEF Handled
<1> QED
  BY <1>2, <1>3, <1>4, <1>5, ListenerWriters

(* The contacts: a query answered alone finds an empty array.               *)
LEMMA SingleStep == TypeOK /\ Single /\ [Next]_vars => Single'
<1> SUFFICES ASSUME TypeOK, Single, [Next]_vars PROVE Single'
  OBVIOUS
<1>0. /\ loads \in Seq(SUBSET Peers) /\ known \in SUBSET Peers /\ contatos \in SUBSET Peers
      /\ listContact \in Seq(Peers)
  BY DEF TypeOK
<1>1. CASE UNCHANGED <<listContact, loads, overlap>>
  BY <1>1 DEF Single
<1>2. ASSUME GetContatos PROVE Single'
  <2>1. /\ loads' = Append(loads, known) /\ listContact' = << >>
        /\ overlap' = (loads # << >>)
    BY <1>2 DEF GetContatos
  <2>2. ~overlap' => Len(loads') = 1
    <3>1. ~overlap' => loads = << >>
      BY <2>1, Zenon
    <3>2. Len(loads') = Len(loads) + 1 /\ (loads = << >> => Len(loads) = 0)
      BY <1>0, <2>1
    <3> QED
      BY <3>1, <3>2
  <2>3. DOMAIN listContact' = {}
    BY <2>1
  <2> QED
    BY <2>1, <2>2, <2>3 DEF Single
<1>3. ASSUME NEW i \in 1 .. MaxLoads, ContatosLoaded(i) \/ ContatosFailed(i), ~overlap
      PROVE  /\ listContact = << >> /\ loads' = << >> /\ overlap' = overlap
             /\ Len(loads') <= 1
  <2>1. /\ i \in DOMAIN loads /\ loads' = Without(loads, i) /\ overlap' = overlap
    BY <1>3 DEF ContatosLoaded, ContatosFailed
  <2>2. Len(loads) <= 1 /\ Len(loads) \in Nat /\ loads # << >>
    <3>1. Len(loads) <= 1
      BY <1>3 DEF Single
    <3>2. Len(loads) \in Nat /\ loads # << >>
      BY <1>0, <2>1
    <3> QED
      BY <3>1, <3>2
  <2>3. loads' \in Seq(SUBSET Peers) /\ Len(loads') = Len(loads) - 1
    BY <1>0, <2>1, WithoutParts
  <2>4. Len(loads) = 1
    <3> DEFINE L == Len(loads)
    <3>1. L # 0 /\ L \in Nat /\ L <= 1
      BY <1>0, <2>2
    <3> HIDE DEF L
    <3>2. L = 1
      BY <3>1
    <3> QED
      BY <3>2 DEF L
  <2>5. Len(loads') = 0
    BY <2>3, <2>4
  <2>6. loads' = << >>
    BY <2>3, <2>5
  <2> QED
    BY <1>3, <2>1, <2>2, <2>5, <2>6 DEF Single
<1>4. CASE \E i \in 1 .. MaxLoads : ContatosLoaded(i)
  <2>1. PICK i \in 1 .. MaxLoads : ContatosLoaded(i)
    BY <1>4
  <2>2. overlap' = overlap
    BY <2>1 DEF ContatosLoaded
  <2>3. CASE ~overlap
    <3>1. listContact = << >> /\ loads' = << >> /\ Len(loads') <= 1
      BY <1>3, <2>1, <2>3
    <3>2. PICK S \in SUBSET contatos : listContact' = listContact \o Documents(S \cup Saving)
      BY <2>1 DEF ContatosLoaded
    <3>3. S \cup Saving \in SUBSET Peers
      BY <1>0, SavingPeers
    <3> DEFINE d == Documents(S \cup Saving)
    <3>4. d \in Seq(Peers) /\ \A x, y \in DOMAIN d : d[x] = d[y] => x = y
      BY <3>3, DocumentsOf
    <3> HIDE DEF d
    <3>5. << >> \o d = d
      BY <3>4
    <3>6. listContact' = d
      BY <3>1, <3>2, <3>5 DEF d
    <3> QED
      BY <3>1, <3>4, <3>6 DEF Single
  <2> QED
    BY <2>2, <2>3 DEF Single
<1>5. CASE \E i \in 1 .. MaxLoads : ContatosFailed(i)
  <2>1. PICK i \in 1 .. MaxLoads : ContatosFailed(i)
    BY <1>5
  <2>2. overlap' = overlap /\ listContact' = listContact
    BY <2>1 DEF ContatosFailed, lists
  <2>3. CASE ~overlap
    BY <1>3, <2>1, <2>2, <2>3 DEF Single
  <2> QED
    BY <2>2, <2>3 DEF Single
<1>6. CASE TappedContactButton \/ DismissSuccess
  BY <1>2, <1>6 DEF TappedContactButton, DismissSuccess
<1>7. CASE TappedConversationRegister
  BY <1>1, <1>7 DEF TappedConversationRegister
<1>8. CASE \E l \in 1 .. MaxListeners : ConversasSnapshot(l) \/ ConversasCached(l)
  BY <1>1, <1>8 DEF ConversasSnapshot, ConversasCached, Recuperar
<1>9. CASE UNCHANGED <<screenContact, lists, loads, failed, overlap>>
  BY <1>1, <1>9 DEF lists
<1> QED
  BY <1>4, <1>5, <1>6, <1>7, <1>8, <1>9, ListWriters

(* The contacts known: an answer lists all its query was asked with and all *)
(* that the cache learns from it.                                          *)
LEMMA PendingStep == TypeOK /\ Pending /\ [Next]_vars => Pending'
<1> SUFFICES ASSUME TypeOK, Pending, [Next]_vars PROVE Pending'
  OBVIOUS
<1>0. /\ loads \in Seq(SUBSET Peers) /\ known \in SUBSET Peers /\ contatos \in SUBSET Peers
      /\ listContact \in Seq(Peers) /\ saves \in Seq(Peers) /\ lost \in BOOLEAN
  BY DEF TypeOK
<1>1. ASSUME UNCHANGED <<screenContact, listContact, loads, known>>,
             alert = "success" => alert' = "success", lost => lost'
      PROVE  Pending'
  <2>1. \A p : (Listed(p) <=> Listed(p)') /\ (Loading(p) <=> Loading(p)')
    BY <1>1 DEF Listed, Loading
  <2> QED
    BY <1>1, <2>1 DEF Pending
<1>2. ASSUME GetContatos, known' = known PROVE Pending'
  <2>1. loads' = Append(loads, known)
    BY <1>2 DEF GetContatos
  <2>2. Len(loads) + 1 \in DOMAIN loads' /\ loads'[Len(loads) + 1] = known
    BY <1>0, <2>1
  <2>3. \A p \in known' : Loading(p)'
    BY <1>2, <2>2 DEF Loading
  <2> QED
    BY <2>3 DEF Pending
<1>3. CASE TappedContactButton \/ DismissSuccess
  BY <1>2, <1>3 DEF TappedContactButton, DismissSuccess, server
<1>4. CASE TappedConversationRegister
  BY <1>4 DEF TappedConversationRegister, Pending
<1>5. CASE \E i \in 1 .. MaxLoads : ContatosLoaded(i)
  <2>1. PICK i \in 1 .. MaxLoads : ContatosLoaded(i)
    BY <1>5
  <2>2. PICK S \in SUBSET contatos : /\ loads[i] \subseteq S /\ known' = known \cup S
                                     /\ listContact' = listContact \o Documents(S \cup Saving)
    BY <2>1 DEF ContatosLoaded
  <2> DEFINE d == Documents(S \cup Saving)
  <2>3. /\ i \in DOMAIN loads /\ loads' = Without(loads, i)
        /\ UNCHANGED <<screenContact, alert, lost>>
    BY <2>1 DEF ContatosLoaded, dialogue
  <2>4. d \in Seq(Peers) /\ \A p \in S : \E j \in DOMAIN d : d[j] = p
    <3>1. S \cup Saving \in SUBSET Peers
      BY <1>0, SavingPeers
    <3> QED
      BY <3>1, DocumentsOf
  <2> HIDE DEF d
  <2>5. listContact' = listContact \o d
    BY <2>2 DEF d
  <2>6. /\ \A j \in DOMAIN listContact : j \in DOMAIN listContact' /\ listContact'[j] = listContact[j]
        /\ \A j \in DOMAIN d : /\ Len(listContact) + j \in DOMAIN listContact'
                               /\ listContact'[Len(listContact) + j] = d[j]
    BY <1>0, <2>4, <2>5
  <2>7. \A p : Listed(p) \/ p \in S => Listed(p)'
    BY <2>4, <2>6 DEF Listed
  <2>8. \A p : Loading(p) => p \in S \/ Loading(p)'
    <3> SUFFICES ASSUME NEW p, NEW j \in DOMAIN loads, p \in loads[j], p \notin S
                 PROVE  Loading(p)'
      BY DEF Loading
    <3>1. j # i
      BY <2>2
    <3>2. PICK k \in DOMAIN loads' : loads'[k] = loads[j]
      BY <1>0, <2>3, <3>1, WithoutParts
    <3> QED
      BY <3>2 DEF Loading
  <2> QED
    BY <2>2, <2>3, <2>7, <2>8 DEF Pending
<1>6. CASE \E i \in 1 .. MaxLoads : ContatosFailed(i)
  BY <1>6 DEF ContatosFailed, Pending
<1>7. CASE \/ UNCHANGED vars \/ ActionConfigUser \/ Back \/ Dismiss \/ Adicionar
           \/ LookupFailed \/ LookupEmpty \/ SaveRefused
  <2>1. /\ UNCHANGED <<screenContact, listContact, loads, known, lost>>
        /\ alert = "success" => alert' = "success"
    BY <1>7 DEF vars, server, lists, dialogue, history, ActionConfigUser, Back, Dismiss,
       Adicionar, LookupFailed, LookupEmpty, SaveRefused, Present  <2> QED
    BY <1>1, <2>1
<1>8. CASE SaveAcknowledged
  <2>1. alert' = "success" \/ lost'
    BY <1>8 DEF SaveAcknowledged
  <2> QED
    BY <2>1 DEF Pending
<1>9. CASE \E l \in 1 .. MaxListeners :
             ConversasSnapshot(l) \/ ConversasCached(l) \/ ListenerFailed(l)
  <2>1. UNCHANGED <<screenContact, listContact, loads, known, lost, alert>>
    BY <1>9 DEF server, lists, dialogue, history, ConversasSnapshot, ConversasCached,
       ListenerFailed, Recuperar
  <2> QED
    BY <1>1, <2>1
<1>10. CASE \E p \in Peers : NewMessage(p)
  <2>1. UNCHANGED <<screenContact, listContact, loads, known, lost, alert>>
    BY <1>10 DEF lists, dialogue, history, NewMessage
  <2> QED
    BY <1>1, <2>1
<1>11. CASE \E p \in Peers : LookupFound(p)
  <2>1. UNCHANGED <<screenContact, listContact, loads, known, lost, alert>>
    BY <1>11 DEF server, lists, history, LookupFound
  <2> QED
    BY <1>1, <2>1
<1>12. CASE \E i \in DOMAIN face : ShowRow(i) \/ DidSelectItem(i)
  <2>1. /\ UNCHANGED <<screenContact, listContact, loads, known, lost>>
        /\ alert = "success" => alert' = "success"
    BY <1>12 DEF server, lists, dialogue, history, ShowRow, DidSelectItem, CanTouch
  <2> QED
    BY <1>1, <2>1
<1> QED
  BY <1>3, <1>4, <1>5, <1>6, <1>7, <1>8, <1>9, <1>10, <1>11, <1>12 DEF Next

-----------------------------------------------------------------------------
(* The theorems.                                                           *)

(* The home screen is as ListInv says in every state.                       *)
LEMMA Invariance == Spec => []ListInv
<1>1. Init => ListInv
  <2> SUFFICES ASSUME Init PROVE ListInv
    OBVIOUS
  <2>1. TypeOK
    <3>1. /\ listaConversas \in Seq(Peers) /\ listContact \in Seq(Peers)
          /\ face \in Seq(Peers \cup {AddRow})
          /\ loads \in Seq(SUBSET Peers) /\ Len(loads) <= MaxLoads
      BY DEF Init
    <3>2. /\ added \in 1 .. MaxListeners /\ handle \in 1 .. added
          /\ active \subseteq 1 .. added /\ due \subseteq active /\ fresh \subseteq active
      BY DEF Init
    <3>3. \A flag \in {failed, overlap, lost, trap} : flag \in BOOLEAN
      BY DEF Init
    <3>4. /\ lookups \in Nat /\ saves \in Seq(Peers) /\ adds \in 0 .. MaxAdds /\ repeats \in Nat
          /\ opened \in (Peers \cup {AddRow, NoRow}) \X (Peers \cup {AddRow, NoRow})
      BY DEF Init
    <3>5. /\ conversas \subseteq Peers /\ contatos \subseteq Peers /\ known \subseteq contatos
          /\ screenContact \in BOOLEAN
          /\ top \in {"home", "chat", "detail"}
          /\ alert \in {"none", "addContact", "message", "success"}
      BY DEF Init
    <3> QED
      BY <3>1, <3>2, <3>3, <3>4, <3>5 DEF TypeOK
  <2>2. RowsInSync
    <3>1. face = CurrentRows
      BY DEF Init, CurrentRows, Rows
    <3>2. opened = <<NoRow, NoRow>>
      BY DEF Init
    <3>3. opened[2] = NoRow
      BY <3>2
    <3> QED
      BY <3>1, <3>3 DEF RowsInSync
  <2>3. Handled
    <3>1. active \ {handle} = {} /\ repeats = 0 /\ ~screenContact
      BY DEF Init
    <3>2. Cardinality(active \ {handle}) = 0
      BY <3>1, FS_EmptySet
    <3> QED
      BY <3>1, <3>2 DEF Handled
  <2>4. Single /\ Pending
    BY DEF Init, Single, Pending
  <2> QED
    BY <2>1, <2>2, <2>3, <2>4 DEF ListInv
<1>2. ListInv /\ [Next]_vars => ListInv'
  BY TypeStep, SyncStep, HandledStep, SingleStep, PendingStep DEF ListInv
<1> QED
  BY <1>1, <1>2, PTL DEF Spec

(* Every variable of the home screen keeps its type.                        *)
THEOREM TypeCorrect == Spec => []TypeOK
<1>1. ListInv => TypeOK
  BY DEF ListInv
<1> QED
  BY <1>1, Invariance, PTL

(* The rows are those of the arrays but for the contacts tab while its      *)
(* query is on its way or after it failed; and a tap opens the chat of the  *)
(* person whose row it was.                                                *)
THEOREM RowsAreCurrent == Spec => []RowsInSync
<1>1. ListInv => RowsInSync
  BY DEF ListInv
<1> QED
  BY <1>1, Invariance, PTL

(* No contact is listed twice unless two queries overlapped.                *)
THEOREM OverlapDuplicates == Spec => []DuplicatesNeedOverlap
<1>1. ListInv => DuplicatesNeedOverlap
  BY DEF ListInv, TypeOK, Single, DuplicatesNeedOverlap
<1> QED
  BY <1>1, Invariance, PTL

(* With no query on its way, no success alert up and nothing lost, the       *)
(* contacts tab lists every contact whose document the device has: those it *)
(* was answered with and those whose save was acknowledged, not those whose *)
(* save was refused.                                                       *)
THEOREM KnownAreListed == Spec => []KnownContactsListed
<1>1. ListInv => KnownContactsListed
  <2> SUFFICES ASSUME ListInv, screenContact, loads = << >>, alert # "success", ~lost,
                      NEW p \in known
               PROVE  Listed(p)
    BY DEF KnownContactsListed, Listed
  <2>1. Listed(p) \/ Loading(p)
    BY DEF ListInv, Pending
  <2>2. ~Loading(p)
    BY DEF Loading
  <2> QED
    BY <2>1, <2>2
<1> QED
  BY <1>1, Invariance, PTL

(* No more listeners are alive than the one in use and one for each time    *)
(* the selected conversations tab was tapped again.                        *)
THEOREM LeaksCounted == Spec => []LeaksAreRepeatedTaps
<1>1. ListInv => LeaksAreRepeatedTaps
  <2> SUFFICES ASSUME ListInv PROVE LeaksAreRepeatedTaps
    OBVIOUS
  <2>1. added \in Nat /\ active \in SUBSET (1 .. added) /\ repeats \in Nat
    <3>1. added \in Nat /\ active \in SUBSET (1 .. added)
      BY DEF ListInv, TypeOK
    <3>2. repeats \in Nat
      BY DEF ListInv, TypeOK
    <3> QED
      BY <3>1, <3>2
  <2>2. IsFiniteSet(active) /\ Cardinality(active) \in Nat
    <3>1. IsFiniteSet(1 .. added)
      BY <2>1, FS_Interval
    <3>2. IsFiniteSet(active)
      BY <2>1, <3>1, FS_Subset
    <3> QED
      BY <3>2, FS_CardinalityType
  <2> DEFINE A == active \ {handle}
  <2>3. Cardinality(A) = IF handle \in active THEN Cardinality(active) - 1
                         ELSE Cardinality(active)
    BY <2>2, FS_RemoveElement
  <2>4. Cardinality(A) <= repeats /\ (screenContact => handle \notin active)
    BY DEF ListInv, Handled
  <2> HIDE DEF A
  <2> QED
    BY <2>1, <2>2, <2>3, <2>4 DEF LeaksAreRepeatedTaps
<1> QED
  BY <1>1, Invariance, PTL
-----------------------------------------------------------------------------
(* The listener of the selected tab.                                       *)

\* With its snapshot delivered, the listener in use has left nothing in the cache
\* for another to start with, and the array is that of the server.
Served ==
    handle \in active /\ handle \notin due =>
        fresh = {} /\ listaConversas = Documents(conversas)

(* The conversations tab shows every conversation of the server as soon as   *)
(* the listener of its last tap has no snapshot to deliver: the part of      *)
(* HomeScreenCatchesUp that needs no fairness.                              *)
ServedTabIsCurrent ==
    ~screenContact /\ handle \in active /\ handle \notin due => face = Documents(conversas)

(* A snapshot of any listener brings the array up to date, no older one of   *)
(* the cache comes after it, and a later change is owed to every listener.  *)
LEMMA ServedStep == TypeOK /\ Served /\ [Next]_vars => Served'
<1> SUFFICES ASSUME TypeOK, Served, [Next]_vars PROVE Served'
  OBVIOUS
<1>1. CASE UNCHANGED <<listeners, listaConversas, conversas>>
  BY <1>1 DEF Served, listeners
<1>2. CASE TappedContactButton
  BY <1>2 DEF TappedContactButton, Remove, Served, TypeOK, server
<1>3. CASE TappedConversationRegister
  BY <1>3 DEF TappedConversationRegister, AddListenerRecuperarConversa, Served, TypeOK
<1>4. ASSUME NEW l \in 1 .. MaxListeners, ConversasSnapshot(l) PROVE Served'
  BY <1>4 DEF ConversasSnapshot, Recuperar, Served, server
<1>5. ASSUME NEW l \in 1 .. MaxListeners, ConversasCached(l) PROVE Served'
  BY <1>5 DEF ConversasCached, Recuperar, Served, server
<1>6. ASSUME NEW l \in 1 .. MaxListeners, ListenerFailed(l) PROVE Served'
  BY <1>6 DEF ListenerFailed, Remove, Served, server, lists
<1>7. ASSUME NEW p \in Peers, NewMessage(p) PROVE Served'
  BY <1>7 DEF NewMessage, Served, TypeOK
<1>8. CASE \/ UNCHANGED vars \/ ActionConfigUser \/ Back \/ Dismiss \/ Adicionar
           \/ LookupFailed \/ LookupEmpty \/ SaveAcknowledged \/ SaveRefused \/ DismissSuccess
  BY <1>1, <1>8 DEF vars, lists, server, ActionConfigUser, Back, Dismiss, Adicionar,
     LookupFailed, LookupEmpty, SaveAcknowledged, SaveRefused, DismissSuccess
<1>9. CASE \E i \in 1 .. MaxLoads : ContatosLoaded(i) \/ ContatosFailed(i)
  BY <1>1, <1>9 DEF ContatosLoaded, ContatosFailed, lists, server
<1>10. CASE \/ \E p \in Peers : LookupFound(p)
            \/ \E i \in DOMAIN face : ShowRow(i) \/ DidSelectItem(i)
  BY <1>1, <1>10 DEF LookupFound, ShowRow, DidSelectItem, lists, server
<1> QED
  BY <1>2, <1>3, <1>4, <1>5, <1>6, <1>7, <1>8, <1>9, <1>10 DEF Next

(* However often the tabs were tapped and whatever listeners were leaked.    *)
THEOREM ServedTabsAreCurrent == Spec => []ServedTabIsCurrent
<1>1. Init => Served
  BY DEF Init, Served
<1>2. Spec => []Served
  BY <1>1, TypeCorrect, ServedStep, PTL DEF Spec
<1>3. RowsInSync /\ Served => ServedTabIsCurrent
  BY DEF RowsInSync, CurrentRows, Rows, Served, ServedTabIsCurrent
<1> QED
  BY <1>2, <1>3, RowsAreCurrent, PTL
=============================================================================
