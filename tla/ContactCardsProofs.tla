-------------------------- MODULE ContactCardsProofs --------------------------
(***************************************************************************)
(* That copies of copies keep their user, for any users and any number of  *)
(* photos: the type of the state, the ids and the contents of all cards,   *)
(* and where a nameless card comes from.                                   *)
(***************************************************************************)
EXTENDS ContactCards, TLAPS

-----------------------------------------------------------------------------
(* The inductive invariant.  What is in a list is right because what the    *)
(* chat screen holds is right, of the peer and of its own user: nothing in  *)
(* the four collections of cards says so.  f stands for foto, n for nome.   *)

AnyPhoto == UNION {PhotosOf(u) : u \in Users}
Counts == [Users -> 0 .. MaxPhotos]
Uploaded(u, f) == {Photo(u, i) : i \in 0 .. f[u]}

Screen == [tapped : Card, contato : Card,
           me : [nome : Users \cup {Blank}, foto : AnyPhoto], loading : BOOLEAN]

\* A card of u with a photo u has uploaded.
Shows(card, u, f) ==
    card.id = u /\ card.nome \in {u, Blank} /\ card.foto \in Uploaded(u, f)

Collection(cards, f) ==
    /\ cards \in [Pairs -> Card \cup {None}]
    /\ \A p \in Pairs : cards[p] # None => Shows(cards[p], p[2], f)

Names(n) == n \in [Users -> Users \cup {Blank, None}]
            /\ \A u \in Users : n[u] \in {u, Blank, None}

\* What a chat screen of a knows of its own user, and of the peer.
ScreenOf(s, a, f) ==
    /\ s \in Screen
    /\ \E u \in Users \ {a} : Shows(s.contato, u, f)
    /\ s.me.nome \in {a, Blank}
    /\ s.me.foto \in Uploaded(a, f)

Screens(c, f) ==
    /\ c \in [Users -> Screen \cup {None}]
    /\ \A a \in Users : c[a] # None => ScreenOf(c[a], a, f)

CardsInv ==
    /\ Names(nome) /\ foto \in Counts /\ early \subseteq Users
    /\ Collection(contatos, foto) /\ Collection(listContact, foto)
    /\ Collection(conversas, foto) /\ Collection(listaConversas, foto)
    /\ Screens(chat, foto)

-----------------------------------------------------------------------------
(* Photos.                                                                  *)

LEMMA BlankUploaded == ASSUME NEW f \in Counts, NEW u \in Users
                       PROVE  Blank \in Uploaded(u, f)
<1>1. 0 \in 0 .. f[u] /\ Photo(u, 0) = Blank
  BY CardsAssumption DEF Counts, Photo
<1> QED BY <1>1 DEF Uploaded

LEMMA UploadedTyped == ASSUME NEW f \in Counts, NEW u \in Users
                       PROVE  Uploaded(u, f) \subseteq AnyPhoto
<1> SUFFICES ASSUME NEW i \in 0 .. f[u] PROVE Photo(u, i) \in AnyPhoto
  BY DEF Uploaded
<1>1. i \in 0 .. MaxPhotos
  BY CardsAssumption DEF Counts
<1> QED BY <1>1 DEF AnyPhoto, PhotosOf

\* Photos only become more: what shows u goes on doing so.
LEMMA UploadedGrows ==
    ASSUME NEW f \in Counts, NEW g \in Counts, \A u \in Users : f[u] <= g[u],
           NEW u \in Users
    PROVE  Uploaded(u, f) \subseteq Uploaded(u, g)
<1>1. 0 .. f[u] \subseteq 0 .. g[u]
  BY CardsAssumption DEF Counts
<1> QED BY <1>1 DEF Uploaded

LEMMA CollectionKept ==
    ASSUME NEW f \in Counts, NEW g \in Counts, \A u \in Users : f[u] <= g[u],
           NEW cards, Collection(cards, f)
    PROVE  Collection(cards, g)
<1>1. ASSUME NEW p \in Pairs PROVE p[2] \in Users
  BY DEF Pairs
<1> QED BY <1>1, UploadedGrows DEF Collection, Shows

LEMMA ScreensKept ==
    ASSUME NEW f \in Counts, NEW g \in Counts, \A u \in Users : f[u] <= g[u],
           NEW c, Screens(c, f)
    PROVE  Screens(c, g)
<1> SUFFICES ASSUME NEW a \in Users, c[a] # None PROVE ScreenOf(c[a], a, g)
  BY DEF Screens
<1>1. ScreenOf(c[a], a, f)
  BY DEF Screens
<1>2. PICK u \in Users \ {a} : Shows(c[a].contato, u, f)
  BY <1>1 DEF ScreenOf
<1>3. Uploaded(a, f) \subseteq Uploaded(a, g) /\ Uploaded(u, f) \subseteq Uploaded(u, g)
  BY UploadedGrows
<1> QED BY <1>1, <1>2, <1>3 DEF ScreenOf, Shows

-----------------------------------------------------------------------------
(* Cards.                                                                   *)

\* A card made of a name and a photo of u.
LEMMA CardMade ==
    ASSUME NEW f \in Counts, NEW u \in Users, NEW n \in {u, Blank},
           NEW p \in Uploaded(u, f)
    PROVE  LET card == [id |-> u, nome |-> n, foto |-> p]
           IN  card \in Card /\ Shows(card, u, f)
<1>1. p \in AnyPhoto
  BY UploadedTyped
<1> QED BY <1>1 DEF Card, Shows, AnyPhoto

\* A collection with the card of b in the list of a replaced.
LEMMA CollectionExcept ==
    ASSUME NEW f, NEW cards, Collection(cards, f), NEW a \in Users, NEW b \in Users \ {a},
           NEW card \in Card, Shows(card, b, f)
    PROVE  Collection([cards EXCEPT ![<<a, b>>] = card], f)
<1>1. <<a, b>> \in Pairs /\ <<a, b>>[2] = b
  BY DEF Pairs
<1> QED BY <1>1 DEF Collection

\* A list that is in part as another collection has it.
LEMMA CollectionMerged ==
    ASSUME NEW f, NEW one, NEW two, Collection(one, f), Collection(two, f), NEW a
    PROVE  Collection([p \in Pairs |-> IF p[1] = a THEN one[p] ELSE two[p]], f)
BY DEF Collection

\* The contact that Contact.init(id:nome:urlImagem:) makes of a preview.
LEMMA ContactMade ==
    ASSUME NEW f \in Counts, NEW u \in Users, NEW card \in Card, Shows(card, u, f)
    PROVE  /\ ContactFromConversa(card) \in Card
           /\ Shows(ContactFromConversa(card), u, f)
<1>1. ContactFromConversa(card) = [id |-> u, nome |-> card.nome, foto |-> Blank]
  BY DEF ContactFromConversa, Shows
<1>2. card.nome \in {u, Blank} /\ Blank \in Uploaded(u, f)
  BY BlankUploaded DEF Shows
<1> QED BY <1>1, <1>2, CardMade

\* One screen opened, answered or closed.
LEMMA ScreensExcept ==
    ASSUME NEW f, NEW c, Screens(c, f), NEW a \in Users,
           NEW s, s = None \/ ScreenOf(s, a, f)
    PROVE  Screens([c EXCEPT ![a] = s], f)
<1>1. s \in Screen \cup {None}
  BY DEF ScreenOf
<1> QED BY <1>1 DEF Screens

\* viewDidLoad of a chat with u.
LEMMA ScreenOpened ==
    ASSUME NEW f \in Counts, NEW a \in Users, NEW u \in Users \ {a},
           NEW tapped \in Card, NEW contact \in Card, Shows(contact, u, f)
    PROVE  ScreenOf([tapped |-> tapped, contato |-> contact,
                     me |-> Unknown, loading |-> TRUE], a, f)
<1>1. Blank \in Uploaded(a, f) /\ Blank \in AnyPhoto
  BY BlankUploaded, UploadedTyped
<1> QED BY <1>1 DEF ScreenOf, Screen, Unknown

\* recuperarDadosUsuarioLogado is answered.
LEMMA ScreenAnswered ==
    ASSUME NEW f \in Counts, NEW a \in Users, NEW s, ScreenOf(s, a, f),
           NEW n \in {a, Blank}, NEW p \in Uploaded(a, f)
    PROVE  ScreenOf([s EXCEPT !.me = [nome |-> n, foto |-> p], !.loading = FALSE], a, f)
<1>1. p \in AnyPhoto
  BY UploadedTyped
<1> QED BY <1>1 DEF ScreenOf, Screen

-----------------------------------------------------------------------------
(* The steps.                                                               *)

LEMMA InitCards == Init => CardsInv
<1>1. \A p \in Pairs : [q \in Pairs |-> None][p] = None
  OBVIOUS
<1> SUFFICES ASSUME Init PROVE CardsInv
  OBVIOUS
<1>2. foto \in Counts
  BY CardsAssumption DEF Init, Counts
<1>3. Names(nome) /\ early \subseteq Users
  BY DEF Init, Names
<1>4. Screens(chat, foto)
  BY DEF Init, Screens
<1>5. Collection(contatos, foto)
  BY DEF Init, Collection
<1>6. Collection(conversas, foto)
  BY DEF Init, Collection
<1> QED BY <1>2, <1>3, <1>4, <1>5, <1>6 DEF Init, CardsInv

LEMMA CardsStep == CardsInv /\ [Next]_vars => CardsInv'
<1> SUFFICES ASSUME CardsInv, [Next]_vars PROVE CardsInv'
  OBVIOUS
<1> USE DEF CardsInv
<1>1. ASSUME NEW u \in Users, ActionRegisterUser(u) PROVE CardsInv'
  <2>1. Names(nome')
    BY <1>1 DEF ActionRegisterUser, Names
  <2> QED BY <1>1, <2>1 DEF ActionRegisterUser
<1>2. ASSUME NEW u \in Users, UploadPhoto(u) PROVE CardsInv'
  <2>1. foto' \in Counts /\ \A v \in Users : foto[v] <= foto'[v]
    BY <1>2, CardsAssumption DEF UploadPhoto, Counts
  <2>2. UNCHANGED <<nome, contatos, listContact, conversas, listaConversas, chat, early>>
    BY <1>2 DEF UploadPhoto
  <2>3. /\ Collection(contatos, foto') /\ Collection(listContact, foto')
        /\ Collection(conversas, foto') /\ Collection(listaConversas, foto')
    BY <2>1, CollectionKept
  <2>4. Screens(chat, foto')
    BY <2>1, ScreensKept
  <2> QED BY <2>1, <2>2, <2>3, <2>4
<1>3. ASSUME NEW a \in Users, NEW u \in Users, AddContact(a, u) PROVE CardsInv'
  <2>1. PICK n \in 0 .. foto[u] : contatos' = [contatos EXCEPT ![<<a, u>>] = Profile(u, n)]
    BY <1>3 DEF AddContact
  <2>2. nome[u] \in {u, Blank} /\ Photo(u, n) \in Uploaded(u, foto)
    BY <1>3 DEF AddContact, Names, Uploaded
  <2>3. Profile(u, n) \in Card /\ Shows(Profile(u, n), u, foto)
    BY <2>2, CardMade DEF Profile
  <2>4. u \in Users \ {a}
    BY <1>3 DEF AddContact
  <2>5. Collection(contatos', foto)
    BY <2>1, <2>3, <2>4, CollectionExcept
  <2> QED BY <1>3, <2>5 DEF AddContact
<1>4. ASSUME NEW a \in Users, GetContatos(a) PROVE CardsInv'
  <2>1. Collection([p \in Pairs |-> IF p[1] = a THEN contatos[p] ELSE listContact[p]], foto)
    BY CollectionMerged
  <2>2. Collection(listContact', foto)
    BY <1>4, <2>1, Zenon DEF GetContatos
  <2> QED BY <1>4, <2>2 DEF GetContatos
<1>5. ASSUME NEW a \in Users, ConversasSnapshot(a) PROVE CardsInv'
  <2>1. Collection([p \in Pairs |-> IF p[1] = a THEN conversas[p] ELSE listaConversas[p]],
                   foto)
    BY CollectionMerged
  <2>2. Collection(listaConversas', foto)
    BY <1>5, <2>1, Zenon DEF ConversasSnapshot
  <2> QED BY <1>5, <2>2 DEF ConversasSnapshot
<1>6. ASSUME NEW a \in Users, NEW u \in Users, OpenFromContact(a, u) PROVE CardsInv'
  <2> DEFINE card == listContact[<<a, u>>]
  <2>1. /\ u \in Users \ {a} /\ <<a, u>> \in Pairs /\ <<a, u>>[2] = u /\ card # None
        /\ OpenChat(a, card, card)
        /\ UNCHANGED <<nome, foto, contatos, listContact, conversas, listaConversas, early>>
    BY <1>6 DEF OpenFromContact, Pairs
  <2>2. card \in Card /\ Shows(card, u, foto)
    BY <2>1 DEF Collection
  <2> HIDE DEF card
  <2>3. Screens(chat', foto)
    BY <2>1, <2>2, ScreenOpened, ScreensExcept DEF OpenChat
  <2> QED BY <2>1, <2>3
<1>7. ASSUME NEW a \in Users, NEW u \in Users, OpenFromConversa(a, u) PROVE CardsInv'
  <2> DEFINE card == listaConversas[<<a, u>>]
  <2>1. /\ u \in Users \ {a} /\ <<a, u>> \in Pairs /\ <<a, u>>[2] = u /\ card # None
        /\ OpenChat(a, card, ContactFromConversa(card))
        /\ UNCHANGED <<nome, foto, contatos, listContact, conversas, listaConversas, early>>
    BY <1>7 DEF OpenFromConversa, Pairs
  <2>2. card \in Card /\ Shows(card, u, foto)
    BY <2>1 DEF Collection
  <2> HIDE DEF card
  <2>3. ContactFromConversa(card) \in Card /\ Shows(ContactFromConversa(card), u, foto)
    BY <2>2, ContactMade
  <2>4. Screens(chat', foto)
    BY <2>1, <2>2, <2>3, ScreenOpened, ScreensExcept DEF OpenChat
  <2> QED BY <2>1, <2>4
<1>8. ASSUME NEW a \in Users, ProfileLoaded(a) PROVE CardsInv'
  <2>1. /\ chat[a] # None
        /\ UNCHANGED <<nome, foto, contatos, listContact, conversas, listaConversas, early>>
    BY <1>8 DEF ProfileLoaded
  <2>2. PICK me \in {Unknown, [nome |-> nome[a], foto |-> Photo(a, foto[a])]} :
           /\ me.nome # None
           /\ chat' = [chat EXCEPT ![a].me = me, ![a].loading = FALSE]
    BY <1>8 DEF ProfileLoaded
  <2>3. PICK n \in {a, Blank}, p \in Uploaded(a, foto) : me = [nome |-> n, foto |-> p]
    <3>1. Blank \in Uploaded(a, foto)
      BY BlankUploaded
    <3>2. Photo(a, foto[a]) \in Uploaded(a, foto)
      BY CardsAssumption DEF Uploaded, Counts
    <3>3. nome[a] \in {a, Blank, None}
      BY DEF Names
    <3>4. CASE me = Unknown
      BY <3>1, <3>4 DEF Unknown
    <3>5. CASE me = [nome |-> nome[a], foto |-> Photo(a, foto[a])]
      BY <2>2, <3>2, <3>3, <3>5
    <3> QED BY <2>2, <3>4, <3>5
  <2>4. ScreenOf(chat[a], a, foto)
    BY <2>1 DEF Screens
  <2>5. ScreenOf([chat[a] EXCEPT !.me = me, !.loading = FALSE], a, foto)
    BY <2>3, <2>4, ScreenAnswered
  <2>6. chat' = [chat EXCEPT ![a] = [chat[a] EXCEPT !.me = me, !.loading = FALSE]]
    BY <2>2 DEF Screens
  <2>7. Screens(chat', foto)
    BY <2>5, <2>6, ScreensExcept
  <2> QED BY <2>1, <2>7
<1>9. ASSUME NEW a \in Users, ActionPushMessage(a) PROVE CardsInv'
  <2> DEFINE c == chat[a].contato
             me == chat[a].me
             mine == [id |-> a, nome |-> me.nome, foto |-> me.foto]
  <2>1. chat[a] # None /\ conversas' = Previews(a)
    BY <1>9 DEF ActionPushMessage
  <2>2. ScreenOf(chat[a], a, foto)
    BY <2>1 DEF Screens
  <2>3. PICK u \in Users \ {a} : Shows(c, u, foto)
    BY <2>2 DEF ScreenOf
  <2>4. c \in Card /\ c.id = u
    BY <2>2, <2>3 DEF ScreenOf, Screen, Shows
  <2>5. me.nome \in {a, Blank} /\ me.foto \in Uploaded(a, foto)
    BY <2>2 DEF ScreenOf
  <2>6. mine \in Card /\ Shows(mine, a, foto)
    BY <2>5, CardMade
  <2>7. conversas' = [[conversas EXCEPT ![<<a, u>>] = c] EXCEPT ![<<u, a>>] = mine]
    BY <2>1, <2>4 DEF Previews
  <2> HIDE DEF c, mine
  <2>8. Collection([conversas EXCEPT ![<<a, u>>] = c], foto)
    BY <2>3, <2>4, CollectionExcept
  <2>9. Collection(conversas', foto)
    BY <2>6, <2>7, <2>8, CollectionExcept
  <2> QED BY <1>9, <2>9 DEF ActionPushMessage
<1>10. ASSUME NEW a \in Users, BackBtnPressed(a) PROVE CardsInv'
  <2>1. Screens(chat', foto)
    BY <1>10, ScreensExcept DEF BackBtnPressed
  <2> QED BY <1>10, <2>1 DEF BackBtnPressed
<1>11. CASE UNCHANGED vars
  BY <1>11 DEF vars
<1> QED
  BY <1>1, <1>2, <1>3, <1>4, <1>5, <1>6, <1>7, <1>8, <1>9, <1>10, <1>11 DEF Next

(* ContactCards: the invariant of all cards and screens.                    *)
THEOREM CardsInvariant == Spec => []CardsInv
BY InitCards, CardsStep, PTL DEF Spec

(* Documents, lists and screens hold cards, whatever copied them.           *)
THEOREM CardsTyped == Spec => []TypeOK
<1>1. CardsInv => TypeOK
  BY DEF CardsInv, TypeOK, Names, Counts, Collection, Screens, ScreenOf, Screen
<1> QED BY <1>1, CardsInvariant, PTL

(* The idDestinatario actionPushMessage writes into each of two previews is *)
(* the peer of the list it goes to, for any users.                          *)
THEOREM ConversationsLead == Spec => []ConversationsLeadToPeer
<1>1. CardsInv => ConversationsLeadToPeer
  BY DEF CardsInv, ConversationsLeadToPeer, Collection, Shows
<1> QED BY <1>1, CardsInvariant, PTL

(* No chain of copies between profiles, contacts, previews and chat screens *)
(* puts somebody else's name or photo on a card.                            *)
THEOREM CardsShowTheirUsers == Spec => []CardsShowTheirUser
<1>1. CardsInv => CardsShowTheirUser
  BY DEF CardsInv, CardsShowTheirUser, Collection, Shows, Uploaded
<1> QED BY <1>1, CardsInvariant, PTL

-----------------------------------------------------------------------------
(* Blank names.  A blank in the previews is copied on by the screens opened  *)
(* from them, so the screens are part of the invariant: what they hold of    *)
(* the peer is excused like a preview, and what they hold of their own user  *)
(* is blank without an excuse only before the profile is loaded, which is    *)
(* when actionPushMessage counts the user among the early senders.           *)

Unnamed == {u \in Users : nome[u] = Blank}
Excused == early \cup Unnamed

BlanksOf(cards, us) == \A p \in Pairs : cards[p] # None /\ cards[p].nome = Blank => p[2] \in us

BlankOnScreen(s, a, es, us) ==
    /\ s.contato.nome = Blank => s.contato.id \in es
    /\ s.me.nome = Blank => s.me = Unknown \/ a \in us

BlankInv ==
    /\ BlanksOf(contatos, Unnamed) /\ BlanksOf(listContact, Unnamed)
    /\ BlanksOf(conversas, Excused) /\ BlanksOf(listaConversas, Excused)
    /\ \A a \in Users : chat[a] # None => BlankOnScreen(chat[a], a, Excused, Unnamed)

\* Users are added to those whose blank names are excused, and never removed.
LEMMA BlanksKept ==
    ASSUME NEW cards, NEW us, NEW vs, us \subseteq vs, BlanksOf(cards, us)
    PROVE  BlanksOf(cards, vs)
BY DEF BlanksOf

\* A list that is in part as another collection has it.
LEMMA BlanksMerged ==
    ASSUME NEW one, NEW two, NEW us, BlanksOf(one, us), BlanksOf(two, us), NEW a
    PROVE  BlanksOf([p \in Pairs |-> IF p[1] = a THEN one[p] ELSE two[p]], us)
BY DEF BlanksOf

\* The card of b in the list of a replaced.
LEMMA BlanksExcept ==
    ASSUME NEW cards, DOMAIN cards = Pairs, NEW us, BlanksOf(cards, us),
           NEW a \in Users, NEW b \in Users \ {a}, NEW card,
           card.nome = Blank => b \in us
    PROVE  BlanksOf([cards EXCEPT ![<<a, b>>] = card], us)
<1> DEFINE new == [cards EXCEPT ![<<a, b>>] = card]
<1> SUFFICES ASSUME NEW p \in Pairs, new[p].nome = Blank, new[p] # None PROVE p[2] \in us
  BY DEF BlanksOf
<1>1. CASE p = <<a, b>>
  BY <1>1
<1>2. CASE p # <<a, b>>
  BY <1>2 DEF BlanksOf
<1> QED BY <1>1, <1>2

LEMMA BlankStep == CardsInv /\ BlankInv /\ [Next]_vars => BlankInv'
<1> SUFFICES ASSUME CardsInv, BlankInv, [Next]_vars PROVE BlankInv'
  OBVIOUS
<1>0. /\ DOMAIN contatos = Pairs /\ DOMAIN listContact = Pairs
      /\ DOMAIN conversas = Pairs /\ DOMAIN listaConversas = Pairs
      /\ DOMAIN chat = Users /\ DOMAIN nome = Users
  BY DEF CardsInv, Collection, Screens, Names
<1>1. ASSUME NEW u \in Users, ActionRegisterUser(u) PROVE BlankInv'
  <2>1. UNCHANGED <<contatos, listContact, conversas, listaConversas, chat, early>>
    BY <1>1 DEF ActionRegisterUser
  <2>2. PICK n \in {u, Blank} : nome[u] = None /\ nome' = [nome EXCEPT ![u] = n]
    BY <1>1 DEF ActionRegisterUser
  <2>3. Unnamed \subseteq Unnamed' /\ Excused \subseteq Excused'
    BY <1>0, <2>1, <2>2, CardsAssumption DEF Unnamed, Excused
  <2>4. /\ BlanksOf(contatos, Unnamed') /\ BlanksOf(listContact, Unnamed')
        /\ BlanksOf(conversas, Excused') /\ BlanksOf(listaConversas, Excused')
    BY <2>3, BlanksKept DEF BlankInv
  <2>5. \A a \in Users : chat[a] # None => BlankOnScreen(chat[a], a, Excused', Unnamed')
    BY <2>3 DEF BlankInv, BlankOnScreen
  <2> QED BY <2>1, <2>4, <2>5 DEF BlankInv
<1>2. ASSUME NEW u \in Users, UploadPhoto(u) PROVE BlankInv'
  BY <1>2 DEF UploadPhoto, BlankInv, Unnamed, Excused
<1>3. ASSUME NEW a \in Users, NEW u \in Users, AddContact(a, u) PROVE BlankInv'
  <2>1. PICK n \in 0 .. foto[u] : contatos' = [contatos EXCEPT ![<<a, u>>] = Profile(u, n)]
    BY <1>3 DEF AddContact
  <2>2. Profile(u, n).nome = Blank => u \in Unnamed
    BY DEF Profile, Unnamed
  <2>3. u \in Users \ {a} /\ BlanksOf(contatos, Unnamed)
    BY <1>3 DEF AddContact, BlankInv
  <2>4. BlanksOf(contatos', Unnamed)
    BY <1>0, <2>1, <2>2, <2>3, BlanksExcept
  <2> QED BY <1>3, <2>4 DEF AddContact, BlankInv, Unnamed, Excused
<1>4. ASSUME NEW a \in Users, GetContatos(a) PROVE BlankInv'
  <2>1. BlanksOf([p \in Pairs |-> IF p[1] = a THEN contatos[p] ELSE listContact[p]], Unnamed)
    <3>1. BlanksOf(contatos, Unnamed) /\ BlanksOf(listContact, Unnamed)
      BY DEF BlankInv
    <3> QED BY <3>1, BlanksMerged
  <2>2. BlanksOf(listContact', Unnamed)
    BY <1>4, <2>1, Zenon DEF GetContatos
  <2> QED BY <1>4, <2>2 DEF GetContatos, BlankInv, Unnamed, Excused
<1>5. ASSUME NEW a \in Users, ConversasSnapshot(a) PROVE BlankInv'
  <2>1. BlanksOf([p \in Pairs |-> IF p[1] = a THEN conversas[p] ELSE listaConversas[p]],
                 Excused)
    <3>1. BlanksOf(conversas, Excused) /\ BlanksOf(listaConversas, Excused)
      BY DEF BlankInv
    <3> QED BY <3>1, BlanksMerged
  <2>2. BlanksOf(listaConversas', Excused)
    BY <1>5, <2>1, Zenon DEF ConversasSnapshot
  <2> QED BY <1>5, <2>2 DEF ConversasSnapshot, BlankInv, Unnamed, Excused
<1>6. ASSUME NEW a \in Users, NEW u \in Users, OpenFromContact(a, u) PROVE BlankInv'
  <2> DEFINE card == listContact[<<a, u>>]
             s == [tapped |-> card, contato |-> card, me |-> Unknown, loading |-> TRUE]
  <2>1. /\ <<a, u>> \in Pairs /\ <<a, u>>[2] = u /\ card # None
        /\ UNCHANGED <<nome, foto, contatos, listContact, conversas, listaConversas, early>>
    BY <1>6 DEF OpenFromContact, Pairs
  <2>2. chat' = [chat EXCEPT ![a] = s]
    BY <1>6, Zenon DEF OpenFromContact, OpenChat
  <2>3. card.id = u /\ (card.nome = Blank => u \in Excused)
    BY <2>1 DEF CardsInv, Collection, Shows, BlankInv, BlanksOf, Excused
  <2>4. BlankOnScreen(s, a, Excused, Unnamed)
    BY <2>3 DEF BlankOnScreen
  <2> HIDE DEF s
  <2>5. \A b \in Users : chat'[b] # None => BlankOnScreen(chat'[b], b, Excused, Unnamed)
    BY <1>0, <2>2, <2>4 DEF BlankInv
  <2> QED BY <2>1, <2>5 DEF BlankInv, Unnamed, Excused
<1>7. ASSUME NEW a \in Users, NEW u \in Users, OpenFromConversa(a, u) PROVE BlankInv'
  <2> DEFINE card == listaConversas[<<a, u>>]
             s == [tapped |-> card, contato |-> ContactFromConversa(card),
                   me |-> Unknown, loading |-> TRUE]
  <2>1. /\ <<a, u>> \in Pairs /\ <<a, u>>[2] = u /\ card # None
        /\ UNCHANGED <<nome, foto, contatos, listContact, conversas, listaConversas, early>>
    BY <1>7 DEF OpenFromConversa, Pairs
  <2>2. chat' = [chat EXCEPT ![a] = s]
    BY <1>7, Zenon DEF OpenFromConversa, OpenChat
  <2>3. card.id = u /\ (card.nome = Blank => u \in Excused)
    BY <2>1 DEF CardsInv, Collection, Shows, BlankInv, BlanksOf
  <2>4. BlankOnScreen(s, a, Excused, Unnamed)
    BY <2>3 DEF BlankOnScreen, ContactFromConversa
  <2> HIDE DEF s
  <2>5. \A b \in Users : chat'[b] # None => BlankOnScreen(chat'[b], b, Excused, Unnamed)
    BY <1>0, <2>2, <2>4 DEF BlankInv
  <2> QED BY <2>1, <2>5 DEF BlankInv, Unnamed, Excused
<1>8. ASSUME NEW a \in Users, ProfileLoaded(a) PROVE BlankInv'
  <2>1. /\ chat[a] # None
        /\ UNCHANGED <<nome, foto, contatos, listContact, conversas, listaConversas, early>>
    BY <1>8 DEF ProfileLoaded
  <2>2. PICK me \in {Unknown, [nome |-> nome[a], foto |-> Photo(a, foto[a])]} :
           chat' = [chat EXCEPT ![a].me = me, ![a].loading = FALSE]
    BY <1>8 DEF ProfileLoaded
  <2>3. me.nome = Blank => me = Unknown \/ a \in Unnamed
    BY <2>2 DEF Unnamed
  <2>4. chat[a] \in Screen /\ BlankOnScreen(chat[a], a, Excused, Unnamed)
    BY <2>1 DEF CardsInv, Screens, BlankInv
  <2>5. chat'[a].contato = chat[a].contato /\ chat'[a].me = me
    BY <1>0, <2>2, <2>4 DEF Screen
  <2>6. BlankOnScreen(chat'[a], a, Excused, Unnamed)
    BY <2>3, <2>4, <2>5 DEF BlankOnScreen
  <2>7. \A b \in Users \ {a} : chat'[b] = chat[b]
    BY <1>0, <2>2
  <2>8. \A b \in Users : chat'[b] # None => BlankOnScreen(chat'[b], b, Excused, Unnamed)
    BY <2>6, <2>7 DEF BlankInv
  <2> QED BY <2>1, <2>8 DEF BlankInv, Unnamed, Excused
<1>9. ASSUME NEW a \in Users, ActionPushMessage(a) PROVE BlankInv'
  <2> DEFINE c == chat[a].contato
             me == chat[a].me
             mine == [id |-> a, nome |-> me.nome, foto |-> me.foto]
  <2>1. /\ chat[a] # None /\ conversas' = Previews(a)
        /\ early' = IF me = Unknown THEN early \cup {a} ELSE early
        /\ UNCHANGED <<nome, foto, contatos, listContact, listaConversas, chat>>
    BY <1>9 DEF ActionPushMessage
  <2>2. PICK u \in Users \ {a} : c.id = u
    BY <2>1 DEF CardsInv, Screens, ScreenOf, Shows
  <2>3. Unnamed' = Unnamed /\ Excused \subseteq Excused'
    BY <2>1 DEF Unnamed, Excused
  <2>4. BlankOnScreen(chat[a], a, Excused, Unnamed)
    BY <2>1 DEF BlankInv
  <2>5. c.nome = Blank => u \in Excused'
    BY <2>2, <2>3, <2>4 DEF BlankOnScreen
  <2>6. mine.nome = Blank => a \in Excused'
    BY <2>1, <2>3, <2>4 DEF BlankOnScreen, Excused
  <2>7. conversas' = [[conversas EXCEPT ![<<a, u>>] = c] EXCEPT ![<<u, a>>] = mine]
    BY <2>1, <2>2 DEF Previews
  <2>8. BlanksOf(conversas, Excused') /\ BlanksOf(listaConversas, Excused')
    BY <2>3, BlanksKept DEF BlankInv
  <2> HIDE DEF c, mine
  <2>9. BlanksOf([conversas EXCEPT ![<<a, u>>] = c], Excused')
    BY <1>0, <2>2, <2>5, <2>8, BlanksExcept
  <2>10. DOMAIN [conversas EXCEPT ![<<a, u>>] = c] = Pairs
    BY <1>0
  <2>11. a \in Users \ {u}
    OBVIOUS
  <2>12. BlanksOf(conversas', Excused')
    BY <2>6, <2>7, <2>9, <2>10, <2>11, BlanksExcept
  <2>13. \A b \in Users : chat[b] # None => BlankOnScreen(chat[b], b, Excused', Unnamed)
    BY <2>3 DEF BlankInv, BlankOnScreen
  <2> QED BY <2>1, <2>3, <2>8, <2>12, <2>13 DEF BlankInv
<1>10. ASSUME NEW a \in Users, BackBtnPressed(a) PROVE BlankInv'
  BY <1>0, <1>10 DEF BackBtnPressed, BlankInv, Unnamed, Excused
<1>11. CASE UNCHANGED vars
  BY <1>11 DEF vars, BlankInv, Unnamed, Excused
<1> QED
  BY <1>1, <1>2, <1>3, <1>4, <1>5, <1>6, <1>7, <1>8, <1>9, <1>10, <1>11 DEF Next

(* A name is blank in a preview only if its bearer registered without one or *)
(* has sent before recuperarDadosUsuarioLogado was answered, and in the     *)
(* contacts only if it registered without one, whoever copied the card on.  *)
THEOREM BlankNamesExplained == Spec => []BlankNamesComeFromTheirUser
<1>1. Init => BlankInv
  <2> SUFFICES ASSUME Init PROVE BlankInv
    OBVIOUS
  <2>1. \A p \in Pairs : contatos[p] = None /\ conversas[p] = None
    BY DEF Init
  <2> QED BY <2>1 DEF Init, BlankInv, BlanksOf
<1>2. BlankInv => BlankNamesComeFromTheirUser
  <2> SUFFICES ASSUME BlankInv, NEW p \in Pairs
               PROVE  /\ conversas[p] # None /\ conversas[p].nome = Blank =>
                             p[2] \in early \/ nome[p[2]] = Blank
                      /\ contatos[p] # None /\ contatos[p].nome = Blank =>
                             nome[p[2]] = Blank
    BY DEF BlankNamesComeFromTheirUser
  <2> QED BY DEF BlankInv, BlanksOf, Excused, Unnamed
<1> QED BY <1>1, <1>2, BlankStep, CardsInvariant, PTL DEF Spec
=============================================================================
