---------------------------- MODULE ContactCards ----------------------------
(***************************************************************************)
(* The copies of a user's name and photo.                                  *)
(*                                                                         *)
(* The profile usuarios/<u> is the original.  It is copied into the        *)
(* contact usuarios/<a>/contatos/<u> when a adds u, and into the preview   *)
(* conversas/<a>/ultimas_conversas/<u> by every message between the two:   *)
(* the sender writes the recipient's card from what its chat screen was    *)
(* opened with, and its own card in the recipient's list from a profile    *)
(* load that the screen starts in viewDidLoad and never waits for.         *)
(*                                                                         *)
(* Names never change after registration, photos do.  Delivery is left to  *)
(* MessageFanOut: here the two previews of a message are written at once.  *)
(***************************************************************************)
EXTENDS Integers

CONSTANTS
    Users,
    Blank,         \* an empty or missing string
    None,          \* no document, no row, no open screen
    MaxPhotos      \* bound: photos each user uploads

ASSUME CardsAssumption ==
    /\ Blank \notin Users
    /\ None \notin Users
    /\ Blank # None
    /\ MaxPhotos \in Nat

VARIABLES
    nome,           \* the name in each profile document, None without one
    foto,           \* foto[u]: how many photos u has uploaded
    contatos,       \* server: contatos[<<a, u>>], the card of u in a's contacts
    listContact,    \* contatos as a's list screen last loaded it
    conversas,      \* server: conversas[<<a, u>>], the card of u in a's previews
    listaConversas, \* conversas as a's list screen last received it
    chat,           \* the chat screen open on the device of each user
    early           \* history: who has sent without its own profile loaded

vars == <<nome, foto, contatos, listContact, conversas, listaConversas, chat, early>>

Pairs == {p \in Users \X Users : p[1] # p[2]}

Photo(u, n) == IF n = 0 THEN Blank ELSE <<u, n>>
PhotosOf(u) == {Photo(u, n) : n \in 0 .. MaxPhotos}

\* The fields that Contact and Conversa read from a document.
Card == [id : Users, nome : Users \cup {Blank},
         foto : UNION {PhotosOf(u) : u \in Users}]

\* A profile document, at one of the versions of its photo.
Profile(u, n) == [id |-> u, nome |-> nome[u], foto |-> Photo(u, n)]

\* What the chat screen knows of its own user before the profile is loaded.
Unknown == [nome |-> Blank, foto |-> Blank]

-----------------------------------------------------------------------------
Init ==
    /\ nome = [u \in Users |-> None]
    /\ foto = [u \in Users |-> 0]
    /\ contatos = [p \in Pairs |-> None]
    /\ listContact = contatos
    /\ conversas = [p \in Pairs |-> None]
    /\ listaConversas = conversas
    /\ chat = [u \in Users |-> None]
    /\ early = {}

\* actionRegisterUser: the profile document arrives, without a photo, and with
\* the name the field held when the button was tapped: an empty one, if it was
\* deleted since a field last ended editing, when the button is judged.
ActionRegisterUser(u) ==
    /\ nome[u] = None
    /\ nome' \in {[nome EXCEPT ![u] = n] : n \in {u, Blank}}
    /\ UNCHANGED <<foto, contatos, listContact, conversas, listaConversas, chat, early>>

\* imagePickerController, once putData and downloadURL have succeeded; the
\* update fails silently where there is no document.
UploadPhoto(u) ==
    /\ nome[u] # None
    /\ foto[u] < MaxPhotos
    /\ foto' = [foto EXCEPT ![u] = @ + 1]
    /\ UNCHANGED <<nome, contatos, listContact, conversas, listaConversas, chat, early>>

\* addContact finds the profile by e-mail, on the server or in an older
\* version in the local cache, and salvarContato copies the whole document.
AddContact(a, u) ==
    /\ a # u
    /\ nome[u] # None
    /\ \E n \in 0 .. foto[u] :
         contatos' = [contatos EXCEPT ![<<a, u>>] = Profile(u, n)]
    /\ UNCHANGED <<nome, foto, listContact, conversas, listaConversas, chat, early>>

\* getContatos has its answer.
GetContatos(a) ==
    /\ listContact' = [p \in Pairs |-> IF p[1] = a THEN contatos[p] ELSE listContact[p]]
    /\ UNCHANGED <<nome, foto, contatos, conversas, listaConversas, chat, early>>

\* addListenerRecuperarConversa: a snapshot replaces the whole list.
ConversasSnapshot(a) ==
    /\ listaConversas' =
         [p \in Pairs |-> IF p[1] = a THEN conversas[p] ELSE listaConversas[p]]
    /\ UNCHANGED <<nome, foto, contatos, listContact, conversas, chat, early>>

\* viewDidLoad of the chat screen: it keeps what the contact says of the peer
\* and starts to load the profile of its own user.
OpenChat(a, tapped, contact) ==
    chat' = [chat EXCEPT ![a] =
        [tapped |-> tapped, contato |-> contact, me |-> Unknown, loading |-> TRUE]]

\* A row of the contacts is tapped: the contact goes to the chat as it is.
OpenFromContact(a, u) ==
    /\ a # u
    /\ chat[a] = None
    /\ listContact[<<a, u>>] # None
    /\ OpenChat(a, listContact[<<a, u>>], listContact[<<a, u>>])
    /\ UNCHANGED <<nome, foto, contatos, listContact, conversas, listaConversas, early>>

\* Mutants: the initialiser loses the name, or the id, the way it loses the photo.
ContactFromConversaWithoutId(card) == [id |-> Blank, nome |-> card.nome, foto |-> Blank]
ContactFromConversaUnnamed(card) == [id |-> card.id, nome |-> Blank, foto |-> Blank]

\* Contact.init(id:nome:urlImagem:) assigns the property urlImage, still nil,
\* to itself: the parameter is called urlImagem.
ContactFromConversa(card) == [id |-> card.id, nome |-> card.nome, foto |-> Blank]

\* A row of the conversations is tapped: a contact is made from the preview.
OpenFromConversa(a, u) ==
    /\ a # u
    /\ chat[a] = None
    /\ listaConversas[<<a, u>>] # None
    /\ OpenChat(a, listaConversas[<<a, u>>], ContactFromConversa(listaConversas[<<a, u>>]))
    /\ UNCHANGED <<nome, foto, contatos, listContact, conversas, listaConversas, early>>

\* recuperarDadosUsuarioLogado is answered: with the profile, with a missing
\* document (read as empty strings), or with an error, which changes nothing.
ProfileLoaded(a) ==
    /\ chat[a] # None
    /\ chat[a].loading
    /\ \E me \in {Unknown, [nome |-> nome[a], foto |-> Photo(a, foto[a])]} :
         /\ me.nome # None
         /\ chat' = [chat EXCEPT ![a].me = me, ![a].loading = FALSE]
    /\ UNCHANGED <<nome, foto, contatos, listContact, conversas, listaConversas, early>>

\* Mutant: the dictionary of the first preview is reused with its ids unswapped.
PreviewsUnswapped(a) ==
    LET c == chat[a].contato
        me == chat[a].me
    IN  [conversas EXCEPT
            ![<<a, c.id>>] = c,
            ![<<c.id, a>>] = [id |-> c.id, nome |-> me.nome, foto |-> me.foto]]

\* Mutant: assigning a nil photo leaves the dictionary's earlier one in place.
PreviewsKeepPhoto(a) ==
    LET c == chat[a].contato
        me == chat[a].me
    IN  [conversas EXCEPT
            ![<<a, c.id>>] = c,
            ![<<c.id, a>>] = [id |-> a, nome |-> me.nome,
                              foto |-> IF me.foto = Blank THEN c.foto ELSE me.foto]]

\* The two salvarConversa calls: the same dictionary with ids, name and photo
\* overwritten in between; assigning a nil photo removes the key.
Previews(a) ==
    LET c == chat[a].contato
        me == chat[a].me
    IN  [conversas EXCEPT
            ![<<a, c.id>>] = c,
            ![<<c.id, a>>] = [id |-> a, nome |-> me.nome, foto |-> me.foto]]

\* The send button.
ActionPushMessage(a) ==
    /\ chat[a] # None
    /\ conversas' = Previews(a)
    /\ early' = IF chat[a].me = Unknown THEN early \cup {a} ELSE early
    /\ UNCHANGED <<nome, foto, contatos, listContact, listaConversas, chat>>

\* The back button; an answer still on its way finds nobody.
BackBtnPressed(a) ==
    /\ chat[a] # None
    /\ chat' = [chat EXCEPT ![a] = None]
    /\ UNCHANGED <<nome, foto, contatos, listContact, conversas, listaConversas, early>>

Next ==
    \/ \E u \in Users : ActionRegisterUser(u) \/ UploadPhoto(u)
    \/ \E a, u \in Users : AddContact(a, u)
    \/ \E a \in Users : GetContatos(a) \/ ConversasSnapshot(a)
    \/ \E a, u \in Users : OpenFromContact(a, u) \/ OpenFromConversa(a, u)
    \/ \E a \in Users : ProfileLoaded(a)
    \/ \E a \in Users : ActionPushMessage(a)
    \/ \E a \in Users : BackBtnPressed(a)

Spec == Init /\ [][Next]_vars

-----------------------------------------------------------------------------
(* Properties.                                                             *)

(* Documents, lists and screens hold cards; a screen that has its answer or *)
(* not knows a name only together with its own user's.                      *)
TypeOK ==
    /\ \A u \in Users : nome[u] \in {u, Blank, None}
    /\ foto \in [Users -> 0 .. MaxPhotos]
    /\ \A cards \in {contatos, listContact, conversas, listaConversas} :
         /\ DOMAIN cards = Pairs
         /\ \A p \in Pairs : cards[p] \in Card \cup {None}
    /\ \A a \in Users :
         chat[a] # None => /\ chat[a].tapped \in Card
                           /\ chat[a].contato \in Card
                           /\ chat[a].me.nome \in {a, Blank}
                           /\ chat[a].loading \in BOOLEAN
    /\ early \subseteq Users

(* Whatever list a chat is opened from, it is a chat with the user whose    *)
(* row was tapped: the idDestinatario that actionPushMessage writes into    *)
(* each of the two previews is the peer of the list it goes to, although    *)
(* both are made from one dictionary.                                       *)
ConversationsLeadToPeer ==
    \A p \in Pairs :
        /\ conversas[p] # None => conversas[p].id = p[2]
        /\ listContact[p] # None => listContact[p].id = p[2]

(* No card ever shows the name or the photo of somebody else, in particular *)
(* not the reader's own, through any chain of copies between profiles,      *)
(* contacts, previews and chat screens.                                     *)
CardsShowTheirUser ==
    \A p \in Pairs : \A cards \in {contatos, listContact, conversas, listaConversas} :
        cards[p] # None =>
            /\ cards[p].nome \in {p[2], Blank}
            /\ cards[p].foto \in {Photo(p[2], n) : n \in 0 .. foto[p[2]]}

(* A name is blank only through its bearer: if u's name is blank in anybody's *)
(* preview, u registered without one or has itself sent without its own     *)
(* profile loaded, however often others have since copied the blank on; in  *)
(* the contacts, which salvarContato copies from the profile, only if u     *)
(* registered without one.                                                  *)
BlankNamesComeFromTheirUser ==
    \A p \in Pairs :
        /\ conversas[p] # None /\ conversas[p].nome = Blank =>
               p[2] \in early \/ nome[p[2]] = Blank
        /\ contatos[p] # None /\ contatos[p].nome = Blank => nome[p[2]] = Blank

(* "salvar conversa para remetente(dados de quem recebe)": the sender's own *)
(* preview keeps the photo its user tapped on.  The code breaks this: a     *)
(* chat opened from a preview has lost the photo before anything is sent.   *)
SenderPreviewShowsRecipient ==
    [][\A a \in Users :
        ActionPushMessage(a) =>
            conversas'[<<a, chat[a].contato.id>>].foto = chat[a].tapped.foto]_vars

(* "salvar conversa para destinatario(dados de quem envia)": the recipient  *)
(* finds the sender's name in the preview.  The code breaks this: a message *)
(* sent before the profile is loaded writes an empty name.                  *)
RecipientPreviewNamesSender ==
    [][\A a \in Users :
        nome[a] = a /\ ActionPushMessage(a) =>
            conversas'[<<chat[a].contato.id, a>>].nome = a]_vars
=============================================================================
