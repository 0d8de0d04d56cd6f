-------------------------- MODULE ConversationList --------------------------
(***************************************************************************)
(* The home screen: MessageListViewController, its collection view, the    *)
(* two tabs above it and the add-contact dialogue.                         *)
(*                                                                         *)
(* One collection view shows either the conversations or the contacts,     *)
(* depending on screenContact.  The data source methods read the arrays    *)
(* listaConversas and listContact; the view knows only the rows it counted *)
(* at its last reloadData.  Conversations arrive through a snapshot        *)
(* listener, contacts through one-shot queries; every callback and every   *)
(* tap runs on the main queue, one after the other.                        *)
(***************************************************************************)
EXTENDS Integers, Sequences, FiniteSets

CONSTANTS
    Peers,         \* ids of the other users, in the order of document ids
    AddRow,        \* the last row of the contacts, which adds one
    NoRow,         \* nothing has been tapped
    MaxLoads,      \* bound: contact queries on their way at a time
    MaxListeners,  \* bound: listeners ever registered
    MaxAdds        \* bound: contacts looked up

ASSUME ListAssumption ==
    /\ Peers \subseteq Nat
    /\ IsFiniteSet(Peers)
    /\ AddRow \notin Peers
    /\ NoRow \notin Peers \cup {AddRow}
    /\ MaxLoads \in Nat /\ MaxListeners \in Nat \ {0} /\ MaxAdds \in Nat

VARIABLES
    conversas,      \* server: peers with a preview under ultimas_conversas
    contatos,       \* server: peers under usuarios/<id>/contatos
    known,          \* those of them this device has the document of
    screenContact,  \* the contacts tab is selected
    listaConversas, \* the array behind the conversations
    listContact,    \* the array behind the contacts
    face,           \* the rows of the collection view as of its last reload
    loads,          \* getContatos queries on their way: known when they were made
    active,         \* snapshot listeners the client serves
    due,            \* those with a snapshot of the server to deliver
    fresh,          \* those that may still start with one of the cache
    handle,         \* conversasListener: the one that remove() would stop
    added,          \* listeners registered so far
    top,            \* the screen on top of the navigation stack
    alert,          \* the alert presented by the home screen
    lookups,        \* addContact queries on their way
    saves,          \* the mutation queue: contacts saved and not answered for
    adds,           \* lookups started so far
    opened,         \* history: the row tapped for the chat on top, and whose chat it is
    failed,         \* history: a contact query failed since the last reload
    overlap,        \* history: getContatos ran with one still on its way
    repeats,        \* history: times the selected conversations tab was tapped
    lost,           \* history: an answer or alert was lost since getContatos ran
    trap            \* the process has stopped on an index out of range

lists == <<listaConversas, listContact, face>>
listeners == <<active, due, fresh, handle, added>>
dialogue == <<alert, lookups, saves, adds>>
server == <<conversas, contatos, known>>
history == <<opened, failed, overlap, repeats, lost>>
vars == <<server, screenContact, lists, loads, listeners, top, dialogue, history, trap>>

-----------------------------------------------------------------------------
\* snapshot.documents: the peers of a collection in the order of their ids.
Documents(S) ==
    CHOOSE q \in [1 .. Cardinality(S) -> S] :
        \A i, j \in 1 .. Cardinality(S) : i < j => q[i] < q[j]

\* numberOfItemsInSection and cellForItemAt, for all rows at once.
Rows(contacts, convs, persons) ==
    IF contacts THEN Append(persons, AddRow) ELSE convs

Init ==
    /\ conversas \in SUBSET Peers
    /\ contatos \in SUBSET Peers
    /\ known \in SUBSET contatos
    /\ screenContact = FALSE
    /\ listaConversas = << >>
    /\ listContact = << >>
    /\ face = << >>
    /\ loads = << >>
    /\ active = {1}
    /\ due = {1}
    /\ fresh = {1}
    /\ handle = 1
    /\ added = 1
    /\ top = "home"
    /\ alert = "none"
    /\ lookups = 0
    /\ saves = << >>
    /\ adds = 0
    /\ opened = <<NoRow, NoRow>>
    /\ failed = FALSE
    /\ overlap = FALSE
    /\ repeats = 0
    /\ lost = FALSE
    /\ trap = FALSE

\* Mutant: reloadData is not called.
ReloadNot(contacts, convs, persons) == UNCHANGED <<face, failed>>

\* reloadCollection
Reload(contacts, convs, persons) ==
    /\ face' = Rows(contacts, convs, persons)
    /\ failed' = FALSE

\* Mutants: remove() does nothing, or leaves what is already on its way.
RemoveNothing(l) == UNCHANGED <<active, due, fresh>>
RemoveUnmuted(l) == active' = active \ {l} /\ UNCHANGED <<due, fresh>>

\* ListenerRegistration.remove: nothing is delivered after it.
Remove(l) ==
    /\ active' = active \ {l}
    /\ due' = due \ {l}
    /\ fresh' = fresh \ {l}

\* addListenerRecuperarConversa: the handle of the one before is overwritten.
AddListenerRecuperarConversa ==
    /\ added < MaxListeners
    /\ added' = added + 1
    /\ handle' = added + 1
    /\ active' = active \cup {added + 1}
    /\ due' = due \cup {added + 1}
    /\ fresh' = fresh \cup {added + 1}

-----------------------------------------------------------------------------
(* The tabs.                                                               *)

\* Mutant: the array is not emptied.
GetContatosAppending ==
    /\ Len(loads) < MaxLoads
    /\ loads' = Append(loads, known)
    /\ overlap' = (loads # << >>)
    /\ lost' = FALSE
    /\ UNCHANGED listContact

\* getContatos: the array is emptied at once, the view is not told.
GetContatos ==
    /\ Len(loads) < MaxLoads
    /\ listContact' = << >>
    /\ loads' = Append(loads, known)
    /\ overlap' = (loads # << >>)
    /\ lost' = FALSE

CanTouch == ~trap /\ top = "home" /\ alert = "none"

\* typeScreenMessage(.contact)
TappedContactButton ==
    /\ CanTouch
    /\ screenContact' = TRUE
    /\ GetContatos
    /\ Remove(handle)
    /\ UNCHANGED <<server, listaConversas, face, handle, added, top, dialogue,
                   opened, failed, repeats, trap>>

\* typeScreenMessage(.conversation): a further listener, whoever is listening.
TappedConversationRegister ==
    /\ CanTouch
    /\ screenContact' = FALSE
    /\ AddListenerRecuperarConversa
    /\ repeats' = IF screenContact THEN repeats ELSE repeats + 1
    /\ Reload(FALSE, listaConversas, listContact)
    /\ UNCHANGED <<server, listaConversas, listContact, loads, top, dialogue,
                   opened, overlap, lost, trap>>

-----------------------------------------------------------------------------
(* Callbacks.                                                              *)

Without(q, i) == SubSeq(q, 1, i - 1) \o SubSeq(q, i + 1, Len(q))

\* Saved on this device, not yet on the server: queries made here show them.
Saving == {saves[k] : k \in DOMAIN saves}

\* The answer of a contact query: all contacts, or without a connection those
\* in the cache, which holds at least what it held when the query was made.
\* Saves the server has not answered for are laid over either.
ContatosLoaded(i) ==
    /\ ~trap
    /\ i \in DOMAIN loads
    /\ loads' = Without(loads, i)
    /\ \E S \in SUBSET contatos :
         /\ loads[i] \subseteq S
         /\ known' = known \cup S
         /\ listContact' = listContact \o Documents(S \cup Saving)
    /\ Reload(screenContact, listaConversas, listContact')
    /\ UNCHANGED <<conversas, contatos, screenContact, listaConversas, listeners, top,
                   dialogue, opened, overlap, repeats, lost, trap>>

\* The query failed: there is no snapshot, the error is printed.
ContatosFailed(i) ==
    /\ ~trap
    /\ i \in DOMAIN loads
    /\ loads' = Without(loads, i)
    /\ failed' = TRUE
    /\ lost' = TRUE
    /\ UNCHANGED <<server, screenContact, lists, listeners, top, dialogue,
                   opened, overlap, repeats, trap>>

\* Mutant: the array is replaced under the view.
RecuperarSilent(S) ==
    /\ listaConversas' = Documents(S)
    /\ UNCHANGED <<server, screenContact, listContact, face, loads, active, handle, added,
                   top, dialogue, history, trap>>

\* The callback of addListenerRecuperarConversa, on whichever tab it finds the
\* view: the array is replaced and the view reloaded.
Recuperar(S) ==
    /\ listaConversas' = Documents(S)
    /\ Reload(screenContact, listaConversas', listContact)
    /\ UNCHANGED <<server, screenContact, listContact, loads, active, handle, added,
                   top, dialogue, opened, overlap, repeats, lost, trap>>

\* The server's snapshot reaches a listener.  The listeners share one view of
\* the query, so from now on none of them starts with an older one.
ConversasSnapshot(l) ==
    /\ ~trap
    /\ l \in due
    /\ due' = due \ {l}
    /\ fresh' = {}
    /\ Recuperar(conversas)

\* A listener starts with what the cache has.
ConversasCached(l) ==
    /\ ~trap
    /\ l \in fresh
    /\ fresh' = fresh \ {l}
    /\ \E S \in SUBSET conversas : Recuperar(S)
    /\ UNCHANGED due

\* A listener fails for good, say for want of permission: erro is ignored.
ListenerFailed(l) ==
    /\ ~trap
    /\ l \in active
    /\ Remove(l)
    /\ UNCHANGED <<server, screenContact, lists, loads, handle, added, top, dialogue,
                   history, trap>>

\* A message from or to p: its preview is new or replaced.
NewMessage(p) ==
    /\ ~trap
    /\ conversas' = conversas \cup {p}
    /\ due' = active
    /\ UNCHANGED <<contatos, known, screenContact, lists, loads, active, fresh, handle,
                   added, top, dialogue, history, trap>>

-----------------------------------------------------------------------------
(* The rows.                                                               *)

\* The array read of cellForItemAt and didSelectItemAt for row i.
At(i) ==
    LET list == IF screenContact THEN listContact ELSE listaConversas IN
    IF screenContact /\ i = Len(listContact) + 1 THEN AddRow
    ELSE IF i <= Len(list) THEN list[i]
    ELSE NoRow

\* A row the view counted scrolls into sight: cellForItemAt reads the arrays.
ShowRow(i) ==
    /\ ~trap
    /\ top = "home"
    /\ i \in DOMAIN face
    /\ At(i) = NoRow
    /\ trap' = TRUE
    /\ UNCHANGED <<server, screenContact, lists, loads, listeners, top, dialogue, history>>

\* didSelectItemAt
DidSelectItem(i) ==
    /\ CanTouch
    /\ i \in DOMAIN face
    /\ CASE At(i) = NoRow  -> trap' = TRUE /\ UNCHANGED <<top, alert, opened>>
         [] At(i) = AddRow -> alert' = "addContact" /\ UNCHANGED <<top, opened, trap>>
         [] OTHER          -> /\ top' = "chat"
                              /\ opened' = <<face[i], At(i)>>
                              /\ UNCHANGED <<alert, trap>>
    /\ UNCHANGED <<server, screenContact, lists, loads, listeners, lookups, saves,
                   adds, failed, overlap, repeats, lost>>

\* actionConfigUser
ActionConfigUser ==
    /\ CanTouch
    /\ top' = "detail"
    /\ UNCHANGED <<server, screenContact, lists, loads, listeners, dialogue, history, trap>>

\* Back from the chat or the profile; nothing is loaded again.
Back ==
    /\ ~trap
    /\ top # "home"
    /\ alert = "none"
    /\ top' = "home"
    /\ opened' = <<NoRow, NoRow>>
    /\ UNCHANGED <<server, screenContact, lists, loads, listeners, dialogue, failed, overlap,
                   repeats, lost, trap>>

-----------------------------------------------------------------------------
(* The add-contact dialogue.                                               *)

\* present() does nothing while another alert is up; from under another screen it
\* may or may not be shown.
Present(a) ==
    \/ alert = "none" /\ alert' = a
    \/ (alert # "none" \/ top # "home") /\ UNCHANGED alert

\* "Cancelar", or the button of an alert without a completion.
Dismiss ==
    /\ ~trap
    /\ alert \in {"addContact", "message"}
    /\ alert' = "none"
    /\ UNCHANGED <<server, screenContact, lists, loads, listeners, top, lookups,
                   saves, adds, history, trap>>

\* "Adicionar": the own e-mail is refused on the spot, any other looked up.
Adicionar ==
    /\ ~trap
    /\ alert = "addContact"
    /\ adds < MaxAdds
    /\ \/ alert' = "message" /\ UNCHANGED <<lookups, adds>>
       \/ alert' = "none" /\ lookups' = lookups + 1 /\ adds' = adds + 1
    /\ UNCHANGED <<server, screenContact, lists, loads, listeners, top, saves,
                   history, trap>>

\* The lookup has no snapshot: nothing is shown.
LookupFailed ==
    /\ ~trap
    /\ lookups > 0
    /\ lookups' = lookups - 1
    /\ UNCHANGED <<server, screenContact, lists, loads, listeners, top, alert, saves,
                   adds, history, trap>>

\* The lookup finds nobody.
LookupEmpty ==
    /\ ~trap
    /\ lookups > 0
    /\ lookups' = lookups - 1
    /\ Present("message")
    /\ UNCHANGED <<server, screenContact, lists, loads, listeners, top, saves, adds,
                   history, trap>>

\* The lookup finds p: salvarContato puts the write in the queue of the client.
LookupFound(p) ==
    /\ ~trap
    /\ lookups > 0
    /\ lookups' = lookups - 1
    /\ saves' = Append(saves, p)
    /\ UNCHANGED <<server, screenContact, lists, loads, listeners, top, alert, adds,
                   history, trap>>

\* setData is acknowledged: successContato presents the alert that reloads.
SaveAcknowledged ==
    /\ ~trap
    /\ saves # << >>
    /\ saves' = Tail(saves)
    /\ contatos' = contatos \cup {Head(saves)}
    /\ known' = known \cup {Head(saves)}
    /\ Present("success")
    /\ lost' = (lost \/ alert' # "success")
    /\ UNCHANGED <<conversas, screenContact, lists, loads, listeners, top, lookups, adds,
                   opened, failed, overlap, repeats, trap>>

\* setData fails: the client takes the write back, the completion, with an error,
\* does nothing.
SaveRefused ==
    /\ ~trap
    /\ saves # << >>
    /\ saves' = Tail(saves)
    /\ UNCHANGED <<server, screenContact, lists, loads, listeners, top, alert, lookups,
                   adds, history, trap>>

\* Mutant: the alert has no completion.
DismissSuccessOnly ==
    /\ ~trap
    /\ alert = "success"
    /\ alert' = "none"
    /\ UNCHANGED <<server, screenContact, lists, loads, listeners, top, lookups, saves,
                   adds, history, trap>>

\* "Ok" on the success alert: the completion calls getContatos.
DismissSuccess ==
    /\ ~trap
    /\ alert = "success"
    /\ alert' = "none"
    /\ GetContatos
    /\ UNCHANGED <<server, screenContact, listaConversas, face, listeners, top, lookups,
                   saves, adds, opened, failed, repeats, trap>>

-----------------------------------------------------------------------------
Next ==
    \/ TappedContactButton
    \/ TappedConversationRegister
    \/ \E i \in 1 .. MaxLoads : ContatosLoaded(i)
    \/ \E i \in 1 .. MaxLoads : ContatosFailed(i)
    \/ \E l \in 1 .. MaxListeners : ConversasSnapshot(l)
    \/ \E l \in 1 .. MaxListeners : ConversasCached(l)
    \/ \E l \in 1 .. MaxListeners : ListenerFailed(l)
    \/ \E p \in Peers : NewMessage(p)
    \/ \E i \in DOMAIN face : ShowRow(i)
    \/ \E i \in DOMAIN face : DidSelectItem(i)
    \/ ActionConfigUser
    \/ Back
    \/ Dismiss
    \/ Adicionar
    \/ LookupFailed
    \/ LookupEmpty
    \/ \E p \in Peers : LookupFound(p)
    \/ SaveAcknowledged
    \/ SaveRefused
    \/ DismissSuccess

Spec == Init /\ [][Next]_vars

\* The client answers every query and serves every listener.
Fairness ==
    /\ WF_vars(\E i \in 1 .. MaxLoads : ContatosLoaded(i) \/ ContatosFailed(i))
    /\ \A l \in 1 .. MaxListeners : WF_vars(ConversasSnapshot(l))

FairSpec == Spec /\ Fairness

-----------------------------------------------------------------------------
(* Properties.                                                             *)

CurrentRows == Rows(screenContact, listaConversas, listContact)

(* Every variable has its type: what the controller keeps, what the view    *)
(* shows and what the client has on its way.                                *)
TypeOK ==
    /\ conversas \subseteq Peers /\ contatos \subseteq Peers /\ known \subseteq contatos
    /\ screenContact \in BOOLEAN
    /\ listaConversas \in Seq(Peers) /\ listContact \in Seq(Peers)
    /\ face \in Seq(Peers \cup {AddRow})
    /\ loads \in Seq(SUBSET Peers) /\ Len(loads) <= MaxLoads
    /\ added \in 1 .. MaxListeners /\ handle \in 1 .. added
    /\ active \subseteq 1 .. added /\ due \subseteq active /\ fresh \subseteq active
    /\ top \in {"home", "chat", "detail"}
    /\ alert \in {"none", "addContact", "message", "success"}
    /\ lookups \in Nat /\ saves \in Seq(Peers) /\ adds \in 0 .. MaxAdds
    /\ opened \in (Peers \cup {AddRow, NoRow}) \X (Peers \cup {AddRow, NoRow})
    /\ \A flag \in {failed, overlap, lost, trap} : flag \in BOOLEAN
    /\ repeats \in Nat

(* The rows on screen are the rows of the arrays, except in the contacts    *)
(* tab from getContatos, which empties listContact without a reload, until  *)
(* its answer, or for good when the query fails; and then the array is      *)
(* empty.  So no snapshot, of a leaked listener or not, no query and no tab *)
(* change makes didSelectItemAt open the chat of another person than the    *)
(* one whose row was tapped.  What can happen over the emptied array is     *)
(* that the first row opens the add-contact dialogue, as if it were the     *)
(* last, and any other an index out of range.                              *)
RowsInSync ==
    /\ face # CurrentRows =>
           screenContact /\ listContact = << >> /\ (loads # << >> \/ failed)
    /\ opened[2] \in Peers => opened[1] = opened[2]

(* The listeners alive are the one conversasListener refers to and one for  *)
(* every time the conversations tab was tapped while it was selected, when  *)
(* the handle of the running listener was overwritten: the contacts tab     *)
(* stops only the last.                                                     *)
LeaksAreRepeatedTaps ==
    Cardinality(active) <= repeats + (IF screenContact THEN 0 ELSE 1)

(* A contact is listed twice only when getContatos was called with a query  *)
(* of an earlier call still on its way: both answers are appended.          *)
DuplicatesNeedOverlap ==
    (\E i, j \in DOMAIN listContact : i # j /\ listContact[i] = listContact[j]) => overlap

(* A contact whose document this device has, by a query or by an            *)
(* acknowledged save, is listed in the contacts tab when no query is on its *)
(* way and no success alert is up, unless a query failed or the alert whose *)
(* "Ok" reloads the contacts could not be presented.  A save still in the   *)
(* queue promises nothing: the server may refuse it, and salvarContato lets *)
(* that pass without a word.                                               *)
KnownContactsListed ==
    (/\ screenContact
     /\ loads = << >>
     /\ alert # "success"
     /\ ~lost)
    => \A p \in known : \E i \in DOMAIN listContact : listContact[i] = p

(* The view never stays behind its arrays, as every answered query and every *)
(* snapshot reloads it; and while the conversations are selected, every     *)
(* conversation of the server is shown in the end, however often the tab    *)
(* was tapped or left, unless the client has given up the listener of the   *)
(* last tap with an error.                                                  *)
HomeScreenCatchesUp ==
    /\ []<>(trap \/ failed \/ face = CurrentRows)
    /\ []<>(trap \/ screenContact \/ handle \notin active \/ face = Documents(conversas))
=============================================================================
