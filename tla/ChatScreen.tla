------------------------------ MODULE ChatScreen ------------------------------
(***************************************************************************)
(* The chat screen of one user, on top of the send path of all of them.    *)
(*                                                                         *)
(* ChatViewController listens to mensagens/<Viewer>/<Other>, ordered by    *)
(* "data", newest first, from viewWillAppear to viewWillDisappear.  What a *)
(* snapshot holds is computed by the Firestore client from its cache and   *)
(* its mutation queue: writes of this device sort, until they are          *)
(* acknowledged and seen again, behind everything the server has dated.    *)
(* Callbacks run on the main queue; one that would find a newer view of    *)
(* the query behind it is merged with the next.                            *)
(***************************************************************************)
EXTENDS MessageFanOut, FiniteSets

Seqs == INSTANCE SequencesExt

CONSTANTS
    Chats,          \* the screens considered: whose screen, and a chat with whom
    ListenerErrors  \* bound: whether listeners may be given an error at all

\* Message ids are strings of a fixed length, CreateAutoId: there are finitely many.
ASSUME ChatAssumption ==
    /\ Chats \subseteq {p \in Users \X Users : p[1] # p[2]}
    /\ IsFiniteSet(Messages)
    /\ ListenerErrors \in BOOLEAN

VARIABLES
    chat,           \* the screen of this behaviour
    screen,         \* "closed", "open", or "leaving" while it is swiped away
    listening,      \* a snapshot listener of the screen is served
    listaMensagens, \* the array, newest first
    rows,           \* the rows of the table as of its last reloadData
    failed,         \* the array was emptied by an error, no snapshot since
    cached,         \* device: the date the cache has for a message, 0 if none
    held,           \* device: acknowledged, but shown as pending until seen again
    field,          \* inputMessageTextField: "" or "text"
    sendBtn         \* sendBtn.isEnabled

table == <<listaMensagens, rows, failed>>
cache == <<cached, held>>
input == <<field, sendBtn>>
chatVars == <<vars, chat, screen, listening, table, cache, input>>

Viewer == chat[1]   \* idUsuarioLogado
Other == chat[2]    \* contato.id

-----------------------------------------------------------------------------
(* What the client shows of the mailbox.                                   *)

Exchanged == {m \in Messages : {From[m], To[m]} = {Viewer, Other}}
Copy(m) == IF From[m] = Viewer THEN <<m, 1>> ELSE <<m, 2>>

\* In the mutation queue of this device.
Pending(m) ==
    \E i \in acked[Viewer] + 1 .. persisted[Viewer] : log[Viewer][i] = Copy(m)

Position(m) == CHOOSE i \in DOMAIN log[Viewer] : log[Viewer][i] = Copy(m)

\* Mutant: order(by: "data") without descending.
Older(m, n) ==
    LET estimated(k) == Pending(k) \/ k \in held IN
    IF estimated(m) /\ estimated(n) THEN Position(m) < Position(n)
    ELSE estimated(n) \/ (~estimated(m) /\ cached[m] < cached[n])

\* Mutant: local writes sort by what the cache has for them.
NewerCached(m, n) == cached[m] > cached[n]

\* order(by: "data", descending: true): an estimated date sorts behind every
\* date of the server, and among each other they sort by the time of the write.
Newer(m, n) ==
    LET estimated(k) == Pending(k) \/ k \in held IN
    IF estimated(m) /\ estimated(n) THEN Position(m) > Position(n)
    ELSE estimated(m) \/ (~estimated(n) /\ cached[m] > cached[n])

\* What the query finds in cache and mutation queue.
Matching == {m \in Exchanged : cached[m] # 0 \/ Pending(m)}

\* The documents of a snapshot: nothing is listed behind what is older.
View == CHOOSE q \in Seqs!SetToSeqs(Matching) :
            \A i, j \in DOMAIN q : i < j => ~Newer(q[j], q[i])

-----------------------------------------------------------------------------
ChatInit ==
    /\ Init
    /\ chat \in Chats
    /\ screen = "closed"
    /\ listening = FALSE
    /\ listaMensagens = << >>
    /\ rows = << >>
    /\ failed = FALSE
    /\ cached = [m \in Messages |-> 0]
    /\ held = {}
    /\ field = ""
    /\ sendBtn = FALSE

\* Mutant: the listener is not removed.
UnlistenNot == UNCHANGED <<listening, held>>

\* remove() drops the view of the query, and with it what it held back.
Unlisten == listening' = FALSE /\ held' = {}

\* addListenerRecuperarMensagens: the listener of before has been removed.
AddListenerRecuperarMensagens == listening' = TRUE

\* The controller is gone; the next one starts with its initial values.
Released ==
    /\ listaMensagens' = << >> /\ rows' = << >> /\ failed' = FALSE
    /\ field' = "" /\ sendBtn' = FALSE

(* Opened from the home screen: viewDidLoad, then viewWillAppear.           *)
OpenChat ==
    /\ screen = "closed"
    /\ screen' = "open"
    /\ AddListenerRecuperarMensagens
    /\ UNCHANGED <<vars, chat, table, cache, input>>

(* viewWillDisappear: the back button, or a swipe that may be taken back.   *)
ViewWillDisappear ==
    /\ screen = "open"
    /\ screen' = "leaving"
    /\ Unlisten
    /\ UNCHANGED <<vars, chat, table, cached, input>>

Popped ==
    /\ screen = "leaving"
    /\ screen' = "closed"
    /\ Released
    /\ UNCHANGED <<vars, chat, listening, cache>>

\* Mutant: the listener is registered in viewDidLoad only.
ViewWillAppearUnheard ==
    /\ screen = "leaving"
    /\ screen' = "open"
    /\ UNCHANGED <<vars, chat, listening, table, cache, input>>

(* The swipe is taken back: viewWillAppear, without viewDidLoad.            *)
ViewWillAppear ==
    /\ screen = "leaving"
    /\ screen' = "open"
    /\ AddListenerRecuperarMensagens
    /\ UNCHANGED <<vars, chat, table, cache, input>>

\* Mutant: the array is replaced under the table.
ReloadNot == listaMensagens' = View /\ UNCHANGED <<rows, failed>>

\* Mutant: snapshot.documentChanges instead of snapshot.documents.
ReloadChanges ==
    LET changes == SelectSeq(View, LAMBDA m : ~ \E i \in DOMAIN rows : rows[i] = m) IN
    listaMensagens' = changes /\ rows' = changes /\ failed' = FALSE

\* The callback with a snapshot: removeAll, append all, reloadTableView.
Reload == listaMensagens' = View /\ rows' = View /\ failed' = FALSE

Snapshot ==
    /\ listening
    /\ <<listaMensagens, rows>> # <<View, View>>
    /\ Reload
    /\ UNCHANGED <<vars, chat, screen, listening, cache, input>>

(* The callback with an error: the array is emptied and nothing reloaded;   *)
(* the client has given up the listener.                                    *)
ListenerFailed ==
    /\ ListenerErrors
    /\ listening
    /\ listaMensagens' = << >>
    /\ failed' = TRUE
    /\ Unlisten
    /\ UNCHANGED <<vars, chat, screen, rows, cached, input>>

(* The server brings the query up to date, in one consistent snapshot.      *)
Watch ==
    /\ listening
    /\ cached' = [m \in Messages |-> IF m \in Exchanged THEN stamp[Copy(m)] ELSE 0]
    /\ held' = {}
    /\ UNCHANGED <<vars, chat, screen, listening, table, input>>

(* The text field: textFieldDidChange follows every edit.  Bound: nothing is *)
(* typed once every message of the instance is sent.                        *)
TextFieldDidChange ==
    /\ screen = "open"
    /\ \E m \in Messages \ sent : From[m] = Viewer /\ To[m] = Other
    /\ field' \in {"", "text"} \ {field}
    /\ sendBtn' = (field' # "")
    /\ UNCHANGED <<vars, chat, screen, listening, table, cache>>

\* startPushMessage
StartPushMessage == field' = "" /\ sendBtn' = FALSE

(* sendBtnPressed: actionPushMessage, then startPushMessage.                *)
SendBtnPressed(m) ==
    /\ screen = "open"
    /\ sendBtn
    /\ From[m] = Viewer /\ To[m] = Other
    /\ ActionPushMessage(m)
    /\ StartPushMessage
    /\ UNCHANGED <<chat, screen, listening, table, cache>>

(* The oldest write of this device is acknowledged: the cache takes its     *)
(* date, unless the listener has already seen it; the view keeps the        *)
(* pending form for now (ShouldWaitForSyncedDocument).                      *)
AcknowledgeOwn ==
    LET w == log[Viewer][acked[Viewer] + 1] IN
    /\ Acknowledge(Viewer)
    /\ IF w[2] = 1 /\ w[1] \in Exchanged /\ cached[w[1]] < stamp[w]
       THEN /\ cached' = [cached EXCEPT ![w[1]] = stamp[w]]
            /\ held' = IF listening THEN held \cup {w[1]} ELSE held
       ELSE UNCHANGED cache
    /\ UNCHANGED <<chat, screen, listening, table, input>>

(* The process dies; cache and mutation queue are on disk.                  *)
CrashOwn ==
    /\ Crash(Viewer)
    /\ screen' = "closed"
    /\ Unlisten
    /\ Released
    /\ UNCHANGED <<chat, cached>>

(* A row the table still counts scrolls into sight and cellForRowAt reads   *)
(* the array behind its end: the process stops.                             *)
ShowRow ==
    /\ screen # "closed"
    /\ Len(rows) > Len(listaMensagens)
    /\ CrashOwn

\* Everything else the clients and the server do leaves the screen alone.
Offscreen == UNCHANGED <<chat, screen, listening, table, cache, input>>

Elsewhere ==
    /\ \/ \E m \in Messages : From[m] # Viewer /\ ActionPushMessage(m)
       \/ \E u \in Users : WriteLocally(u) \/ Commit(u) \/ Refuse(u) \/ BreakStream(u)
       \/ \E u \in Users \ {Viewer} : Acknowledge(u) \/ Crash(u)
    /\ Offscreen

ChatNext ==
    \/ OpenChat
    \/ ViewWillDisappear
    \/ Popped
    \/ ViewWillAppear
    \/ Snapshot
    \/ ListenerFailed
    \/ Watch
    \/ TextFieldDidChange
    \/ \E m \in Messages : SendBtnPressed(m)
    \/ AcknowledgeOwn
    \/ CrashOwn
    \/ ShowRow
    \/ Elsewhere

ChatSpec == ChatInit /\ [][ChatNext]_chatVars

\* What the client of u does by itself for the writes of u.
Deliver(u) ==
    \/ (WriteLocally(u) \/ Commit(u)) /\ Offscreen
    \/ IF u = Viewer THEN AcknowledgeOwn ELSE Acknowledge(u) /\ Offscreen

(* The client keeps the listener current and runs its callback, and those of *)
(* the users who have something to send go on with it.                      *)
ChatFairness ==
    /\ WF_chatVars(Watch \/ Snapshot)
    /\ \A u \in {From[m] : m \in Messages} : WF_chatVars(Deliver(u))

FairChatSpec == ChatSpec /\ ChatFairness

-----------------------------------------------------------------------------
(* Properties.                                                             *)

(* Every variable of the screen has its type, and listener, array and rows  *)
(* exist only as the life cycle of the view allows.  sendBtn is enabled for *)
(* a text and nothing else, in spite of a field that is emptied by the      *)
(* program, which textFieldDidChange does not hear of: no message is empty. *)
ChatTypeOK ==
    /\ screen \in {"closed", "open", "leaving"}
    /\ listening \in BOOLEAN /\ (listening => screen = "open")
    /\ listaMensagens \in Seq(Exchanged) /\ rows \in Seq(Exchanged)
    /\ failed \in BOOLEAN
    /\ cached \in [Messages -> Nat]
    /\ held \subseteq {m \in Exchanged : cached[m] # 0}
    /\ field \in {"", "text"} /\ sendBtn = (field # "")

(* cellForRowAt indexes listaMensagens by the rows of the last reloadData:  *)
(* the two differ only after an error emptied the array, and until the next *)
(* snapshot or the end of the screen.  Swiping back and forth, sending and  *)
(* every order of snapshots keep them equal.                                *)
RowsMatchMessages == rows # listaMensagens => failed

(* A message once shown stays shown while the screen is open: neither the   *)
(* acknowledgement, nor a resend, nor the return of a listener takes it     *)
(* away, only a refusal or an error.                                        *)
NothingVanishes ==
    [][screen = "open" /\ screen' = "open" =>
        \/ failed'
        \/ \A m \in Seqs!ToSet(listaMensagens) \ Seqs!ToSet(listaMensagens') :
               Copy(m) \in refused]_chatVars

(* The viewer's own messages are listed in the order they were typed at any *)
(* moment, whichever of them are pending, held back, acknowledged or dated  *)
(* anew by a resend; the other's are out of order only for a while: one of  *)
(* them is still to be dated anew, or the screen has not seen the last of   *)
(* the server's dates.  Messages the server refused apart.                  *)
ShownInOrder ==
    \A i, j \in DOMAIN listaMensagens :
        LET m == listaMensagens[i]
            n == listaMensagens[j]
            sentBefore == \E a, b \in DOMAIN log[From[m]] :
                /\ a < b
                /\ log[From[m]][a] = Copy(m) /\ log[From[m]][b] = Copy(n)
        IN  (i < j /\ sentBefore)
            => \/ {Copy(m), Copy(n)} \cap refused # {}
               \/ /\ From[m] = Other
                  /\ \/ ~Settled(Copy(n))
                     \/ \E k \in {m, n} : cached[k] # stamp[Copy(k)]
                     \/ listaMensagens # View

(* No message is listed before a reply sent when the server held it, not    *)
(* while either of them is pending, acknowledged or held back.  Two         *)
(* exceptions are left.  A message that was still unacknowledged when it    *)
(* was answered may have been sent, and dated, again; and the viewer's own, *)
(* if it was unacknowledged when the other answered, may stand before the   *)
(* answer until it is acknowledged and a snapshot has been shown.           *)
ReplyShownBelow ==
    \A i, j \in DOMAIN listaMensagens :
        LET n == listaMensagens[i]
            m == listaMensagens[j]
        IN  i < j /\ Copy(n) \in kept[m]
            => /\ From[n] = Viewer /\ From[m] = Other
               /\ Copy(n) \notin basis[m]
               /\ Pending(n) \/ listaMensagens # View

(* An open screen catches up: in the end it lists the messages of the       *)
(* mailbox, all of them and in the order of the server's dates, unless an   *)
(* error has stopped its listener or it is left again and again.            *)
ScreenCatchesUp ==
    []<>(\/ screen # "open"
         \/ failed
         \/ listaMensagens = Seqs!SetToSortSeq(Mailbox(Viewer, Other),
                                LAMBDA m, n : stamp[Copy(m)] > stamp[Copy(n)]))
=============================================================================
