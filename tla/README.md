# A verification project for *Message*

*Message* is an iOS chat application (Swift, UIKit) on top of Firebase: Auth for
accounts, Firestore for profiles, contacts, messages and conversation previews,
Storage for profile photos. There is no server code of its own; whatever order
and consistency its data have is the doing of the controllers in
`src/Message/Message/Controller` and of the Firestore client they call. This
directory holds TLA+ models of the parts of it where order and consistency can
go wrong, the TLC configurations that check them, and TLAPS proofs about the
core.

Paths below are relative to `src/Message/Message/` unless they start with `src/`
or `Pods/` (that is, `src/Message/Pods/`).

## 1. The system

### Components

| Component | State it keeps | Operations | Hard behaviour | What makes it correct |
|---|---|---|---|---|
| **Sending a message** (`Controller/Message/ChatViewController.swift` 96-111, 186-224) | none: four Firestore documents per message | `actionPushMessage` issues two `addDocument` (the copies in both mailboxes) and two `setData` (the previews in both conversation lists), unbatched, without completion | crashes between the writes, resends, refusals, two devices at a time | writes are stored in the order of issue; previews do not dangle; authors keep their order; replies come after what they answer, in date and preview; mailboxes agree |
| **Firestore client, write path** (vendored: `Pods/FirebaseFirestore/Firestore/core/src`) | mutation queue on disk, write pipeline of at most 10 | save, send, acknowledge, drop on a permanent error, resend | stream broken with responses outstanding; restart | at-least-once, in order |
| **Contact and preview cards** (`Model/Contact.swift`, `Model/MessageModel.swift` and their users) | copies of id, name, photo in profiles, contacts, previews, lists, chat screens | copied by `salvarContato`, `getContatos`, the previews of a message, the opening of a chat | copies of copies; a profile load nobody waits for; one dictionary for two previews | the id leads to the peer; nobody shows another's name or photo; names are not lost |
| **Home screen** (`Controller/Message/MessageListViewController.swift`, `View/Message/ScreenHomeMessage`, `.../ListNavigation`) | `screenContact`, `listaConversas`, `listContact`, `conversasListener`, the rows counted by the collection view | tab taps, listener callback, contact query, row taps | arrays change without a reload; overlapping queries; listeners whose handle is overwritten | rows match arrays; a tap opens the row shown; the list catches up |
| **Adding a contact** (`Controller/ContatoController.swift`, `View/Alert/Alert.swift`) | none but closures and a presented alert | own-e-mail check, lookup by e-mail, save, success alert that reloads | a save refused without a word; success arriving while the screen cannot present | a contact saved is listed |
| **Chat screen** (`ChatViewController`, `View/Message/ChatView/*`) | `listaMensagens`, `mensagensListener`, own name and photo, text field, send button | open, listen, show, send, leave | listener error after the array was emptied; late profile | rows match the array; what was typed is what is sent |
| **Login** (`Controller/Login`, `View/Login`) | Firebase Auth user; an auth-state listener per login screen | sign in, auth callback that presents the home screen | listeners never removed; a modal alert in the way | one home screen for the user signed in |
| **Registration** (`Controller/Register`, `View/Register`) | account, then profile document | create account, write profile | profile lost after the account exists; the alert object is nil; a button judged before the last edit | an account lacks its profile only through a fault |
| **Own profile** (`Controller/DetailUser`, `View/Detail User`) | photo shown, photo stored | load, pick, upload, sign out | late load over a fresh pick; two uploads racing; three remote calls of which one reports a failure | the screen shows, the document names and the storage holds the last pick |
| **Cells and images** (`View/Message/MessageListCollectionViewCell`, `CustomImageView`, `ChatMessage`) | image per cell | asynchronous image load | cell reused before the load ends | a cell shows its person |
| **Delegates** (`AppDelegate.swift`, `SceneDelegate.swift`) | root navigation | set-up; the scene callbacks are empty | none | - |

### How they interact

Calls go down (screen -> controller -> Firestore) and answers come back as
closures on the main queue; views call controllers through delegate protocols.
There are no threads of the application's own, so the interleavings that matter
are those of main-queue callbacks and taps, of the devices with each other at
the server, and of the Firestore client's worker queue with crashes. Screens
share no memory: the home screen hands a `Contact` to a chat screen when it
pushes it, and everything else they share is in Firestore.

Documents: `usuarios/<u>` (profile), `usuarios/<a>/contatos/<u>`,
`mensagens/<a>/<b>/<auto id>` (the mailbox of `a` with `b`),
`conversas/<a>/ultimas_conversas/<b>` (the preview of `b` in the list of `a`).

## 2. The modules

| Module | Kind | Models |
|---|---|---|
| `MessageFanOut` | component | sending a message through client, disk, stream and server |
| `OrderedFanOut` | abstract specification | what sending promises, without queues and clocks |
| `MessageFanOutProofs` | proofs | theorems about `MessageFanOut` |
| `ChatScreen` | composition | one user's chat screen on top of `MessageFanOut` |
| `ContactCards` | component | the copies of names and photos |
| `ConversationList` | component | home screen and add-contact dialogue |
| `Session` | component | sign-in, registration, sign-out and the screens they lead to |
| `Directory` | component | accounts, profile documents, the lookup by e-mail |
| `ImageView` | operators | an image view and the one load it waits for |
| `CellReuse` | component | photos in reused cells, on `ImageView` |
| `Profile` | component | the own photo: load, picks, uploads, on `ImageView` |
| `ChatScreenProofs`, `ContactCardsProofs`, `ConversationListProofs`, `SessionProofs`, `DirectoryProofs`, `CellReuseProofs`, `ProfileProofs` | proofs | theorems about these components |
| `MC...` | instances | users, messages, peers, cells for TLC |

Definitions keep the names of the source. `PROJECT.json` names the lines each
definition stands for. Definitions introduced as mutants are plausible
mistakes in one definition; no other definition uses them.

### MessageFanOut

`log[u]` lists the writes issued by the device of `u`; three cursors
(`persisted`, `applied`, `acked`) say how far each has come:

| Action | Code |
|---|---|
| `ActionPushMessage` | the whole button handler: the four calls only enqueue, so no callback of the main queue comes in between |
| `WriteLocally` | the worker queue saves the next write (`local_store.cc` `WriteLocally`) |
| `Commit` | the server applies the next write of the pipeline (`remote_store.cc`, `CanAddToWritePipeline`, depth `kMaxPendingWrites`) and dates it; `SalvarConversa` is what it does to a preview |
| `Acknowledge` | `OnWriteStreamMutationResult`: the batch leaves the queue |
| `Refuse` | `HandleWriteError`, permanent: the oldest write is dropped; the application passed no handler |
| `BreakStream` | `OnWriteStreamClose`, transient: the pipeline is written again after the next handshake. The vendored client does not resume a write stream (`write_stream.cc`), so writes already applied are applied, and dated, again |
| `Crash` | process death: writes not yet on disk are gone |

Server state is the commit time of every document (`stamp`, 0 if absent) and
the message a preview names (`preview`). `addDocument` chooses the id in the
client, so a resend meets the same document. `refused` and two more history
variables, which `ActionPushMessage` records and no guard reads, say what was the
case when: `kept[m]` holds the documents of other authors that the server had when
`m` was sent, so that its author may have seen them, without those that had to be
sent again since (`BreakStream` and `Crash` take out what is `InFlight`); `basis[m]`
holds those of them whose author's client had the acknowledgement already, which are
never sent again.

Abstracted: text of messages, the card fields of previews (those are
`ContactCards`), reads (those are `ChatScreen`). One device per user. Self-chats
(`From[m] = To[m]`) are admitted.

### OrderedFanOut and the refinement

A message is a sequence of writes with a fate each: `unsent`, `pending`,
`stored`, `refused`, `lost`. Writes leave `pending` in order, and what is lost
is a tail. `MessageFanOut!fate` is the refinement mapping (`Contract == INSTANCE
OrderedFanOut WITH fate <- ...`, `ImplementsContract`); steps of the client,
acknowledgements and resends are stutters.

### ChatScreen

Extends `MessageFanOut` with the screen of one user (`chat`, picked from `Chats`
at the start): its life cycle, its listener, the array, the rows the table
counted, the text field and the button. A snapshot holds `View`, which is what
the client computes from its cache (`cached`) and the mutation queue (`Pending`):
all that is `Matching`, ordered by `data`, where a write that has no server date
yet sorts by an estimate behind all that have one. `View` is stated as the list in
which nothing is behind what is older; the proofs show that there is one and only
this one. An acknowledged write keeps its pending
form (`held`) until the listener has seen it come back
(`ShouldWaitForSyncedDocument` in `view.cc`); `Watch` is the server bringing the
query up to date. `ViewWillDisappear` may be followed by `Popped` or by
`ViewWillAppear`, as a swipe can be taken back. `ListenerFailed` is the callback
with an error, which empties the array first. `SendBtnPressed` is
`actionPushMessage` and then `startPushMessage`, in one step of the main queue.
`Elsewhere` is everything other clients and the server do.

### ContactCards

Cards are records `[id, nome, foto]`; a name is its user or blank, a photo a
version number of its user. `nome` is the name in each profile, which may have
been registered empty: the button is judged when a field ends editing, not when
its text changes. `foto` counts uploads, `contatos`/`conversas` are the
server's documents, `listContact`/`listaConversas` what each home screen last
loaded, `chat[a]` the open chat screen with the contact it was given and what it
knows of its own user. `OpenFromConversa` goes through `ContactFromConversa`,
the convenience initialiser of `Contact`; `Previews` is the dictionary of
`actionPushMessage` with its fields overwritten between the two calls.
`AddContact` may copy an old photo, as the query may be answered from the
cache. Delivery is immediate here: losing or delaying a preview is the subject
of `MessageFanOut`. `early` is a history variable: who has sent without a
profile loaded.

### ConversationList

One action per tap and per callback, all on the main queue. `face` is what the
collection view counted and drew at its last `reloadData`; `Rows` is what the
data source methods would say now. `loads` are contact queries on their way;
`active`, `due`, `fresh` describe the client's listeners and what they may
still deliver; `handle` is `conversasListener`. `saves` are the contacts saved on
this device that the server has not answered for, in the order of the mutation
queue: queries show them already (`Saving`), and each is acknowledged
(`SaveAcknowledged`, which presents the alert that reloads) or refused
(`SaveRefused`: the client takes the document back, and `salvarContato` does nothing
about the error). `Reload` writes `face`; actions
that change an array without it leave `face` behind. `ShowRow` and
`DidSelectItem` read the arrays at the row's index and set `trap` when the index
is out of range, which stops the process. `Present` drops an alert when another
one is up; from under another screen it may or may not be shown. `AddRow` is the
row behind the contacts that adds one.

Abstracted: names and photos, highlight and layout, `alertStateError` texts. A
lookup finds one profile or none (e-mail addresses of accounts are unique). A
failed listener is given up by the client (`active` loses it), as its callback
ignores `erro`.

### Session

`navs` are the navigation controllers over one another, each a sequence of
screens; a home or profile screen carries the user it took from `currentUser`.
`currentUser` belongs to the auth client, and `told[n]` is what the listener of the
n-th login screen was last called with, as `FIRAuth.m` keeps it per listener:
`Unheard` before its first call, which every new listener gets once with the user
then current (`AddStateListener`). `Accepted` answers a request on the auth queue,
`AuthStateChanged` is what the main queue does about it later, for all listeners
that have heard of another user or of none yet. Only one of them can present: a controller that presents something
already, an alert or the next navigation controller, refuses (`CanPresent`), and
a login screen covered by the registration screen may or may not be let.
`ActionSairConta` pushes a new login screen (`Leave`). `ForcedSignOut` is
`signOutByForceWithUserID` of the auth client. `Relaunch` ends the process; the
current user survives in the keychain. `OpenProfileOfNobody` is the profile
screen asking for `document("")`, which stops it.

### Directory

`account` and `profile` of a user come apart between `AccountCreated`,
`CreateUserAnswered` (which writes the profile, without a completion) and
`ProfileStored`; `Crash`, `CreateUserFailed` and `ProfileRefused` are the ways to
cut a registration short, recorded in `broken`. The mutation queue of a user is
sent only while that user is signed in. `spelling` says whether a user typed
capitals: the profile keeps them, the auth service does not, so
`EmailUsuarioLogado` is in lower case and `Matches` compares exactly. `Found` is
the query over `usuarios`, of the server or of the cache; `report` remembers the
last thing a lookup said and under which circumstances.

### ImageView, CellReuse, Profile

`ImageView` holds an image view as a record of what is shown and what is loading,
with the operations the application uses: setting `image` leaves a load on its
way alone, `sd_setImage` cancels it, and clears the view for want of a
placeholder. `CellReuse` hands cells of a pool to rows of other persons
(`CellForItem`, through `SetupCustomImageView`), while loads are answered, fail,
fail for good, and photos leave the memory cache. `Profile` is the profile
screen: the document load (`DocumentRead`, then `ConfigDetailScreen` on the main
queue), picks (`ImagePickerController`) and uploads, each three remote calls
(`PutData`, `DownloadURL`, `UpdateData`) that other uploads, the back button and
the end of the process may come between.

## 3. The runs

| Run | Instance | Question |
|---|---|---|
| `fan_out` | two messages of one author, two faults, pipeline 5, with fairness | do documents, mailboxes, dates and preview keep the order of sends through crashes, refusals and resends? does the invariant of the proofs hold, is `OrderedFanOut` implemented, does every write settle or die? |
| `replies` | a message each way, two faults, pipeline 2 | do previews lead to messages, is an answer dated after what it answers, does its preview stay? |
| `chat_same` | the same two messages as in `fan_out`, one fault, pipeline 5, on the author's or the reader's screen, with fairness | do rows match the array, are messages shown in order, does none vanish, and does an open screen end up with the server's messages in the server's order? |
| `chat_cross` | a message each way, one fault, pipeline 1, one screen, no listener errors | where can the list have an answer behind what it answers? |
| `cards` | two users, one upload each, symmetric | do cards keep their user through all copies? |
| `cards_sender_photo` | as above | **violated**: the photo is lost on the way through a conversation |
| `cards_early_send` | as above | **violated**: a message sent early leaves a nameless preview |
| `home_screen` | two peers, two queries, two listeners, one lookup, with fairness | rows against arrays, taps, the index trap, doubled and missing contacts, leaked listeners, and that the screen catches up |
| `session` | two accounts, two requests, three navigation controllers, with fairness | whose screens are shown, and does a sign-in reach the home screen? |
| `directory` | two users, one lookup each, symmetric | who can be found, what does a lookup say, whom does it save? |
| `cells` | two cells, three persons, with fairness | which photo stands beside which name, and does the right one arrive? |
| `profile` | three picks | do screen, document and storage agree on the last photo? |

What they show:

- The order of the four calls in `actionPushMessage` is what protects the data:
  `StoredInOrder` and `NoDanglingPreview` fail as soon as two of them are
  swapped. The sender's own mailbox is never behind the recipient's.
- Restamping by resends does not disturb the order of one author's messages
  (`AuthorOrderKept`; `ShownInOrder` on the screen), but it can disturb that of
  question and answer. `ReplyFollowsBasis` and `AnswerStaysOnTop` hold for every
  question the server held when the answer was sent, whether or not its author's
  client had been told, *unless that question is sent again later*: it is then
  dated after its answer for good, and its preview comes back over the answer's.
  Nothing in the application prevents that, and the window is open from the
  commit of the question until its acknowledgement. A question acknowledged
  before it is answered (`basis`) is never affected.
- On the screen (`ReplyShownBelow`) the same exception remains, and one more, which
  passes: who sees an answer to a message that their own device still has as
  pending sees it behind that message, since a pending write sorts behind every
  date of the server, until the acknowledgement and a snapshot.
- What is *not* promised, and not claimed: that the preview shows the newer of two
  messages that *cross*, that crossing messages have the same order in both
  mailboxes, or that the reader sees two messages in order while one of them is
  still to be dated anew: `ShownInOrder` names that case.
- The table of the chat differs from its array only after a listener error
  (`RowsMatchMessages`), which is where `cellForRowAt` can index an empty array;
  swiping back and forth does no harm.
- Ids survive every copy (`ConversationsLeadToPeer`), photos do not
  (`SenderPreviewShowsRecipient`), and a blank name can be traced to its bearer
  (`BlankNamesComeFromTheirUser`).
- The home screen can stop on an index out of range, and only in one place:
  in the contacts tab between `listContact.removeAll()` and the answer
  (`RowsInSync`). A tap never opens another person's chat, because an emptied
  array has no row to confuse; the first row may open the add-contact dialogue
  there, as if it were the row behind the contacts.
- Every contact doubled goes back to overlapping `getContatos` calls
  (`DuplicatesNeedOverlap`). A contact this device has from a query or an
  acknowledged save is missing from the list only after a failed query or an alert
  that could not be presented (`KnownContactsListed`); a save that the server
  refuses leaves neither a contact nor a word about it.
- Listeners leak only by tapping the conversations tab while it is selected
  (`LeaksAreRepeatedTaps`), and leaked ones do no harm to what is shown.
- Login listeners pile up, home screens do not (`ScreensOfSession`). A screen of
  somebody who is not signed in is left by a forced sign-out or by two requests
  on their way at a time; a sign-in that stays on the login screen goes back to
  an alert or a registration screen in the way (`SignedInReachesHome`). Signing out
  and in again as the same user before any listener has heard of it is no
  exception: the listener of the new login screen has its first call ahead.
- A profile is missing only after a fault (`UnprofiledWereCutShort`); a contact is
  somebody else's stored profile, except that who registered with capitals can
  add himself (`ContactsAreOthersProfiles`). The comment at
  `Controller/ContatoController.swift:34` says "verificar se existe o usuario no
  firebase"; without a connection it is the cache that is asked, and a registered
  user reported as not registered. `NotRegisteredOnlyUnseen` says that this, and
  a profile that has not arrived, are the only cases.
- A cell never shows a photo beside the name of another person *with* a photo; in
  the row of a person without one, the photo of the row before may still come up
  (`RowsShowTheirPerson`).
- The late answer of the profile load may cover a photo just picked, and two
  uploads at a time may leave document and storage on different photos; nothing
  else does (`ScreenShowsLastPick`, `UrlIsLastSaved`).

### Bounds

- `MaxFaults = 2` in `fan_out` and `replies`: the first fault may leave applied,
  unacknowledged writes, and the second may hit their resend. With a screen on
  top one fault is enough to date a message anew under it.
- `MaxPipeline` stands for `kMaxPendingWrites = 10`. Five is the least at which
  the two copies of the first message and the first copy of the second are
  in flight together and one resend dates them all anew, with room for more, and
  it is still smaller than the eight writes, so that the pipeline fills and
  refills. In `replies` two, so that both copies or both previews of a question
  may be repeated; in `chat_cross` one, as the only writes its screen shows are one
  copy of each message. The proofs hold for every depth.
- `ListenerErrors` is off in `chat_cross`: an error empties the list, which then has
  no order, and stops its listener; what a returning listener finds is explored by
  leaving the screen and coming back. `chat_same` has the errors.
- Two messages are the fewest that can cross, answer or follow one another; two
  users the fewest for a chat. `MaxPhotos = 1` tells "old", "new" and "none"
  apart. On the chat screen nothing is typed once every message of the instance
  is sent.
- Two peers are the fewest rows that can be taken for one another.
  `MaxLoads = 2` is the fewest for an overlap, `MaxListeners = 2` for a leak.
  `MaxAdds = 1` bounds lookups; saves and alerts then overlap with tab changes.
- `MaxRequests = 2` sign-ins at a time are the fewest that overtake each other;
  `MaxNavs = 3` lets a second user sign in over the first and sign out again.
- `MaxLookups = 1` on each of two devices; spellings, connections and faults vary
  freely. A lookup is answered on its own, so a second one on the same device
  adds nothing but interleavings.
- Two cells and three persons let a cell be handed on twice while another keeps a
  person from it. `MaxPicks = 3` lets an upload fail between two that succeed.
- `CHECK_DEADLOCK FALSE` is set where the bounds or the trap end the behaviour:
  every message sent and settled, every navigation controller used, or the
  process stopped.

### Fairness

- `MessageFanOut!Fairness`: the worker queue runs what is enqueued, the client
  retries with backoff as long as the mutation queue is not empty
  (`ShouldStartWriteStream`), and a reachable server answers. Nothing is assumed
  of users, crashes or refusals.
- `ChatScreen!ChatFairness`: the client of an author goes on with its writes as long
  as one of them can be saved, sent or acknowledged (`Deliver`), and the client of the
  viewer with the listener as long as it has something to fetch or to deliver.
  Nothing is assumed of opening, leaving, typing or sending, nor that a failed
  listener comes back.
- `ConversationList!Fairness`: the client answers every query, with a result or an
  error, and delivers due snapshots to each listener it serves. Nothing is
  assumed of taps or alerts.
- `Session!FairSpec`: the main queue runs the notification of the listeners.
  Requests may stay unanswered.
- `CellReuse!FairSpec`: the image loader answers every load, with an image or an
  error.

### What is assumed of code outside the application

Vendored code is modelled where the application relies on it: the write path and
the view of a query from `Pods/FirebaseFirestore`, the notification of listeners
and the forced sign-out from `Pods/FirebaseAuth`, `sd_setImage` from
`Pods/SDWebImage`. Not in the repository, and taken from how the application uses
them: the servers (`Commit` dates a write when it is applied; the auth service
keeps e-mail addresses in lower case and unique; a download URL names the photo
the object held when it was asked for) and UIKit (a controller that presents
something refuses to present more; a swipe back that is taken back runs
`viewWillDisappear` and `viewWillAppear`). `PROJECT.json` marks what rests on them
alone as external.

## 4. The proofs

Every safety property that a passing run checks, action properties and the
refinement included, is also a theorem, for every value of the constants that the
assumptions admit:

- `FanOutAssumption`: `From` and `To` are functions into the users, `None` is no
  message, the pipeline has room for at least one write.
- `ChatAssumption`: a chat screen is of one user with another; the message ids are
  finitely many. They are strings of a fixed length over a fixed alphabet
  (`CreateAutoId`, `Pods/FirebaseFirestore/Firestore/core/src/util/autoid.cc:40`),
  and a list of infinitely many documents has no order to speak of. Listeners may or
  may not be given errors.
- `CardsAssumption`: `None` and `Blank` are no users, and differ.
- `ListAssumption`: peers are finitely many and numbered (the numbers stand for the
  order of document ids), the markers of the other rows are no peers, the bounds are
  numbers, and one listener can be registered at least, as `viewDidLoad` does.
- `SessionAssumption`, `CellAssumption`, `ProfileAssumption`, `DirectoryAssumption`:
  bounds are numbers (positive where the screen could not be reached otherwise), and
  markers of absence are no users, persons or photos.

Each argument has the same shape: an invariant stronger than the properties, one
lemma per action or per group of actions that leaves it alone, and a short
derivation per property. No property below is inductive by itself unless the text
says so.

### MessageFanOutProofs

| Theorem | Statement |
|---|---|
| `TypeCorrect` | `Spec => []TypeOK` |
| `InductiveInvariant` | `Spec => []Inductive` |
| `FanOutInOrder` | `Spec => []StoredInOrder` |
| `PreviewsLead` | `Spec => []NoDanglingPreview` |
| `AuthorsKeepOrder` | `Spec => []AuthorOrderKept` |
| `LaterPreviewStays` | `Spec => []PreviewNotOvertaken` |
| `RepliesFollow` | `Spec => []ReplyFollowsBasis` |
| `AnswersStayOnTop` | `Spec => []AnswerStaysOnTop` |
| `MailboxesConverge` | `Spec => []MailboxesAgree` |
| `SendPathKeepsContract` | `Spec => ImplementsContract` |

`StoredInOrder` speaks of the server, but a commit keeps it only because the log
lists the writes of a message in order and once each (`LogInv`), because what the
server has was on disk and so survives a crash (`OnDisk`), and because everything
before the `applied` cursor was stored or refused (`Answered`); `PrefixStored` is
the generalisation from one message to the whole log. Dates need `StampInv`: on
the present stream, dates follow the log; a resend restarts at `acked` and dates
everything from there later than all before. `ReplyFollowsBasis` needs `BasisInv`:
what is in `kept` lies before the `applied` cursor of its author, and `Commit` dates
only what lies behind it; the two steps that move the cursor back, `BreakStream` and
`Crash`, take what they pass out of `kept` (`HistoryStep`), and what is in `basis`
has left the mutation queue and is out of their reach (`SettledStep`,
`SettledNotInFlight`). `PreviewInv` ties a preview to a stored write of the same path,
and `PreviewLatest` to the one with the last date, whichever device wrote it: since
the answer's preview is dated after both of the question's, the question's cannot be
the one shown, which is `AnswerStaysOnTop`.

`PreviewNotOvertaken` is kept by `PreviewOrder`, the same statement about what the
present stream has applied instead of what has been acknowledged. Two of its cases
are the point of it: a resend may put an earlier preview back, but then the
cursors are back with it; and the four writes of a message stand together in the
log (`Contiguous`), so that a preview of one message is never applied between the
two of another. `Inductive` is the conjunction of all of this, of `RefusedSettled`
(what was refused has left the queue) and of `MemoryWhole`; TLC checks it in
`fan_out`.

The refinement: `fate` is a function of the state, so it is enough that every step
changes it as a step of `OrderedFanOut` does, or not at all. A push makes four
writes pending (`PushSends`), a first commit stores the first pending one
(`NextIsDue`, `CommitStores`: everything before it in the log is stored or
refused), a refusal concerns the first pending one (`RefuseRefuses`) or one that was
stored before, and a crash loses a tail of each message (`CrashLoses`):
`MemoryWhole` says that a message of which something is only in memory has all
four writes in the log, so what a crash cuts off is everything from some write on.
Acknowledgements, resends and writes to disk are stutters.

### ChatScreenProofs

| Theorem | Statement |
|---|---|
| `ChatInvariant` | `ChatSpec => []ChatInductive` |
| `ChatTypeCorrect` | `ChatSpec => []ChatTypeOK` |
| `RowsAreListed` | `ChatSpec => []RowsMatchMessages` |
| `OrderIsShown` | `ChatSpec => []ShownInOrder` |
| `RepliesShownBelow` | `ChatSpec => []ReplyShownBelow` |
| `ListedStays` | `ChatSpec => NothingVanishes` |
| `CaughtUpIsMailbox` | `ChatSpec => []CurrentListsMailbox` |
| `ScreenRefinesSendPath` | `ChatSpec => Spec` |
| `PreviewsLeadUnderScreen`, `RepliesFollowUnderScreen`, `AnswersStayUnderScreen`, `ScreenKeepsContract` | `NoDanglingPreview`, `ReplyFollowsBasis`, `AnswerStaysOnTop`, `ImplementsContract` with a screen on top |

A screen takes nothing from the send path: each of its steps is one of
`MessageFanOut!Next` or leaves `vars` alone (`ScreenStep`), so every theorem above
holds under it.

The order on the screen is the order of two kinds of dates, those of the server and
estimates, and a message changes from one kind to the other when it is
acknowledged, while its neighbours do not. `ChatInductive` adds to `Inductive` what
makes these changes harmless:

- `Dates`: no date was given twice, and the cache has a date only from the copy it
  is of. Hence the order is strict and total on what the query matches
  (`NewerOrders`), and since that is finite it can be listed (`Sortable`,
  `ViewLists`): a snapshot has every matching document, none behind an older one.
- `CaughtUp`: of what was acknowledged the cache has the last date.
- `LateTogether`: if the cache is late for a write, it is late for everything the
  stream applied behind it. A resend dates a whole stretch of the log anew, never
  one write out of the middle.
- `HeldTogether`: what is acknowledged behind a message held back is held back too;
  with `LateTogether` this is why an acknowledged message never overtakes an older
  one that is still shown in its pending form.
- `RepliesBehind`: a reply stands in the viewer's log behind what it answers; once
  the cache has the reply, it has what was answered as well, with an earlier date, if
  that is the viewer's own (which it might lag behind, were it not acknowledged
  before the cache was filled), and holds the reply back if it holds that.

From these, `ViewOwnOrder` and `ViewReplies` say that every snapshot lists the
viewer's own messages as they were typed, and replies in front of what they answer.
A list that is not replaced stays so because the places of its messages in the log
do not change (`OldPlaces`), and everything in it is still found by the query or was
refused (`MatchingKept`), which is `NothingVanishes`. TLC was used to try
`ChatInductive` on the instances of `chat_same` and `chat_cross`.

`CurrentListsMailbox` is the half of `ScreenCatchesUp` that needs no fairness: a
screen whose cache has the date of every copy, that holds nothing back, shows the
last snapshot and whose device has nothing left to send, lists the mailbox of the
server, nothing twice, in the order of the server's dates. With the log drained no
date is an estimate any more, so the order of the list is the order of the dates the
cache has, which are those of the server; and what the query matches is the mailbox
(`MailboxIs`), whatever crashes, resends and refusals led there.

### ContactCardsProofs

`CardsTyped`, `ConversationsLead`, `CardsShowTheirUsers` and `BlankNamesExplained`.
The properties speak of documents and lists; they are kept only because of what
the chat screens hold in between, which `CardsInv` adds: the contact of a screen
shows somebody else than its user, and what it knows of its own user is its own
user's or nothing. Photos only become more, so a card that was right stays right
(`CollectionKept`, `ScreensKept`). `BlankInv` traces blanks the same way: a screen
may hold a nameless contact only if its bearer is excused, and itself only if it
was registered without a name or nothing was loaded, in which case
`actionPushMessage` makes its user an early sender.

### ConversationListProofs

`TypeCorrect`, `RowsAreCurrent`, `OverlapDuplicates`, `KnownAreListed`,
`LeaksCounted`, `ServedTabsAreCurrent`. `RowsInSync` is close to inductive and carried by the actions that
reload. The others need what is on its way: `Single` (without an overlap there is
at most one query, it finds the array empty, and the array has no doubles),
`Pending` (what is known and not listed will come with a query or with
the alert that reloads, or was lost), `Handled` (of the active listeners all but
`conversasListener` were paid for with a repeated tap). That an answer holds each
contact once, and all of them, is `InOrder` and `DocumentsOf`.

`ServedTabIsCurrent` is the half of `HomeScreenCatchesUp` that needs no fairness:
with the listener of the last tap alive and without a snapshot to deliver, the
conversations tab shows the documents of the server. `Served` carries it: the
snapshot of any listener leaves none that may start with an older one of the cache,
a later change is owed to every listener, and a tap makes its own listener the one
in use, which then owes a snapshot.

### SessionProofs

`TypeCorrect`, `ScreensFollowSession`, `HeardOfAreHindered`. A navigation controller has one of a few
shapes (`RootNavs`, `HomeNavs`), and all but the first begin with a home screen
(`NavsOK`), so that touches need not be followed one by one through arbitrary
stacks. `TopFits` speaks of all screens of the top controller, those the back
button leads to included; the property only of the one on top. It is kept when the
auth state changes because only a login screen can present (`Covered`).
`HeardOfIsHindered` is the part of `SignedInReachesHome` that speaks of one state: if
the listener of the newest login screen has heard of somebody and the screen is still
in sight, an alert or its registration screen was in the way. It is kept because a
login screen comes into sight with a listener that has heard of nobody, and the call
that finds nothing in the way covers it with a home screen.

### DirectoryProofs

`TypeCorrect`, `OnlyFaultsUnprofile`, `ContactsHaveProfiles`,
`NotRegisteredMeansUnseen`. An aborted registration marks its user
(`AbortStep`), and nobody looks himself up under the address he is signed in with
(`OwnNeverAsked`).

### CellReuseProofs, ProfileProofs

`CellReuseProofs`: `TypeCorrect`, `RowsShowTheirPersons`, `PhotosShownOrComing`. The
strengthening,
`LoadsForRow`, says what a cell in a row may still be loading: its own person's
photo, or, in the row of a person without one, what it was loading when it got the
row. The same fact keeps `PhotoShownOrComing`, the half of `PhotosArrive` that needs
no fairness: an answer cannot replace the photo of a row by that of another.

`ProfileProofs`: `TypeCorrect`, `DocumentNamesLastSaved`, `LastPickStays`. As long as
no two uploads cross, only that of the last photo can be on its way (`Alone`), what it
stored and the URL it was given are its own (`Owned`), and document and storage
follow it (`LastSaved`, `Held`); `ScreenOK` says that while the last pick is to stay,
nothing is loading that could cover it.

### Only model-checked

- `EventuallySettled`, `ScreenCatchesUp`, `HomeScreenCatchesUp`,
  `SignedInReachesHome`, `PhotosArrive`: liveness under fairness is beyond this
  prover. Of four of them the part that speaks of one state is proved
  (`CaughtUpIsMailbox`, `ServedTabsAreCurrent`, `HeardOfAreHindered`,
  `PhotosShownOrComing`).

## 5. Findings

1. `Model/Contact.swift:29` assigns `urlImage` to itself; the parameter is
   called `urlImagem`. A chat opened from a conversation has no photo, and the
   next message erases the photo in the sender's own preview, which
   `ChatViewController.swift:210` says holds the data of the recipient.
2. `ChatViewController.swift:220` may run before (or without) the answer of
   `recuperarDadosUsuarioLogado`; the recipient's preview, which line 217 says
   holds the data of the sender, is then nameless.

More places where the application says or does what its user would not expect
are stated as exceptions inside properties that hold: the offline lookup
(`NotRegisteredOnlyUnseen`), the self-contact (`ContactsAreOthersProfiles`), a question
dated after its answer by a resend (`ReplyFollowsBasis`, `AnswerStaysOnTop`), and the
save of a contact refused in silence (`KnownContactsListed`).

## 6. Plan

The components are modelled as far as their state goes, and their safety is proved.
What is left:

1. What two screens of one chat show each other: when both have caught up and
   nothing is pending, they list the same messages, refused and lost copies apart
   (`MailboxesAgree`, on the screen).

## 7. Not modelled

- Layout, fonts, animation, sounds, keyboard, constraints: most of the
  application's own three thousand lines; no state the properties speak of.
- The enabling of the login and registration buttons by their text fields: in
  `Session` a request may be made at any time, and one with unusable texts is
  rejected. The one consequence that outlives the screen, a profile without a
  name, is in `ContactCards`.
- The scene callbacks and the Core Data stack of the delegates: empty, or
  generated and unused. The root screen they set up is `Init` of `Session`.
- The cells of the chat and the cell that adds a contact: they show the texts they
  are given.
- The vendored pods beyond the facts named in section 3. They are some 650 000
  lines (gRPC, BoringSSL, abseil, leveldb, the rest of Firebase), of which the
  application sees an interface of a few calls: a model of them would not be one
  of this program. Of Firestore: garbage collection, transactions, limbo
  documents, multiple tabs; security rules are not in the repository.
