---------------------------- MODULE MessageFanOut ----------------------------
(***************************************************************************)
(* The send path of the chat application.                                  *)
(*                                                                         *)
(* ChatViewController.actionPushMessage stores one message as four         *)
(* independent Firestore writes, issued in a fixed order and without a     *)
(* batch, a transaction or a completion handler:                           *)
(*                                                                         *)
(*   1  mensagens/<sender>/<recipient>/<auto id>     the sender's copy     *)
(*   2  mensagens/<recipient>/<sender>/<auto id>     the recipient's copy  *)
(*   3  conversas/<sender>/ultimas_conversas/<recipient>   sender preview  *)
(*   4  conversas/<recipient>/ultimas_conversas/<sender>   other preview   *)
(*                                                                         *)
(* Each write is handed to the worker queue of the Firestore client, saved *)
(* in the mutation queue on disk, sent through a pipeline of bounded depth *)
(* and acknowledged in order.  The process may crash, the stream may break *)
(* with acknowledgements outstanding (everything unacknowledged is then    *)
(* sent, and applied, again) and the server may refuse a write for good.   *)
(*                                                                         *)
(* One device per user.  log[u] lists the writes of u in the order they    *)
(* were issued, so that positions in it are the batch ids of the mutation  *)
(* queue; three cursors divide it:                                         *)
(*                                                                         *)
(*   1 .. acked | .. applied | .. persisted | .. Len(log)                  *)
(*   settled      in flight    on disk        only in memory               *)
(***************************************************************************)
EXTENDS Integers, Sequences

CONSTANTS
    Users,         \* user ids, each signed in on one device
    Messages,      \* message ids; a message is sent at most once
    From,          \* From[m]: idUsuarioLogado of the device that sends m
    To,            \* To[m]: contato.id of the chat m is sent from
    None,          \* the preview document does not exist
    MaxPipeline,   \* kMaxPendingWrites of the write pipeline (10 in the code)
    MaxFaults      \* bound: crashes, stream breaks and refusals altogether

ASSUME FanOutAssumption ==
    /\ From \in [Messages -> Users]
    /\ To \in [Messages -> Users]
    /\ None \notin Messages
    /\ MaxPipeline \in Nat \ {0}
    /\ MaxFaults \in Nat

VARIABLES
    sent,       \* messages for which actionPushMessage has run
    kept,       \* history: what of others the server held when m was sent, not sent again since
    basis,      \* history: what of it had left its author's queue by then
    log,        \* the writes each device still remembers, in issue order
    persisted,  \* how many of them are in the mutation queue on disk
    applied,    \* how many the server has applied on the present stream
    acked,      \* how many have left the mutation queue
    refused,    \* writes the server rejected with a permanent error
    stamp,      \* server: commit time of the document of each write, 0 if absent
    preview,    \* server: ultimaMensagem of conversas/a/ultimas_conversas/b
    clock,      \* server: the last commit time given out
    faults      \* how many faults have happened

device == <<log, persisted, applied, acked>>
server == <<stamp, preview, clock>>
history == <<kept, basis>>
vars == <<sent, history, device, refused, server, faults>>

-----------------------------------------------------------------------------
(* The four writes of a message.                                           *)

Steps == 1 .. 4
Writes == Messages \X Steps

\* Mutant: both copies of the message are filed under the sender.
OwnerAlwaysSender(w) == IF w[2] \in {1, 2, 3} THEN From[w[1]] ELSE To[w[1]]

\* The path of a write: whose collection it is in, and under which peer.
Owner(w) == IF w[2] \in {1, 3} THEN From[w[1]] ELSE To[w[1]]
Peer(w)  == IF w[2] \in {1, 3} THEN To[w[1]] ELSE From[w[1]]
Path(w)  == <<Owner(w), Peer(w)>>
IsPreview(w) == w[2] \in {3, 4}

\* Two messages that share a preview document.
SamePreview(v, w) ==
    IsPreview(v) /\ IsPreview(w) /\ v[1] # w[1] /\ Path(v) = Path(w)

\* Mutants: the calls of actionPushMessage in another order.
FanOutRecipientFirst(m) == << <<m, 2>>, <<m, 1>>, <<m, 3>>, <<m, 4>> >>
FanOutPreviewsFirst(m) == << <<m, 3>>, <<m, 4>>, <<m, 1>>, <<m, 2>> >>
FanOutRecipientLast(m) == << <<m, 1>>, <<m, 3>>, <<m, 4>>, <<m, 2>> >>

FanOut(m) == << <<m, 1>>, <<m, 2>>, <<m, 3>>, <<m, 4>> >>

\* A log with a write in it, and one with all four writes of a message.
InLog(s, w) == \E i \in 1 .. Len(s) : s[i] = w
WholeIn(s, m) == \A k \in Steps : InLog(s, <<m, k>>)

Stored(w) == stamp[w] # 0

\* A write that has left its author's mutation queue: it will not be sent again.
Settled(w) ==
    \E i \in 1 .. acked[From[w[1]]] : log[From[w[1]]][i] = w

\* One that has been sent on the present stream, or needs to be sent no more.
Applied(w) ==
    \E i \in 1 .. applied[From[w[1]]] : log[From[w[1]]][i] = w

\* What of other authors the server holds: the author of m may have seen it.
Answerable(m) == {w \in Writes : Stored(w) /\ From[w[1]] # From[m]}

-----------------------------------------------------------------------------
Init ==
    /\ sent = {}
    /\ kept = [m \in Messages |-> {}]
    /\ basis = [m \in Messages |-> {}]
    /\ log = [u \in Users |-> << >>]
    /\ persisted = [u \in Users |-> 0]
    /\ applied = [u \in Users |-> 0]
    /\ acked = [u \in Users |-> 0]
    /\ refused = {}
    /\ stamp = [w \in Writes |-> 0]
    /\ preview = [p \in Users \X Users |-> None]
    /\ clock = 0
    /\ faults = 0

(* The send button: both salvarMensagem and both salvarConversa calls.  The *)
(* four calls only enqueue work, so one step issues all of them.            *)
ActionPushMessage(m) ==
    LET u == From[m] IN
    /\ m \notin sent
    /\ sent' = sent \cup {m}
    /\ kept' = [kept EXCEPT ![m] = {w \in Answerable(m) : Applied(w)}]
    /\ basis' = [basis EXCEPT ![m] = {w \in Answerable(m) : Settled(w)}]
    /\ log' = [log EXCEPT ![u] = @ \o FanOut(m)]
    /\ UNCHANGED <<persisted, applied, acked, refused, server, faults>>

(* The worker queue runs one block: LocalStore::WriteLocally commits the    *)
(* next write to the mutation queue on disk.                                *)
WriteLocally(u) ==
    /\ persisted[u] < Len(log[u])
    /\ persisted' = [persisted EXCEPT ![u] = @ + 1]
    /\ UNCHANGED <<sent, history, log, applied, acked, refused, server, faults>>

\* Mutant: setData replaced by a create, which leaves an existing preview.
CreateConversa(w) ==
    IF IsPreview(w) /\ preview[Path(w)] = None
    THEN [preview EXCEPT ![Path(w)] = w[1]] ELSE preview

\* The previews after write w: setData replaces the document.
SalvarConversa(w) ==
    IF IsPreview(w) THEN [preview EXCEPT ![Path(w)] = w[1]] ELSE preview

\* Mutant: the pipeline counts the whole backlog, not what is in flight.
CanAddUnlessBacklogged(u) == persisted[u] - acked[u] < MaxPipeline

\* CanAddToWritePipeline
CanAddToWritePipeline(u) == applied[u] - acked[u] < MaxPipeline

\* Mutant: "data" is the time of the device.
DeviceTimestamp(w) == CHOOSE i \in DOMAIN log[From[w[1]]] : log[From[w[1]]][i] = w

\* FieldValue.serverTimestamp(), filled in when the write is committed.
ServerTimestamp(w) == clock + 1

(* The server applies the next write of the pipeline: addDocument stores    *)
(* the message under its client-made id with a fresh server timestamp,      *)
(* setData replaces the preview document.                                   *)
Commit(u) ==
    LET w == log[u][applied[u] + 1] IN
    /\ applied[u] < persisted[u]
    /\ CanAddToWritePipeline(u)
    /\ applied' = [applied EXCEPT ![u] = @ + 1]
    /\ clock' = clock + 1
    /\ stamp' = [stamp EXCEPT ![w] = ServerTimestamp(w)]
    /\ preview' = SalvarConversa(w)
    /\ UNCHANGED <<sent, history, log, persisted, acked, refused, faults>>

\* Mutant: a batch leaves the mutation queue as soon as it is on disk.
AcknowledgeOnSend(u) ==
    /\ acked[u] < persisted[u]
    /\ acked' = [acked EXCEPT ![u] = @ + 1]
    /\ UNCHANGED <<sent, history, log, persisted, applied, refused, server, faults>>

(* OnWriteStreamMutationResult: the response to the oldest write in the     *)
(* pipeline removes its batch from the mutation queue.                      *)
Acknowledge(u) ==
    /\ acked[u] < applied[u]
    /\ acked' = [acked EXCEPT ![u] = @ + 1]
    /\ UNCHANGED <<sent, history, log, persisted, applied, refused, server, faults>>

(* A permanent error: responses arrive in order, so the write it concerns is *)
(* the oldest in the pipeline; the client drops it and sends the rest again. *)
(* The application passes no completion handler: nobody hears of it.         *)
Refuse(u) ==
    /\ faults < MaxFaults
    /\ acked[u] = applied[u]
    /\ applied[u] < persisted[u]
    /\ refused' = refused \cup {log[u][applied[u] + 1]}
    /\ applied' = [applied EXCEPT ![u] = @ + 1]
    /\ acked' = [acked EXCEPT ![u] = @ + 1]
    /\ faults' = faults + 1
    /\ UNCHANGED <<sent, history, log, persisted, server>>

\* Sent to the server and not acknowledged.
InFlight(u) == {log[u][i] : i \in acked[u] + 1 .. applied[u]}

(* The stream closes with a transient error while responses are on their    *)
(* way: the whole pipeline is written again after the next handshake, which *)
(* does not resume from the stream token.                                   *)
BreakStream(u) ==
    /\ faults < MaxFaults
    /\ acked[u] < applied[u]
    /\ applied' = [applied EXCEPT ![u] = acked[u]]
    /\ kept' = [m \in Messages |-> kept[m] \ InFlight(u)]
    /\ faults' = faults + 1
    /\ UNCHANGED <<sent, basis, log, persisted, acked, refused, server>>

(* The process dies and is started again: what the worker queue had not yet *)
(* written to disk is gone, the mutation queue is sent again from its head. *)
Crash(u) ==
    /\ faults < MaxFaults
    /\ log' = [log EXCEPT ![u] = SubSeq(@, 1, persisted[u])]
    /\ applied' = [applied EXCEPT ![u] = acked[u]]
    /\ kept' = [m \in Messages |-> kept[m] \ InFlight(u)]
    /\ faults' = faults + 1
    /\ UNCHANGED <<sent, basis, persisted, acked, refused, server>>

Next ==
    \/ \E m \in Messages : ActionPushMessage(m)
    \/ \E u \in Users : WriteLocally(u)
    \/ \E u \in Users : Commit(u)
    \/ \E u \in Users : Acknowledge(u)
    \/ \E u \in Users : Refuse(u)
    \/ \E u \in Users : BreakStream(u)
    \/ \E u \in Users : Crash(u)

Spec == Init /\ [][Next]_vars

(* The worker queue drains, the client retries with backoff for as long as  *)
(* the mutation queue is not empty, and a reachable server answers.         *)
Fairness ==
    \A u \in Users :
        WF_vars(WriteLocally(u)) /\ WF_vars(Commit(u)) /\ WF_vars(Acknowledge(u))

FairSpec == Spec /\ Fairness

-----------------------------------------------------------------------------
(* Derived views of the server state.                                      *)

\* The messages in mensagens/a/b.
Mailbox(a, b) ==
    {m \in Messages : \E k \in {1, 2} :
        /\ Stored(<<m, k>>)
        /\ Owner(<<m, k>>) = a
        /\ Peer(<<m, k>>) = b}

\* The client of u has nothing left to send.
Drained(u) == acked[u] = Len(log[u])

-----------------------------------------------------------------------------
(* Properties.                                                             *)

(* Every variable has its type and the cursors of every device are ordered: *)
(* what salvarMensagem/salvarConversa enqueue moves through the client one  *)
(* way only.                                                                *)
TypeOK ==
    /\ sent \in SUBSET Messages
    /\ kept \in [Messages -> SUBSET Writes]
    /\ basis \in [Messages -> SUBSET Writes]
    /\ log \in [Users -> Seq(Writes)]
    /\ persisted \in [Users -> Nat]
    /\ applied \in [Users -> Nat]
    /\ acked \in [Users -> Nat]
    /\ refused \in SUBSET Writes
    /\ stamp \in [Writes -> Nat]
    /\ preview \in [Users \X Users -> Messages \cup {None}]
    /\ clock \in Nat
    /\ faults \in 0 .. MaxFaults
    /\ \A u \in Users : /\ acked[u] <= applied[u]
                        /\ applied[u] <= persisted[u]
                        /\ persisted[u] <= Len(log[u])

(* A message never half-arrives out of order: whatever write of it the      *)
(* server holds, the writes actionPushMessage issued before it are held too *)
(* unless the server itself refused them.  In particular the recipient      *)
(* never has a message that is missing from the sender's own mailbox, in    *)
(* spite of crashes between the four writes and of resends.                 *)
StoredInOrder ==
    \A m \in Messages, k \in Steps :
        Stored(<<m, k>>) =>
            \A j \in 1 .. k - 1 : Stored(<<m, j>>) \/ <<m, j>> \in refused

(* A conversation preview (salvarConversa) never names a message that the   *)
(* chat it leads to does not show, unless that copy was refused.            *)
NoDanglingPreview ==
    \A a, b \in Users :
        LET m == preview[<<a, b>>] IN
        m # None => \/ m \in Mailbox(a, b)
                    \/ \E k \in {1, 2} : <<m, k>> \in refused

(* Messages of one author keep their order: once the later of two writes    *)
(* has left the mutation queue, the server timestamps ("data", by which     *)
(* addListenerRecuperarMensagens sorts) are in the order of the sends, in   *)
(* spite of the restamping a resend causes.                                 *)
AuthorOrderKept ==
    \A u \in Users : \A j \in 1 .. acked[u] : \A i \in 1 .. j - 1 :
        \/ log[u][i] \in refused
        \/ log[u][j] \in refused
        \/ stamp[log[u][i]] < stamp[log[u][j]]

(* A reply is dated after what it answers: a document of another author the *)
(* server holds when actionPushMessage runs, so that the sender may have    *)
(* seen it, has an earlier server time than every document of the new       *)
(* message, in both mailboxes.  The exception is a document its       *)
(* author's client has to send again, for want of an acknowledgement when a *)
(* stream broke or a process died: that dates it anew, after the answer.    *)
ReplyFollowsBasis ==
    \A m \in Messages : \A w \in kept[m], k \in Steps :
        Stored(<<m, k>>) => stamp[w] < stamp[<<m, k>>]

Previews(m) == {<<m, 3>>, <<m, 4>>}

(* The two devices write the same two preview documents, but an answer's    *)
(* preview, once there, is never replaced by that of what it answers: with  *)
(* both salvarConversa of n on the server when m was sent, and neither sent *)
(* again, n does not come back over m in either list.                       *)
AnswerStaysOnTop ==
    \A m, n \in Messages : Previews(n) \subseteq kept[m] =>
        \A w \in Previews(m) : Stored(w) => preview[Path(w)] # n

(* The preview is the last settled message of one of its two authors: an    *)
(* author's earlier salvarConversa never stays over a later one that has    *)
(* left the mutation queue.  (Over a later one of the other author it may:  *)
(* AnswerStaysOnTop is about the two of them.)                              *)
PreviewNotOvertaken ==
    \A u \in Users : \A j \in 1 .. acked[u] : \A i \in 1 .. j - 1 :
        SamePreview(log[u][i], log[u][j]) /\ log[u][j] \notin refused
            => preview[Path(log[u][j])] # log[u][i][1]

(* When both clients have nothing left to send, the two mailboxes of a pair *)
(* of users hold the same messages, except those one of whose copies was    *)
(* refused or lost in a crash before it reached the disk.                   *)
MailboxesAgree ==
    \A a, b \in Users :
        Drained(a) /\ Drained(b) =>
            \A m \in Mailbox(a, b) \ Mailbox(b, a) :
                \E k \in {1, 2} :
                    \/ <<m, k>> \in refused
                    \/ ~InLog(log[From[m]], <<m, k>>)

(* Every write issued is eventually settled or dies with the process: the   *)
(* retry logic leaves no message half-delivered for ever on a live device.  *)
EventuallySettled ==
    \A m \in Messages, k \in Steps :
        m \in sent ~>
            \/ Settled(<<m, k>>)
            \/ ~InLog(log[From[m]], <<m, k>>)

-----------------------------------------------------------------------------
(* The inductive invariant: why the properties hold.                       *)

\* A log holds its device's own writes, each once, after the earlier ones of
\* the same message.
LogInv ==
    \A u \in Users : \A i \in 1 .. Len(log[u]) :
        LET w == log[u][i] IN
        /\ From[w[1]] = u
        /\ w[1] \in sent
        /\ \A h \in 1 .. i - 1 : log[u][h] # w
        /\ \A k \in 1 .. w[2] - 1 : \E h \in 1 .. i - 1 : log[u][h] = <<w[1], k>>

\* The server holds only what is on its author's disk.
OnDisk ==
    \A w \in Writes :
        Stored(w) => \E i \in 1 .. persisted[From[w[1]]] : log[From[w[1]]][i] = w

\* Whatever was applied on the present stream was stored or turned down.
Answered ==
    \A u \in Users : \A i \in 1 .. applied[u] :
        Stored(log[u][i]) \/ log[u][i] \in refused

\* Of each log the server holds a prefix, refused writes aside.
PrefixStored ==
    \A u \in Users : \A i \in 1 .. Len(log[u]) :
        Stored(log[u][i]) =>
            \A h \in 1 .. i - 1 : Stored(log[u][h]) \/ log[u][h] \in refused

\* What was applied on the present stream is dated in the order of the log.
StampInv ==
    /\ \A w \in Writes : stamp[w] <= clock
    /\ \A u \in Users : \A j \in 1 .. applied[u] : \A i \in 1 .. j - 1 :
         \/ log[u][i] \in refused
         \/ log[u][j] \in refused
         \/ stamp[log[u][i]] < stamp[log[u][j]]

\* A preview was put there by a stored write with its path.
PreviewInv ==
    \A a, b \in Users :
        LET m == preview[<<a, b>>] IN
        m # None => \E k \in {3, 4} : /\ Stored(<<m, k>>)
                                     /\ Owner(<<m, k>>) = a
                                     /\ Peer(<<m, k>>) = b

\* What was settled when a message was sent is settled; what has not been sent
\* again since is not due to be, and dated before the message.
BasisInv ==
    \A m \in Messages :
        /\ kept[m] # {} => m \in sent
        /\ basis[m] \subseteq kept[m]
        /\ \A w \in basis[m] : Settled(w)
        /\ \A w \in kept[m] : /\ Stored(w) /\ Applied(w)
                               /\ \A k \in Steps :
                                    Stored(<<m, k>>) => stamp[w] < stamp[<<m, k>>]

\* A preview names the message whose salvarConversa is dated last.
PreviewLatest ==
    \A a, b \in Users :
        preview[<<a, b>>] # None =>
            \E w \in Previews(preview[<<a, b>>]) :
                \A v \in Writes :
                    IsPreview(v) /\ Path(v) = <<a, b>> => stamp[v] <= stamp[w]

\* The four calls of one actionPushMessage stand together in the log.
Contiguous ==
    \A u \in Users : \A i, j, h \in 1 .. Len(log[u]) :
        i < j /\ j < h /\ log[u][i][1] = log[u][h][1]
            => log[u][j][1] = log[u][i][1]

\* Of the previews applied on the present stream, the later message's shows.
PreviewOrder ==
    \A u \in Users : \A j \in 1 .. applied[u] : \A i \in 1 .. j - 1 :
        SamePreview(log[u][i], log[u][j]) /\ log[u][j] \notin refused
            => preview[Path(log[u][j])] # log[u][i][1]

\* A refused write has left the mutation queue: it is never applied later.
RefusedSettled == \A w \in refused : Settled(w)

\* A message with a write only in memory has all four in the log.
MemoryWhole ==
    \A u \in Users : \A i \in persisted[u] + 1 .. Len(log[u]) :
        WholeIn(log[u], log[u][i][1])

(* The state actionPushMessage, the client and the server keep between them *)
(* at every step: logs, server and previews agree on the order of issue.    *)
Inductive ==
    /\ TypeOK /\ LogInv
    /\ OnDisk /\ Answered /\ PrefixStored
    /\ StampInv /\ PreviewInv /\ PreviewLatest
    /\ BasisInv
    /\ Contiguous /\ PreviewOrder
    /\ RefusedSettled /\ MemoryWhole

-----------------------------------------------------------------------------
(* The fate of every write, as an observer without access to the queues     *)
(* would tell it.                                                           *)
fate ==
    [w \in Writes |->
        IF Stored(w) THEN "stored"
        ELSE IF w \in refused THEN "refused"
        ELSE IF w[1] \notin sent THEN "unsent"
        ELSE IF InLog(log[From[w[1]]], w) THEN "pending"
        ELSE "lost"]

Contract == INSTANCE OrderedFanOut
            WITH Messages <- Messages, Steps <- Steps, fate <- fate

(* The send path keeps the contract of OrderedFanOut: the four writes of    *)
(* actionPushMessage take effect in order, and what a crash loses of a      *)
(* message is always its tail.                                              *)
ImplementsContract == Contract!Spec
=============================================================================
