---------------------------- MODULE OrderedFanOut ----------------------------
(***************************************************************************)
(* What sending a message promises, without clients, queues or clocks.     *)
(*                                                                         *)
(* A message is a fixed sequence of writes.  They are all issued at once,  *)
(* they take effect one after the other, the server may turn any of them   *)
(* down, and a dying process may take with it the writes from some point   *)
(* of the sequence on.  There is no atomicity: an observer may find any    *)
(* prefix of the sequence, but never a write without the ones before it.   *)
(***************************************************************************)
EXTENDS Integers

CONSTANTS
    Messages,
    Steps          \* 1 .. n, the writes of a message in the order of issue

VARIABLE fate      \* of every write

Fates == {"unsent", "pending", "stored", "refused", "lost"}

Writes == Messages \X Steps

Init == fate = [w \in Writes |-> "unsent"]

Send(m) ==
    /\ \A k \in Steps : fate[<<m, k>>] = "unsent"
    /\ fate' = [w \in Writes |-> IF w[1] = m THEN "pending" ELSE fate[w]]

\* It is the turn of write k of message m.
Due(m, k) ==
    /\ fate[<<m, k>>] = "pending"
    /\ \A j \in Steps : j < k => fate[<<m, j>>] # "pending"

Store(m, k) ==
    /\ Due(m, k)
    /\ fate' = [fate EXCEPT ![<<m, k>>] = "stored"]

Refuse(m, k) ==
    /\ Due(m, k)
    /\ fate' = [fate EXCEPT ![<<m, k>>] = "refused"]

\* Pending writes are lost, with each of them the rest of its message.
Lose(S) ==
    /\ \A m \in Messages, k \in Steps :
         <<m, k>> \in S => /\ fate[<<m, k>>] = "pending"
                           /\ \A j \in Steps : j > k => <<m, j>> \in S
    /\ fate' = [w \in Writes |-> IF w \in S THEN "lost" ELSE fate[w]]

Next ==
    \/ \E m \in Messages : Send(m)
    \/ \E m \in Messages, k \in Steps : Store(m, k) \/ Refuse(m, k)
    \/ \E S \in SUBSET Writes : Lose(S)

Spec == Init /\ [][Next]_fate
=============================================================================
