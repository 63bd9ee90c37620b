-------------------------------- MODULE Fifo --------------------------------
(* What a mailbox promises (uk/mbox.h): a queue of at most Size messages    *)
(* that hands every posted message to one receiver, in the order posted.    *)
EXTENDS Naturals, Sequences

CONSTANTS
  Receiver,     \* who fetches messages
  Msg,          \* the messages
  Size,         \* the capacity
  None          \* nothing received

VARIABLES
  queue,        \* the messages posted and not yet fetched
  got           \* the message each receiver fetched last

Init == queue = <<>> /\ got = [r \in Receiver |-> None]

Post(m) ==
  /\ Len(queue) < Size
  /\ queue' = Append(queue, m)
  /\ UNCHANGED got

Recv(r) ==
  /\ queue # <<>>
  /\ got' = [got EXCEPT ![r] = Head(queue)]
  /\ queue' = Tail(queue)

(* The receiver is done with its message. *)
Forget(r) == got' = [got EXCEPT ![r] = None] /\ UNCHANGED queue

Next ==
  \/ \E m \in Msg : Post(m)
  \/ \E r \in Receiver : Recv(r) \/ Forget(r)

Spec == Init /\ [][Next]_<<queue, got>>
=============================================================================
