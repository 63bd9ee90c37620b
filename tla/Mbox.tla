-------------------------------- MODULE Mbox --------------------------------
(***************************************************************************)
(* Mailboxes (lib/ukmpi): a ring of size + 1 slots between two semaphores. *)
(* Threads post and fetch with or without waiting; an interrupt handler    *)
(* posts and fetches with the _try_isr variants, in one go.                *)
(***************************************************************************)
EXTENDS Semaphore, FiniteSets, Sequences

CONSTANTS
  readsem, writesem,    \* the two semaphores
  Size,                 \* the size given to uk_mbox_create
  Msg,                  \* the messages
  Handler,              \* the interrupt handler, as a receiver
  None                  \* no message

ASSUME MboxAssumption ==
  /\ readsem \in Queue /\ writesem \in Queue /\ readsem # writesem
  /\ Size \in Nat /\ None \notin Msg
  /\ Handler \notin Thread /\ IsFiniteSet(Thread)

VARIABLES
  msgs,         \* m->msgs
  readpos,      \* m->readpos
  writepos,     \* m->writepos
  sending,      \* the message of a thread's post, None in a fetch
  got           \* the message a receiver fetched last

boxVars == <<msgs, readpos, writepos, got>>
mboxVars == <<vars, boxVars, sending>>

(* m->len *)
len == Size + 1

(* Mutant: as many tokens as slots. *)
InitialCount_Len == [s \in Queue |-> IF s = writesem THEN len ELSE 0]

(* What uk_mbox_create gives the semaphores. *)
InitialCount == [s \in Queue |-> IF s = writesem THEN Size ELSE 0]

(* uk_mbox_create *)
MboxInit ==
  /\ SemInit(InitialCount)
  /\ msgs \in [0..Size -> {None}]
  /\ readpos = 0 /\ writepos = 0
  /\ sending = [t \in Thread |-> None]
  /\ got = [r \in Thread \cup {Handler} |-> None]

(* Entering an operation on semaphore s: waiting, with a timeout, or trying. *)
Enter(t, s) ==
  /\ Down(t, s) \/ DownTry(t, s) \/ \E d \in Timeouts : DownTo(t, s, d)
  /\ UNCHANGED <<msgs, readpos, writepos>>

(* uk_mbox_post, uk_mbox_post_to, uk_mbox_post_try *)
PostCall(t, m) ==
  /\ Enter(t, writesem)
  /\ sending' = [sending EXCEPT ![t] = m]
  /\ UNCHANGED got

(* uk_mbox_recv, uk_mbox_recv_to, uk_mbox_recv_try *)
RecvCall(t) ==
  /\ Enter(t, readsem)
  /\ UNCHANGED <<got, sending>>

(* Mutant: the slot is taken and the position advanced in the wrong order. *)
Put_Ahead(m) ==
  /\ writepos' = (writepos + 1) % len
  /\ msgs' = [msgs EXCEPT ![writepos'] = m]

(* The part of _do_mbox_post with interrupts disabled *)
Put(m) ==
  /\ msgs' = [msgs EXCEPT ![writepos] = m]
  /\ writepos' = (writepos + 1) % len

(* The part of _do_mbox_recv with interrupts disabled *)
Get(r) ==
  /\ got' = [got EXCEPT ![r] = msgs[readpos]]
  /\ readpos' = (readpos + 1) % len

(* A post that has its token, and the uk_semaphore_up(&m->readsem) to come *)
DoPost(t) ==
  /\ at[t] = "got" /\ on[t] = writesem
  /\ Put(sending[t])
  /\ Goto(t, "up")
  /\ sending' = [sending EXCEPT ![t] = None]
  /\ UNCHANGED <<on, waiting, left, timer, count, readpos, got>>

(* A fetch that has its token, and the uk_semaphore_up(&m->writesem) to come *)
DoRecv(t) ==
  /\ at[t] = "got" /\ on[t] = readsem
  /\ Get(t)
  /\ Goto(t, "up")
  /\ UNCHANGED <<on, waiting, left, timer, count, msgs, writepos, sending>>

(* Mutant: the token goes back to the semaphore it came from. *)
DoUp_Same(t) ==
  /\ at[t] = "up"
  /\ UpCount(t, on[t])
  /\ got' = [got EXCEPT ![t] = None]
  /\ UNCHANGED <<msgs, readpos, writepos, sending>>

(* uk_semaphore_up of the other semaphore, first half; the message fetched  *)
(* is the caller's from here on.                                            *)
DoUp(t) ==
  /\ at[t] = "up"
  /\ UpCount(t, IF on[t] = writesem THEN readsem ELSE writesem)
  /\ got' = [got EXCEPT ![t] = None]
  /\ UNCHANGED <<msgs, readpos, writepos, sending>>

(* The call returns without a message. *)
Fail(t) ==
  /\ at[t] = "failed"
  /\ Goto(t, "idle")
  /\ sending' = [sending EXCEPT ![t] = None]
  /\ UNCHANGED <<on, waiting, left, timer, count, boxVars>>

(* uk_mbox_post_try_isr *)
PostIsr(m) ==
  /\ count[writesem] > 0
  /\ Put(m)
  /\ count' = [count EXCEPT ![writesem] = @ - 1, ![readsem] = @ + 1]
  /\ at' = Woken(readsem)
  /\ EmptyQueue(readsem)
  /\ UNCHANGED <<on, left, readpos, got, sending>>

(* uk_mbox_recv_try_isr *)
RecvIsr ==
  /\ count[readsem] > 0
  /\ Get(Handler)
  /\ count' = [count EXCEPT ![readsem] = @ - 1, ![writesem] = @ + 1]
  /\ at' = Woken(writesem)
  /\ EmptyQueue(writesem)
  /\ UNCHANGED <<on, left, msgs, writepos, sending>>

(* The steps inside the semaphores *)
SemStep(t) ==
  /\ Waits(t) \/ TakeToken(t) \/ UpWake(t) \/ Timer(t)
  /\ UNCHANGED <<boxVars, sending>>

Step(t) == SemStep(t) \/ DoPost(t) \/ DoRecv(t) \/ DoUp(t) \/ Fail(t)

Passing == Tick /\ UNCHANGED <<boxVars, sending>>

MboxNext ==
  \/ \E t \in Thread : RecvCall(t) \/ Step(t) \/ \E m \in Msg : PostCall(t, m)
  \/ \E m \in Msg : PostIsr(m)
  \/ RecvIsr \/ Passing

MboxSpec == MboxInit /\ [][MboxNext]_mboxVars

-----------------------------------------------------------------------------
(* The positions and slots stay in range, and the semaphores hold together. *)
MboxTypeOK ==
  /\ at \in [Thread -> WaitAt \cup {"got", "failed", "wake", "up"}]
  /\ count \in [Queue -> 0..len]
  /\ msgs \in [0..Size -> Msg \cup {None}]
  /\ readpos \in 0..Size /\ writepos \in 0..Size
  /\ sending \in [Thread -> Msg \cup {None}]
  /\ got \in [Thread \cup {Handler} -> Msg \cup {None}]

(* The assertions of _do_mbox_recv and _do_mbox_post, readpos # writepos,   *)
(* hold whenever a thread or the interrupt handler is about to run them,    *)
(* whatever posts and fetches come between its token and its slot.          *)
AssertsHold ==
  /\ \A t \in Thread : at[t] = "got" =>
       IF on[t] = readsem THEN readpos # writepos ELSE readpos # (writepos + 1) % len
  /\ count[readsem] > 0 => readpos # writepos
  /\ count[writesem] > 0 => readpos # (writepos + 1) % len

(* The messages in the ring, oldest first *)
Queued ==
  LET n == (writepos - readpos + len) % len
  IN  [i \in 1..n |-> msgs[(readpos + i - 1) % len]]

F == INSTANCE Fifo WITH Receiver <- Thread \cup {Handler}, queue <- Queued

(* The ring and its semaphores are a bounded queue: messages arrive once,   *)
(* in order and unchanged, whichever threads and interrupts post and fetch. *)
ImplementsFifo == F!Spec

(* No token is lost between the two semaphores: whenever no thread is in    *)
(* the middle of an operation, asleep or outside, readsem counts the        *)
(* messages in the ring and writesem the free slots.                        *)
TokensComeBack ==
  (\A t \in Thread : at[t] \in {"idle", "blocked"}) =>
    /\ count[readsem] = Len(Queued)
    /\ count[writesem] = Size - Len(Queued)
=============================================================================
