----------------------------- MODULE PacketQueue ----------------------------
(***************************************************************************)
(* PacketQueue (include/network.h) with the threads that use it: producers *)
(* that call send() (a stock's OBitStream or a Receiver) and consumers     *)
(* that call next() (the Senders of src/network.cpp).  One step is what a  *)
(* thread does between two points where another thread can come in: it     *)
(* acquires the mutex, releases it, is notified, waits.                    *)
(*                                                                         *)
(* A consumer whose write fails puts its packet back on the way out        *)
(* (ScopeGuard) and its thread ends.  Where the consumer is a stock's      *)
(* IBitStream nothing fails, which is a special case.                      *)
(***************************************************************************)
EXTENDS Packets

CONSTANTS
  Producers, Consumers,  \* threads
  NoThread               \* the mutex is free

Threads == Producers \cup Consumers

ASSUME ThreadAssumption ==
  /\ IsFiniteSet(Threads)
  /\ Producers \cap Consumers = {}
  /\ NoThread \notin Threads

VARIABLES
  queue,    \* the priority queue
  mtx,      \* who holds the mutex
  pc,       \* per thread, where it is
  hand,     \* per thread, the packet it is sending or has taken
  unsent,   \* packets no producer has called send() with
  written   \* packets written to a socket

vars == <<queue, mtx, pc, hand, unsent, written>>

Goto(t, label) == pc' = [pc EXCEPT ![t] = label]

\* lk.unlock(), the unlock inside cv.wait, and the end of lk's scope
Release == mtx' = NoThread

\* Threads blocked in cv.wait.
Waiting == {c \in Threads : pc[c] = "waiting"}

-----------------------------------------------------------------------------

\* A producer calls send() with its next packet.
CallSend(t) ==
  /\ pc[t] = "idle"
  /\ \E p \in unsent :
       /\ hand' = [hand EXCEPT ![t] = {p}]
       /\ unsent' = unsent \ {p}
  /\ Goto(t, "push")
  /\ UNCHANGED <<queue, mtx, written>>

\* send(): lock and push.
Push(t) ==
  /\ pc[t] = "push"
  /\ mtx = NoThread
  /\ mtx' = t
  /\ queue' = queue \cup hand[t]
  /\ hand' = [hand EXCEPT ![t] = {}]
  /\ Goto(t, "unlock")
  /\ UNCHANGED <<unsent, written>>

Unlock(t) ==
  /\ pc[t] = "unlock"
  /\ Release
  /\ Goto(t, "notify")
  /\ UNCHANGED <<queue, hand, unsent, written>>

\* Where a thread goes after send(): a producer to its next packet, a Sender
\* out of run(), because it only sends while an exception unwinds it.
AfterSend(t) == IF t \in Producers THEN "idle" ELSE "ended"

\* Mistake: only the packet that ends an empty queue is announced.
NotifyFirst == Cardinality(queue) <= 1

\* send() notifies for every packet.
Notifies == TRUE

\* notify_one: some waiting thread, if there is one, goes for the mutex.
NotifyOne(t) ==
  /\ pc[t] = "notify"
  /\ IF Notifies /\ Waiting # {}
     THEN \E w \in Waiting :
            pc' = [pc EXCEPT ![t] = AfterSend(t), ![w] = "enter"]
     ELSE Goto(t, AfterSend(t))
  /\ UNCHANGED <<queue, mtx, hand, unsent, written>>

\* next(): the mutex is acquired, at first or on the way out of cv.wait.
Lock(c) ==
  /\ pc[c] = "enter"
  /\ mtx = NoThread
  /\ mtx' = c
  /\ Goto(c, "check")
  /\ UNCHANGED <<queue, hand, unsent, written>>

\* cv.wait releases the mutex and blocks in one step.
Wait(c) ==
  /\ pc[c] = "check"
  /\ queue = {}
  /\ Release
  /\ Goto(c, "waiting")
  /\ UNCHANGED <<queue, hand, unsent, written>>

\* cv.wait may return for no reason.
SpuriousWakeup(c) ==
  /\ pc[c] = "waiting"
  /\ Goto(c, "enter")
  /\ UNCHANGED <<queue, mtx, hand, unsent, written>>

\* Mistake: the packet is copied, not taken.
Peek(p) == queue

\* queue.pop()
Popped(p) == queue \ {p}

\* The queue is not empty: top(), pop(), and the mutex is released.
Pop(c) ==
  /\ pc[c] = "check"
  /\ \E p \in Top(queue) :
       /\ queue' = Popped(p)
       /\ hand' = [hand EXCEPT ![c] = {p}]
  /\ Release
  /\ Goto(c, "write")
  /\ UNCHANGED <<unsent, written>>

\* Sender::run wrote header and data; guard.reset().
WriteSucceeds(c) ==
  /\ pc[c] = "write"
  /\ written' = written \cup hand[c]
  /\ hand' = [hand EXCEPT ![c] = {}]
  /\ Goto(c, "enter")
  /\ UNCHANGED <<queue, mtx, unsent>>

\* write_exact throws: the guard calls send() with the packet.
WriteFails(c) ==
  /\ pc[c] = "write"
  /\ Goto(c, "push")
  /\ UNCHANGED <<queue, mtx, hand, unsent, written>>

Produce(t) == CallSend(t) \/ Push(t) \/ Unlock(t) \/ NotifyOne(t)

Consume(c) ==
  \/ Lock(c) \/ Wait(c) \/ SpuriousWakeup(c) \/ Pop(c)
  \/ WriteSucceeds(c) \/ WriteFails(c)
  \/ Push(c) \/ Unlock(c) \/ NotifyOne(c)

Init ==
  /\ queue = {}
  /\ mtx = NoThread
  /\ pc = [t \in Threads |-> IF t \in Producers THEN "idle" ELSE "enter"]
  /\ hand = [t \in Threads |-> {}]
  /\ unsent = Packets
  /\ written = {}

Next == (\E t \in Producers : Produce(t)) \/ (\E c \in Consumers : Consume(c))

Spec == Init /\ [][Next]_vars

\* Every thread keeps running, and one that finds the mutex free again and
\* again gets it in the end.  A write comes back or throws.  Nothing forces a
\* spurious wake-up, and nothing forces a producer to send.
Fairness ==
  /\ \A t \in Threads : SF_vars(Push(t) \/ Lock(t))
  /\ \A t \in Threads :
       WF_vars(Unlock(t) \/ NotifyOne(t) \/ Wait(t) \/ Pop(t)
                 \/ WriteSucceeds(t) \/ WriteFails(t))

FairSpec == Spec /\ Fairness

-----------------------------------------------------------------------------
(* Properties.                                                             *)

\* Types, and the mutex is held exactly by the thread in a critical section.
TypeOK ==
  /\ queue \in SUBSET Packets
  /\ mtx \in Threads \cup {NoThread}
  /\ pc \in [Threads -> {"idle", "push", "unlock", "notify", "enter", "check",
                         "waiting", "write", "ended"}]
  /\ hand \in [Threads -> SUBSET Packets]
  /\ unsent \in SUBSET Packets
  /\ written \in SUBSET Packets
  /\ \A t \in Threads : mtx = t <=> pc[t] \in {"unlock", "check"}

\* Threads that are certain to look at the queue, or to make another one do
\* so, before they block.
Awake == {t \in Threads : pc[t] \in {"unlock", "notify", "enter", "check"}}

\* No wake-up is lost (network.h:56-71): while somebody sleeps in next(),
\* every packet in the queue is matched by a thread that is still going to
\* take one or to wake a sleeper.
NoLostWakeup == Waiting # {} => Cardinality(queue) <= Cardinality(Awake)

\* A packet is in one place only: not sent yet, in the queue, in one thread's
\* hands or written.  Neither a failed write nor a race of two Senders loses
\* or duplicates it (network.cpp:93-109).
OnePlace ==
  /\ \A p \in Packets :
       p \in unsent \cup queue \cup written \/ \E t \in Threads : p \in hand[t]
  /\ unsent \cap queue = {} /\ unsent \cap written = {} /\ queue \cap written = {}
  /\ \A t \in Threads :
       /\ hand[t] \cap (unsent \cup queue \cup written) = {}
       /\ \A u \in Threads \ {t} : hand[t] \cap hand[u] = {}

\* A packet that is sent is written, unless every Sender has ended.
SentIsWritten ==
  \A p \in Packets :
    p \notin unsent ~> p \in written \/ \A c \in Consumers : pc[c] = "ended"

\* To its callers the queue is a pool: a packet that is on its way into
\* send() counts as not sent by a producer, as still held by a Sender.
Pool == INSTANCE PacketPool WITH
  unsent <- unsent \cup UNION {hand[t] : t \in Producers},
  pool <- queue,
  hand <- [c \in Consumers |-> hand[c]],
  alive <- {c \in Consumers : pc[c] \notin {"unlock", "notify", "ended"}}

\* The queue with its locks implements the pool, and takes from it as long as
\* a Sender is left.
ImplementsPool == Pool!PoolSpec
=============================================================================
