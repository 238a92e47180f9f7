-------------------------- MODULE PacketQueueProofs -------------------------
(***************************************************************************)
(* Proofs about PacketQueue, for any number of threads and packets: types  *)
(* and mutual exclusion, no packet lost or duplicated, no wake-up lost,    *)
(* and that every step is a step of PacketPool or changes nothing there.   *)
(***************************************************************************)
EXTENDS PacketQueue, FiniteSetTheorems, TLAPS

\* What a thread holds follows from where it is, and the two kinds of threads
\* are in different parts of the code.
HandsRight ==
  \A t \in Threads :
    /\ pc[t] \in {"push", "write"} => \E p \in Packets : hand[t] = {p}
    /\ pc[t] \notin {"push", "write"} => hand[t] = {}
    /\ t \in Producers => pc[t] \in {"idle", "push", "unlock", "notify"}
    /\ t \in Consumers => pc[t] # "idle"

\* The inductive invariant.
Inv == TypeOK /\ HandsRight /\ OnePlace /\ NoLostWakeup

USE PacketAssumption, ThreadAssumption DEF Goto

\* Initially nobody has anything.
LEMMA InitInv == Init => Inv
<1> SUFFICES ASSUME Init PROVE Inv
    OBVIOUS
<1>1. TypeOK
      BY DEF Init, TypeOK, Threads
<1>2. HandsRight
      BY DEF Init, HandsRight, Threads
<1>3. OnePlace
      BY DEF Init, OnePlace
<1>4. Waiting = {}
      BY DEF Init, Waiting
<1>. QED
     BY <1>1, <1>2, <1>3, <1>4 DEF Inv, NoLostWakeup

-----------------------------------------------------------------------------
(* The parts that do not count anything.                                   *)

Basic == TypeOK /\ HandsRight /\ OnePlace

\* Every step of every thread keeps types, hands and places.
LEMMA NextBasic == Basic /\ [Next]_vars => Basic'
<1> SUFFICES ASSUME Basic, [Next]_vars PROVE Basic'
    OBVIOUS
<1> USE DEF Basic
<1>1. ASSUME NEW t \in Threads, t \in Producers, CallSend(t) PROVE Basic'
  <2> PICK p \in unsent : /\ hand' = [hand EXCEPT ![t] = {p}]
                          /\ unsent' = unsent \ {p}
      BY <1>1 DEF CallSend
  <2>1. TypeOK'
        BY <1>1 DEF CallSend, TypeOK
  <2>2. HandsRight'
        BY <1>1 DEF CallSend, TypeOK, HandsRight
  <2>3. OnePlace'
        BY <1>1 DEF CallSend, TypeOK, OnePlace, HandsRight
  <2>. QED BY <2>1, <2>2, <2>3
<1>2. ASSUME NEW t \in Threads, Push(t) PROVE Basic'
  <2> PICK p \in Packets : hand[t] = {p}
      BY <1>2 DEF Push, HandsRight
  <2>1. TypeOK'
        BY <1>2 DEF Push, TypeOK
  <2>2. HandsRight'
        BY <1>2 DEF Push, TypeOK, HandsRight
  <2>3. OnePlace'
        BY <1>2 DEF Push, TypeOK, OnePlace, HandsRight
  <2>. QED BY <2>1, <2>2, <2>3
<1>3. ASSUME NEW t \in Threads, Unlock(t) PROVE Basic'
  <2>1. TypeOK'
        BY <1>3 DEF Unlock, Release, TypeOK
  <2>2. HandsRight'
        BY <1>3 DEF Unlock, Release, TypeOK, HandsRight
  <2>3. OnePlace'
        BY <1>3 DEF Unlock, Release, TypeOK, OnePlace
  <2>. QED BY <2>1, <2>2, <2>3
<1>4. ASSUME NEW t \in Threads, NotifyOne(t) PROVE Basic'
  <2>1. TypeOK'
        BY <1>4 DEF NotifyOne, Waiting, AfterSend, TypeOK
  <2>2. HandsRight'
        BY <1>4 DEF NotifyOne, Waiting, AfterSend, TypeOK, HandsRight, Threads
  <2>3. OnePlace'
        BY <1>4 DEF NotifyOne, OnePlace
  <2>. QED BY <2>1, <2>2, <2>3
<1>5. ASSUME NEW c \in Consumers, c \in Threads,
             Lock(c) \/ Wait(c) \/ SpuriousWakeup(c) \/ WriteFails(c)
      PROVE Basic'
  <2>1. TypeOK'
        BY <1>5 DEF Lock, Wait, SpuriousWakeup, WriteFails, Release, TypeOK
  <2>2. HandsRight'
        BY <1>5 DEF Lock, Wait, SpuriousWakeup, WriteFails, Release, TypeOK, HandsRight
  <2>3. OnePlace'
        BY <1>5 DEF Lock, Wait, SpuriousWakeup, WriteFails, OnePlace
  <2>. QED BY <2>1, <2>2, <2>3
<1>6. ASSUME NEW c \in Consumers, c \in Threads, Pop(c) PROVE Basic'
  <2> PICK p \in Top(queue) : /\ queue' = Popped(p)
                              /\ hand' = [hand EXCEPT ![c] = {p}]
      BY <1>6 DEF Pop
  <2>0. p \in queue /\ queue' = queue \ {p} /\ hand[c] = {}
        BY <1>6 DEF Top, Popped, Pop, HandsRight
  <2>1. TypeOK'
        BY <1>6, <2>0 DEF Pop, Release, TypeOK
  <2>2. HandsRight'
        BY <1>6, <2>0 DEF Pop, TypeOK, HandsRight
  <2>3. OnePlace'
        BY <1>6, <2>0 DEF Pop, TypeOK, OnePlace
  <2>. QED BY <2>1, <2>2, <2>3
<1>7. ASSUME NEW c \in Consumers, c \in Threads, WriteSucceeds(c) PROVE Basic'
  <2> PICK p \in Packets : hand[c] = {p}
      BY <1>7 DEF WriteSucceeds, HandsRight
  <2>1. TypeOK'
        BY <1>7 DEF WriteSucceeds, TypeOK
  <2>2. HandsRight'
        BY <1>7 DEF WriteSucceeds, TypeOK, HandsRight
  <2>3. OnePlace'
        BY <1>7 DEF WriteSucceeds, TypeOK, OnePlace
  <2>. QED BY <2>1, <2>2, <2>3
<1>8. CASE UNCHANGED vars
      BY <1>8 DEF vars, TypeOK, HandsRight, OnePlace
<1>. QED
     BY <1>1, <1>2, <1>3, <1>4, <1>5, <1>6, <1>7, <1>8
     DEF Next, Produce, Consume, Threads

-----------------------------------------------------------------------------
(* Counting.                                                               *)

\* The queue and the set of awake threads can be counted.
LEMMA Finite ==
  ASSUME TypeOK
  PROVE  /\ IsFiniteSet(queue) /\ Cardinality(queue) \in Nat
         /\ IsFiniteSet(Awake) /\ Cardinality(Awake) \in Nat
<1>1. IsFiniteSet(queue)
      BY FS_Subset DEF TypeOK
<1>2. IsFiniteSet(Awake)
      BY FS_Subset DEF Awake
<1>. QED
     BY <1>1, <1>2, FS_CardinalityType

\* Whatever a thread does, packets never outnumber the threads that are awake
\* while somebody sleeps.
LEMMA NextNoLostWakeup == Basic /\ NoLostWakeup /\ [Next]_vars => NoLostWakeup'
<1> SUFFICES ASSUME Basic, NoLostWakeup, [Next]_vars PROVE NoLostWakeup'
    OBVIOUS
<1>0. Basic'
      BY NextBasic
<1> USE DEF Basic
<1>f. /\ IsFiniteSet(queue) /\ Cardinality(queue) \in Nat
      /\ IsFiniteSet(Awake) /\ Cardinality(Awake) \in Nat
      BY Finite
<1>1. ASSUME NEW t \in Threads, CallSend(t) PROVE NoLostWakeup'
  <2>1. Awake' = Awake /\ Waiting' = Waiting /\ queue' = queue
        BY <1>1 DEF CallSend, TypeOK, Awake, Waiting
  <2>. QED BY <2>1 DEF NoLostWakeup
<1>2. ASSUME NEW t \in Threads, Push(t) PROVE NoLostWakeup'
  <2> PICK p \in Packets : hand[t] = {p}
      BY <1>2 DEF Push, HandsRight
  <2>1. p \notin queue /\ queue' = queue \cup {p}
        BY <1>2 DEF Push, OnePlace
  <2>2. t \notin Awake /\ Awake' = Awake \cup {t} /\ Waiting' = Waiting
        BY <1>2 DEF Push, TypeOK, Awake, Waiting
  <2>3. Cardinality(queue') = Cardinality(queue) + 1
        BY <2>1, <1>f, FS_AddElement
  <2>4. Cardinality(Awake') = Cardinality(Awake) + 1
        BY <2>2, <1>f, FS_AddElement
  <2>. QED BY <2>2, <2>3, <2>4, <1>f DEF NoLostWakeup
<1>3. ASSUME NEW t \in Threads, Unlock(t) PROVE NoLostWakeup'
  <2>1. Awake' = Awake /\ Waiting' = Waiting /\ queue' = queue
        BY <1>3 DEF Unlock, TypeOK, Awake, Waiting
  <2>. QED BY <2>1 DEF NoLostWakeup
<1>4. ASSUME NEW t \in Threads, NotifyOne(t) PROVE NoLostWakeup'
  <2>1. AfterSend(t) \notin {"unlock", "notify", "enter", "check", "waiting"}
        BY DEF AfterSend
  <2>2. CASE Waiting = {}
    <3>1. pc' = [pc EXCEPT ![t] = AfterSend(t)]
          BY <1>4, <2>2 DEF NotifyOne
    <3>2. Waiting' = {}
          BY <3>1, <2>1, <2>2 DEF Waiting, TypeOK
    <3>. QED BY <3>2 DEF NoLostWakeup
  <2>3. CASE Waiting # {}
    <3>1. PICK w \in Waiting : pc' = [pc EXCEPT ![t] = AfterSend(t), ![w] = "enter"]
          BY <1>4, <2>3 DEF NotifyOne, Notifies
    <3>2. w \in Threads /\ pc[w] = "waiting" /\ pc[t] = "notify" /\ w # t
          BY <1>4, <3>1 DEF Waiting, NotifyOne
    <3>3. w \notin Awake /\ t \in Awake
          BY <3>2 DEF Awake
    <3>4. Awake' = (Awake \ {t}) \cup {w}
          BY <3>1, <3>2, <2>1 DEF Awake, TypeOK
    <3>5. IsFiniteSet(Awake \ {t}) /\ Cardinality(Awake \ {t}) = Cardinality(Awake) - 1
          BY <3>3, <1>f, FS_RemoveElement
    <3>6. Cardinality(Awake') = Cardinality(Awake \ {t}) + 1
          BY <3>3, <3>4, <3>5, FS_AddElement
    <3>7. queue' = queue
          BY <1>4 DEF NotifyOne
    <3>. QED BY <2>3, <3>5, <3>6, <3>7, <1>f DEF NoLostWakeup
  <2>. QED BY <2>2, <2>3
<1>5. ASSUME NEW c \in Threads, Lock(c) PROVE NoLostWakeup'
  <2>1. Awake' = Awake /\ Waiting' = Waiting /\ queue' = queue
        BY <1>5 DEF Lock, TypeOK, Awake, Waiting
  <2>. QED BY <2>1 DEF NoLostWakeup
<1>6. ASSUME NEW c \in Threads, Wait(c) PROVE NoLostWakeup'
  <2>1. Cardinality(queue') = 0
        BY <1>6, FS_EmptySet DEF Wait
  <2>2. Cardinality(Awake') \in Nat
        BY <1>0, FS_Subset, FS_CardinalityType DEF Awake
  <2>. QED BY <2>1, <2>2 DEF NoLostWakeup
<1>7. ASSUME NEW c \in Threads, SpuriousWakeup(c) PROVE NoLostWakeup'
  <2>1. c \notin Awake /\ Awake' = Awake \cup {c} /\ c \in Waiting /\ queue' = queue
        BY <1>7 DEF SpuriousWakeup, TypeOK, Awake, Waiting
  <2>2. Cardinality(Awake') = Cardinality(Awake) + 1
        BY <2>1, <1>f, FS_AddElement
  <2>. QED BY <2>1, <2>2, <1>f DEF NoLostWakeup
<1>8. ASSUME NEW c \in Threads, Pop(c) PROVE NoLostWakeup'
  <2> PICK p \in Top(queue) : queue' = Popped(p)
      BY <1>8 DEF Pop
  <2>1. p \in queue /\ queue' = queue \ {p}
        BY DEF Top, Popped
  <2>2. c \in Awake /\ Awake' = Awake \ {c} /\ Waiting' = Waiting
        BY <1>8 DEF Pop, TypeOK, Awake, Waiting
  <2>3. Cardinality(queue') = Cardinality(queue) - 1
        BY <2>1, <1>f, FS_RemoveElement
  <2>4. Cardinality(Awake') = Cardinality(Awake) - 1
        BY <2>2, <1>f, FS_RemoveElement
  <2>. QED BY <2>2, <2>3, <2>4, <1>f DEF NoLostWakeup
<1>9. ASSUME NEW c \in Threads, WriteSucceeds(c) PROVE NoLostWakeup'
  <2>1. c \notin Awake /\ Awake' = Awake \cup {c} /\ Waiting' = Waiting /\ queue' = queue
        BY <1>9 DEF WriteSucceeds, TypeOK, Awake, Waiting
  <2>2. Cardinality(Awake') = Cardinality(Awake) + 1
        BY <2>1, <1>f, FS_AddElement
  <2>. QED BY <2>1, <2>2, <1>f DEF NoLostWakeup
<1>10. ASSUME NEW c \in Threads, WriteFails(c) PROVE NoLostWakeup'
  <2>1. Awake' = Awake /\ Waiting' = Waiting /\ queue' = queue
        BY <1>10 DEF WriteFails, TypeOK, Awake, Waiting
  <2>. QED BY <2>1 DEF NoLostWakeup
<1>11. CASE UNCHANGED vars
  <2>1. Awake' = Awake /\ Waiting' = Waiting /\ queue' = queue
        BY <1>11 DEF vars, Awake, Waiting
  <2>. QED BY <2>1 DEF NoLostWakeup
<1>. QED
     BY <1>1, <1>2, <1>3, <1>4, <1>5, <1>6, <1>7, <1>8, <1>9, <1>10, <1>11
     DEF Next, Produce, Consume, Threads

-----------------------------------------------------------------------------
(* The theorems.                                                           *)

\* The invariant holds in every reachable state.
THEOREM InvariantHolds == Spec => []Inv
<1>1. Inv /\ [Next]_vars => Inv'
      BY NextBasic, NextNoLostWakeup DEF Inv, Basic
<1>. QED
     BY InitInv, <1>1, PTL DEF Spec

\* The mutex is held by one thread at a time, the one that is inside send()
\* or next().
THEOREM TypeCorrect == Spec => []TypeOK
<1>1. Inv => TypeOK
      BY DEF Inv
<1>. QED
     BY InvariantHolds, <1>1, PTL

\* However many producers and Senders share a queue, no packet is left in it
\* while a sleeper could be woken and nobody is going to do so.
THEOREM WakeupsReach == Spec => []NoLostWakeup
<1>1. Inv => NoLostWakeup
      BY DEF Inv
<1>. QED
     BY InvariantHolds, <1>1, PTL

\* No packet is lost or duplicated by the queue or by the requeue of a failed
\* write.
THEOREM PacketsKept == Spec => []OnePlace
<1>1. Inv => OnePlace
      BY DEF Inv
<1>. QED
     BY InvariantHolds, <1>1, PTL

-----------------------------------------------------------------------------
(* The queue implements the pool.                                          *)

\* The empty queue is the empty pool.
LEMMA InitPool == Init => Pool!PoolInit
<1> SUFFICES ASSUME Init PROVE Pool!PoolInit
    OBVIOUS
<1>1. UNION {hand[t] : t \in Producers} = {}
      BY DEF Init, Threads
<1>2. [c \in Consumers |-> hand[c]] = [c \in Consumers |-> {}]
      BY DEF Init, Threads
<1>3. {c \in Consumers : pc[c] \notin {"unlock", "notify", "ended"}} = Consumers
      BY DEF Init, Threads
<1>. QED
     BY <1>1, <1>2, <1>3 DEF Init, Pool!PoolInit

\* What the pool sees of the threads.
Unsent == unsent \cup UNION {hand[t] : t \in Producers}
Held == [c \in Consumers |-> hand[c]]
Alive == {c \in Consumers : pc[c] \notin {"unlock", "notify", "ended"}}

\* A step that leaves those alone is a stutter of the pool.
LEMMA PoolStutter ==
  ASSUME Unsent' = Unsent, queue' = queue, Held' = Held, written' = written,
         Alive' = Alive
  PROVE  UNCHANGED Pool!poolVars
BY DEF Unsent, Held, Alive, Pool!poolVars

\* Each step of a thread is one step of the pool, or none: a producer's push
\* puts its packet, a Sender's puts it back, and taking the mutex, notifying
\* and waiting are invisible.
LEMMA NextPool == Inv /\ [Next]_vars => [Pool!PoolNext]_(Pool!poolVars)
<1> SUFFICES ASSUME Inv, [Next]_vars
             PROVE  Pool!PoolNext \/ UNCHANGED Pool!poolVars
    OBVIOUS
<1> USE DEF Inv
<1>1. ASSUME NEW t \in Producers, CallSend(t) PROVE UNCHANGED Pool!poolVars
  <2> PICK p \in unsent : /\ hand' = [hand EXCEPT ![t] = {p}]
                          /\ unsent' = unsent \ {p}
      BY <1>1 DEF CallSend
  <2>1. hand[t] = {} /\ t \in Threads
        BY <1>1 DEF CallSend, HandsRight, Threads
  <2>2. \A u \in Producers : hand'[u] = IF u = t THEN {p} ELSE hand[u]
        BY DEF TypeOK, Threads
  <2>3. Unsent' = Unsent
        BY <2>1, <2>2 DEF Unsent
  <2>4. Held' = Held
        BY DEF Held, TypeOK, Threads
  <2>5. Alive' = Alive
        BY <1>1 DEF CallSend, Alive, TypeOK, Threads
  <2>. QED BY <1>1, <2>3, <2>4, <2>5, PoolStutter DEF CallSend
<1>2. ASSUME NEW t \in Producers, Push(t) PROVE Pool!PoolNext
  <2>0. t \in Threads /\ t \notin Consumers
        BY DEF Threads
  <2> PICK p \in Packets : hand[t] = {p}
      BY <1>2, <2>0 DEF Push, HandsRight
  <2>1. \A u \in Producers : hand'[u] = IF u = t THEN {} ELSE hand[u]
        BY <1>2 DEF Push, TypeOK, Threads
  <2>2. \A u \in Producers \ {t} : p \notin hand[u]
        BY <2>0 DEF OnePlace, Threads
  <2>3. p \notin unsent
        BY <2>0 DEF OnePlace
  <2>4. Unsent' = Unsent \ {p} /\ p \in Unsent
        BY <1>2, <2>1, <2>2, <2>3 DEF Push, Unsent
  <2>5. Held' = Held
        BY <1>2, <2>0 DEF Push, Held, TypeOK, Threads
  <2>6. Alive' = Alive
        BY <1>2, <2>0 DEF Push, Alive, TypeOK, Threads
  <2>7. queue' = queue \cup {p} /\ written' = written
        BY <1>2 DEF Push
  <2>8. Pool!Put(p)
        BY <2>4, <2>5, <2>6, <2>7 DEF Pool!Put, Unsent, Held, Alive
  <2>. QED BY <2>8 DEF Pool!PoolNext
<1>3. ASSUME NEW t \in Consumers, Push(t) PROVE Pool!PoolNext
  <2>0. t \in Threads /\ t \notin Producers
        BY DEF Threads
  <2> PICK p \in Packets : hand[t] = {p}
      BY <1>3, <2>0 DEF Push, HandsRight
  <2>1. \A u \in Producers : hand'[u] = hand[u]
        BY <1>3, <2>0 DEF Push, TypeOK, Threads
  <2>2. Unsent' = Unsent
        BY <1>3, <2>1 DEF Push, Unsent
  <2>3. Held' = [Held EXCEPT ![t] = {}] /\ Held[t] = {p}
        BY <1>3, <2>0 DEF Push, Held, TypeOK, Threads
  <2>4. Alive' = Alive \ {t}
        BY <1>3, <2>0 DEF Push, Alive, TypeOK, Threads
  <2>5. queue' = queue \cup {p} /\ written' = written
        BY <1>3 DEF Push
  <2>6. Pool!PutBack(t)
        BY <2>2, <2>3, <2>4, <2>5 DEF Pool!PutBack, Unsent, Held, Alive
  <2>. QED BY <2>6 DEF Pool!PoolNext
<1>4. ASSUME NEW t \in Threads, Unlock(t) PROVE UNCHANGED Pool!poolVars
  <2>1. Alive' = Alive
        BY <1>4 DEF Unlock, Alive, TypeOK, Threads
  <2>2. Unsent' = Unsent /\ Held' = Held
        BY <1>4 DEF Unlock, Unsent, Held
  <2>. QED BY <1>4, <2>1, <2>2, PoolStutter DEF Unlock
<1>5. ASSUME NEW t \in Threads, NotifyOne(t) PROVE UNCHANGED Pool!poolVars
  <2>1. \A c \in Consumers : pc'[c] \in {"unlock", "notify", "ended"}
                                <=> pc[c] \in {"unlock", "notify", "ended"}
        BY <1>5 DEF NotifyOne, AfterSend, Waiting, TypeOK, Threads
  <2>2. Alive' = Alive
        BY <2>1 DEF Alive
  <2>3. Unsent' = Unsent /\ Held' = Held
        BY <1>5 DEF NotifyOne, Unsent, Held
  <2>. QED BY <1>5, <2>2, <2>3, PoolStutter DEF NotifyOne
<1>6. ASSUME NEW c \in Consumers, Lock(c) \/ Wait(c) \/ SpuriousWakeup(c) \/ WriteFails(c)
      PROVE  UNCHANGED Pool!poolVars
  <2>1. Alive' = Alive
        BY <1>6 DEF Lock, Wait, SpuriousWakeup, WriteFails, Alive, TypeOK, Threads
  <2>2. Unsent' = Unsent /\ Held' = Held /\ queue' = queue /\ written' = written
        BY <1>6 DEF Lock, Wait, SpuriousWakeup, WriteFails, Unsent, Held
  <2>. QED BY <2>1, <2>2, PoolStutter
<1>7. ASSUME NEW c \in Consumers, Pop(c) PROVE Pool!PoolNext
  <2>0. c \in Threads /\ c \notin Producers
        BY DEF Threads
  <2> PICK p \in Top(queue) : /\ queue' = Popped(p)
                              /\ hand' = [hand EXCEPT ![c] = {p}]
      BY <1>7 DEF Pop
  <2>1. Unsent' = Unsent
        BY <1>7, <2>0 DEF Pop, Unsent, TypeOK, Threads
  <2>2. Held' = [Held EXCEPT ![c] = {p}] /\ Held[c] = {}
        BY <1>7, <2>0 DEF Pop, Held, HandsRight, TypeOK, Threads
  <2>3. Alive' = Alive /\ c \in Alive
        BY <1>7, <2>0 DEF Pop, Alive, TypeOK, Threads
  <2>4. p \in Pool!Top(queue) /\ queue' = queue \ {p}
        BY DEF Pool!Top, Top, Popped
  <2>5. Pool!TakeTop(c)
        BY <1>7, <2>1, <2>2, <2>3, <2>4 DEF Pool!TakeTop, Unsent, Held, Alive, Pop
  <2>. QED BY <2>5 DEF Pool!PoolNext
<1>8. ASSUME NEW c \in Consumers, WriteSucceeds(c) PROVE Pool!PoolNext
  <2>0. c \in Threads /\ c \notin Producers
        BY DEF Threads
  <2> PICK p \in Packets : hand[c] = {p}
      BY <1>8, <2>0 DEF WriteSucceeds, HandsRight
  <2>1. Unsent' = Unsent
        BY <1>8, <2>0 DEF WriteSucceeds, Unsent, TypeOK, Threads
  <2>2. Held' = [Held EXCEPT ![c] = {}] /\ Held[c] = {p}
        BY <1>8, <2>0 DEF WriteSucceeds, Held, TypeOK, Threads
  <2>3. Alive' = Alive
        BY <1>8, <2>0 DEF WriteSucceeds, Alive, TypeOK, Threads
  <2>4. queue' = queue /\ written' = written \cup {p}
        BY <1>8 DEF WriteSucceeds
  <2>5. Pool!WriteOut(c)
        BY <2>1, <2>2, <2>3, <2>4 DEF Pool!WriteOut, Unsent, Held, Alive
  <2>. QED BY <2>5 DEF Pool!PoolNext
<1>9. CASE UNCHANGED vars
      BY <1>9, PoolStutter DEF vars, Unsent, Held, Alive
<1>. QED
     BY <1>1, <1>2, <1>3, <1>4, <1>5, <1>6, <1>7, <1>8, <1>9
     DEF Next, Produce, Consume, Threads

\* To its callers the queue, with its mutex and condition variable, behaves
\* as a pool that changes in one step: the network model may use that pool.
THEOREM QueueImplementsPool == Spec => Pool!PoolInit /\ [][Pool!PoolNext]_(Pool!poolVars)
<1>. QED
     BY InvariantHolds, InitPool, NextPool, PTL DEF Spec
=============================================================================
