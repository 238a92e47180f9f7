------------------------- MODULE OrderStreamsProofs ------------------------
(***************************************************************************)
(* Proofs about OrderStreams, for any number of orders and any division of *)
(* them among the traders.  The argument counts: after a trader's encoding *)
(* loop has passed k ids its stream holds its own ids among 1..k, in       *)
(* order; after a merger has passed k ids each decoder has returned as     *)
(* many orders as its trader owns among 1..k.  The order the merger takes  *)
(* for id k + 1 is therefore the one at the place where k + 1 was put.     *)
(*                                                                         *)
(* And about Reader, where these orders come from, for any shape of the    *)
(* files and any ids in them: a stock sends its own rows, all of them, by  *)
(* id, and none before the columns were read.                              *)
(***************************************************************************)
EXTENDS OrderStreams, Reader, FiniteSetTheorems, SequenceTheorems, TLAPS

\* The ids among 1..k that trader t owns, and their number.
Owned(t, k) == {i \in 1..k : owner[i] = t}
Count(t, k) == Cardinality(Owned(t, k))

\* How far trader t's encoding loop is, and its merger.
Encoded(t) == IF pc[t] = "encode" THEN current[t] ELSE NumOrders
Merged(t) == IF pc[t] = "encode" THEN 0 ELSE current[t]

\* Every own order passed by the encoding loop is at its place.
StreamOK(t) ==
  /\ Len(stream[t]) = Count(t, Encoded(t))
  /\ \A k \in 1..Encoded(t) : owner[k] = t => stream[t][Count(t, k)] = k

\* The decoders are where the merger's counter says.
DecodersOK(t) ==
  /\ local[t] = Count(t, Merged(t))
  /\ remote[t] = Count(Peer(t), Merged(t))
  /\ Len(done[t]) = Merged(t)

IInv ==
  /\ TypeOK
  /\ \A t \in Traders : StreamOK(t) /\ DecodersOK(t)
  /\ SameOrders

-----------------------------------------------------------------------------
(* Counting.                                                               *)

\* An interval of integers has as many elements as its ends say.
LEMMA IntervalSize ==
  ASSUME NEW k \in Nat
  PROVE  IsFiniteSet(1..k) /\ Cardinality(1..k) = k
<1>1. IsFiniteSet(1..k) /\ Cardinality(1..k) = IF 1 > k THEN 0 ELSE k - 1 + 1
  BY FS_Interval
<1>. QED  BY <1>1

\* A trader owns finitely many of the first ids.
LEMMA OwnedFinite ==
  ASSUME NEW t, NEW k \in Nat
  PROVE  IsFiniteSet(Owned(t, k)) /\ Count(t, k) \in Nat
<1>1. IsFiniteSet(1..k)
  BY IntervalSize
<1>2. IsFiniteSet(Owned(t, k))
  BY <1>1, FS_Subset DEF Owned
<1>. QED  BY <1>2, FS_CardinalityType DEF Count

\* Of the first k ids a trader owns at most k.
LEMMA CountBound ==
  ASSUME NEW t, NEW k \in Nat
  PROVE  Count(t, k) <= k
<1>1. IsFiniteSet(1..k) /\ Cardinality(1..k) = k
  BY IntervalSize
<1>2. Owned(t, k) \subseteq 1..k
  BY DEF Owned
<1>3. Cardinality(Owned(t, k)) <= Cardinality(1..k)
  BY <1>1, <1>2, FS_Subset
<1>. QED  BY <1>1, <1>3 DEF Count

\* Of no ids a trader owns none.
LEMMA CountZero == ASSUME NEW t PROVE Count(t, 0) = 0
<1>1. Owned(t, 0) = {}
  BY DEF Owned
<1>. QED  BY <1>1, FS_EmptySet DEF Count

\* One more id counts for its owner and for nobody else.
LEMMA CountStep ==
  ASSUME NEW t, NEW k \in Nat
  PROVE  Count(t, k + 1) = IF owner[k + 1] = t THEN Count(t, k) + 1 ELSE Count(t, k)
<1>1. CASE owner[k + 1] = t
  <2>1. Owned(t, k + 1) = Owned(t, k) \cup {k + 1}
    BY <1>1 DEF Owned
  <2>2. k + 1 \notin Owned(t, k)
    BY DEF Owned
  <2>. QED  BY <1>1, <2>1, <2>2, OwnedFinite, FS_AddElement DEF Count
<1>2. CASE owner[k + 1] # t
  <2>1. Owned(t, k + 1) = Owned(t, k)
    BY <1>2 DEF Owned
  <2>. QED  BY <1>2, <2>1 DEF Count
<1>. QED  BY <1>1, <1>2

\* Of more ids a trader owns no fewer.
LEMMA CountMono ==
  ASSUME NEW t, NEW j \in Nat, NEW k \in Nat, j <= k
  PROVE  Count(t, j) <= Count(t, k)
<1>1. Owned(t, j) \subseteq Owned(t, k)
  BY DEF Owned
<1>. QED  BY <1>1, OwnedFinite, FS_Subset DEF Count

\* An id's place lies inside every stream that has reached the id.
LEMMA CountPlace ==
  ASSUME NEW t, NEW j \in Nat, NEW k \in Nat, j < k, owner[j + 1] = t
  PROVE  Count(t, j) + 1 = Count(t, j + 1) /\ Count(t, j + 1) <= Count(t, k)
<1>1. j + 1 \in Nat /\ j + 1 <= k
  OBVIOUS
<1>. QED  BY <1>1, CountStep, CountMono

-----------------------------------------------------------------------------

\* There are two traders: the peer of each is the other.
LEMMA TradersFacts ==
  \A t \in Traders : Peer(t) \in Traders /\ Peer(t) # t /\ Peer(Peer(t)) = t
                     /\ \A u \in Traders : u # t => u = Peer(t)
BY DEF Traders, Peer

\* The day starts in the invariant.
LEMMA InitIInv == Init => IInv
<1>. SUFFICES ASSUME Init PROVE IInv
  OBVIOUS
<1>. USE StreamAssumption
<1>1. TypeOK
  BY TradersFacts DEF Init, TypeOK
<1>2. ASSUME NEW t \in Traders PROVE StreamOK(t) /\ DecodersOK(t)
  <2>1. Encoded(t) = 0 /\ Merged(t) = 0
    BY DEF Init, Encoded, Merged
  <2>2. stream[t] = <<>> /\ done[t] = <<>> /\ local[t] = 0 /\ remote[t] = 0
    BY DEF Init
  <2>. QED  BY <2>1, <2>2, CountZero DEF StreamOK, DecodersOK
<1>3. SameOrders
  BY DEF Init, SameOrders
<1>. QED  BY <1>1, <1>2, <1>3 DEF IInv

\* A step that leaves trader t's variables alone leaves its conjuncts alone.
LEMMA StreamKept ==
  ASSUME NEW t \in Traders, StreamOK(t), owner' = owner,
         stream'[t] = stream[t], Encoded(t)' = Encoded(t)
  PROVE  StreamOK(t)'
BY DEF StreamOK, Count, Owned

\* What has been delivered depends on the trader's own decoders only.
LEMMA DecodersKept ==
  ASSUME NEW t \in Traders, DecodersOK(t), owner' = owner,
         local'[t] = local[t], remote'[t] = remote[t], done'[t] = done[t],
         Merged(t)' = Merged(t)
  PROVE  DecodersOK(t)'
BY DEF DecodersOK, Count, Owned

-----------------------------------------------------------------------------

\* Encoding an order keeps the invariant.
LEMMA EncodePreserves ==
  ASSUME IInv, NEW t \in Traders, Encode(t)
  PROVE  IInv'
<1>. USE StreamAssumption
<1>. DEFINE c == current[t]
<1>0. /\ pc[t] = "encode" /\ c \in Nat /\ c < NumOrders /\ c + 1 \in Ids
      /\ current' = [current EXCEPT ![t] = c + 1]
      /\ pc' = pc /\ owner' = owner /\ arrived' = arrived
      /\ local' = local /\ remote' = remote /\ done' = done
  <2>1. pc[t] = "encode" /\ c < NumOrders /\ current' = [current EXCEPT ![t] = c + 1]
        /\ pc' = pc /\ owner' = owner /\ arrived' = arrived
        /\ local' = local /\ remote' = remote /\ done' = done
    BY DEF Encode
  <2>2. c \in 0..NumOrders
    BY DEF IInv, TypeOK
  <2>3. c \in Nat /\ c + 1 \in Ids
    BY <2>1, <2>2 DEF Ids, StreamAssumption
  <2>. QED  BY <2>1, <2>3
<1>1. stream' = [stream EXCEPT ![t] =
                   IF owner[c + 1] = t THEN Append(stream[t], c + 1) ELSE stream[t]]
  BY DEF Encode, IsOwn, IInv, TypeOK
<1>2. stream[t] \in Seq(Ids) /\ stream'[t] \in Seq(Ids) /\ Len(stream[t]) <= Len(stream'[t])
      /\ \A u \in Traders : u # t => stream'[u] = stream[u]
  BY <1>0, <1>1 DEF IInv, TypeOK
<1>3. TypeOK'
  <2>1. stream' \in [Traders -> Seq(Ids)]
    BY <1>1, <1>2 DEF IInv, TypeOK
  <2>2. current' \in [Traders -> 0..NumOrders]
    <3>1. c + 1 \in 0..NumOrders
      BY <1>0 DEF Ids
    <3>2. current \in [Traders -> 0..NumOrders]
      BY DEF IInv, TypeOK
    <3>. QED  BY <1>0, <3>1, <3>2
  <2>3. \A u \in Traders : remote[u] <= arrived[u] /\ arrived[u] <= Len(stream'[Peer(u)])
    <3>. TAKE u \in Traders
    <3>0. Peer(u) \in Traders
      BY TradersFacts
    <3>2. Len(stream[Peer(u)]) \in Nat /\ Len(stream'[Peer(u)]) \in Nat
      <4>1. stream[Peer(u)] \in Seq(Ids) /\ stream'[Peer(u)] \in Seq(Ids)
        BY <2>1, <3>0 DEF IInv, TypeOK
      <4>. QED  BY <4>1
    <3>1. Len(stream[Peer(u)]) <= Len(stream'[Peer(u)])
      <4>1. CASE Peer(u) = t
        BY <1>2, <4>1
      <4>2. CASE Peer(u) # t
        <5>1. stream'[Peer(u)] = stream[Peer(u)]
          BY <1>2, <3>0, <4>2
        <5>. QED  BY <3>2, <5>1
      <4>. QED  BY <4>1, <4>2
    <3>3. remote[u] \in Nat /\ arrived[u] \in Nat
          /\ remote[u] <= arrived[u] /\ arrived[u] <= Len(stream[Peer(u)])
      BY DEF IInv, TypeOK
    <3>. QED  BY <3>1, <3>2, <3>3
  <2>. QED  BY <1>0, <2>1, <2>2, <2>3 DEF IInv, TypeOK
<1>4. ASSUME NEW u \in Traders PROVE StreamOK(u)'
  <2>1. CASE u # t
    <3>1. Encoded(u)' = Encoded(u)
      BY <1>0, <2>1 DEF Encoded, IInv, TypeOK
    <3>. QED  BY <1>0, <1>2, <2>1, <3>1, StreamKept DEF IInv
  <2>2. CASE u = t
    <3>1. Encoded(t) = c /\ Encoded(t)' = c + 1
      BY <1>0 DEF Encoded, IInv, TypeOK
    <3>2. \A v, k : Count(v, k)' = Count(v, k)
      BY <1>0 DEF Count, Owned
    <3>3. Len(stream[t]) = Count(t, c)
          /\ \A k \in 1..c : owner[k] = t => stream[t][Count(t, k)] = k
      BY <3>1 DEF IInv, StreamOK
    <3>4. Len(stream'[t]) = Count(t, c + 1)
      <4>1. Count(t, c + 1) = IF owner[c + 1] = t THEN Count(t, c) + 1 ELSE Count(t, c)
        BY <1>0, CountStep
      <4>2. stream'[t] = IF owner[c + 1] = t THEN Append(stream[t], c + 1) ELSE stream[t]
        BY <1>1 DEF IInv, TypeOK
      <4>3. CASE owner[c + 1] = t
        <5>1. Len(Append(stream[t], c + 1)) = Len(stream[t]) + 1
          BY <1>2
        <5>. QED  BY <3>3, <4>1, <4>2, <4>3, <5>1
      <4>4. CASE owner[c + 1] # t
        BY <3>3, <4>1, <4>2, <4>4
      <4>. QED  BY <4>3, <4>4
    <3>5. ASSUME NEW k \in 1..(c + 1), owner[k] = t
          PROVE  stream'[t][Count(t, k)] = k
      <4>1. CASE k = c + 1
        <5>1. Count(t, k) = Len(stream[t]) + 1
          <6>1. owner[c + 1] = t
            BY <3>5, <4>1
          <6>2. Count(t, c + 1) = Count(t, c) + 1
            BY <1>0, <6>1, CountStep
          <6>. QED  BY <3>3, <4>1, <6>2
        <5>2. stream'[t] = Append(stream[t], c + 1)
          BY <1>1, <3>5, <4>1 DEF IInv, TypeOK
        <5>. QED  BY <1>2, <4>1, <5>1, <5>2
      <4>2. CASE k # c + 1
        <5>1. k \in 1..c /\ stream[t][Count(t, k)] = k
          BY <1>0, <3>3, <3>5, <4>2
        <5>2. k - 1 \in Nat /\ k - 1 < c /\ (k - 1) + 1 = k
          BY <1>0, <5>1
        <5>3. Count(t, k - 1) + 1 = Count(t, k) /\ Count(t, k) <= Count(t, c)
          BY <1>0, <3>5, <5>2, CountPlace
        <5>4. Count(t, k) \in 1..Len(stream[t])
          BY <1>0, <3>3, <5>2, <5>3, OwnedFinite
        <5>5. stream'[t] = stream[t] \/ stream'[t] = Append(stream[t], c + 1)
          BY <1>1 DEF IInv, TypeOK
        <5>. QED  BY <1>2, <5>1, <5>4, <5>5
      <4>. QED  BY <4>1, <4>2
    <3>6. \A k \in 1..(c + 1) : owner[k] = t => stream'[t][Count(t, k)] = k
      BY <3>5
    <3>7. StreamOK(t)'
      BY <1>0, <3>1, <3>2, <3>4, <3>6 DEF StreamOK
    <3>. QED  BY <2>2, <3>7
  <2>. QED  BY <2>1, <2>2
<1>5. ASSUME NEW u \in Traders PROVE DecodersOK(u)'
  <2>1. Merged(u)' = Merged(u)
    BY <1>0 DEF Merged, IInv, TypeOK
  <2>. QED  BY <1>0, <2>1, DecodersKept DEF IInv
<1>6. SameOrders'
  BY <1>0 DEF IInv, SameOrders
<1>. QED  BY <1>3, <1>4, <1>5, <1>6 DEF IInv

\* Turning from encoding to merging keeps the invariant.
LEMMA StartMergingPreserves ==
  ASSUME IInv, NEW t \in Traders, StartMerging(t)
  PROVE  IInv'
<1>. USE StreamAssumption
<1>0. /\ pc[t] = "encode" /\ current[t] = NumOrders
      /\ pc' = [pc EXCEPT ![t] = "merge"] /\ current' = [current EXCEPT ![t] = 0]
      /\ owner' = owner /\ stream' = stream /\ arrived' = arrived
      /\ local' = local /\ remote' = remote /\ done' = done
  BY DEF StartMerging
<1>1. TypeOK'
  BY <1>0 DEF IInv, TypeOK
<1>2. ASSUME NEW u \in Traders PROVE Encoded(u)' = Encoded(u) /\ Merged(u)' = Merged(u)
  BY <1>0 DEF Encoded, Merged, IInv, TypeOK
<1>3. ASSUME NEW u \in Traders PROVE StreamOK(u)' /\ DecodersOK(u)'
  BY <1>0, <1>2, StreamKept, DecodersKept DEF IInv
<1>4. SameOrders'
  BY <1>0 DEF IInv, SameOrders
<1>. QED  BY <1>1, <1>3, <1>4 DEF IInv

\* The arrival of an order keeps the invariant.
LEMMA ArrivePreserves ==
  ASSUME IInv, NEW t \in Traders, Arrive(t)
  PROVE  IInv'
<1>. USE StreamAssumption
<1>0. /\ arrived[t] < Len(stream[Peer(t)])
      /\ arrived' = [arrived EXCEPT ![t] = arrived[t] + 1]
      /\ pc' = pc /\ current' = current /\ owner' = owner /\ stream' = stream
      /\ local' = local /\ remote' = remote /\ done' = done
  BY DEF Arrive
<1>1. TypeOK'
  <2>1. Len(stream[Peer(t)]) \in Nat /\ Len(stream[Peer(t)]) <= NumOrders
    <3>1. Len(stream[Peer(t)]) = Count(Peer(t), Encoded(Peer(t)))
      BY TradersFacts DEF IInv, StreamOK
    <3>2. Encoded(Peer(t)) \in 0..NumOrders
      BY TradersFacts DEF Encoded, IInv, TypeOK
    <3>3. \A k \in 0..NumOrders : Count(Peer(t), k) \in Nat /\ Count(Peer(t), k) <= k
      BY OwnedFinite, CountBound
    <3>. QED  BY <3>1, <3>2, <3>3
  <2>2. arrived[t] \in Nat /\ remote[t] \in Nat /\ remote[t] <= arrived[t]
    BY DEF IInv, TypeOK
  <2>3. arrived[t] + 1 \in 0..NumOrders /\ remote[t] <= arrived[t] + 1
        /\ arrived[t] + 1 <= Len(stream[Peer(t)])
    BY <1>0, <2>1, <2>2
  <2>4. arrived' \in [Traders -> 0..NumOrders]
    BY <1>0, <2>3 DEF IInv, TypeOK
  <2>5. \A u \in Traders : remote[u] <= arrived'[u] /\ arrived'[u] <= Len(stream[Peer(u)])
    BY <1>0, <2>3 DEF IInv, TypeOK
  <2>. QED  BY <1>0, <2>4, <2>5 DEF IInv, TypeOK
<1>2. ASSUME NEW u \in Traders PROVE StreamOK(u)' /\ DecodersOK(u)'
  <2>1. Encoded(u)' = Encoded(u) /\ Merged(u)' = Merged(u)
    BY <1>0 DEF Encoded, Merged
  <2>. QED  BY <1>0, <2>1, StreamKept, DecodersKept DEF IInv
<1>3. SameOrders'
  BY <1>0 DEF IInv, SameOrders
<1>. QED  BY <1>1, <1>2, <1>3 DEF IInv

\* The end of the merged stream keeps the invariant.
LEMMA FinishPreserves ==
  ASSUME IInv, NEW t \in Traders, Finish(t)
  PROVE  IInv'
<1>. USE StreamAssumption
<1>0. /\ pc[t] = "merge" /\ pc' = [pc EXCEPT ![t] = "finished"] /\ current' = current
      /\ owner' = owner /\ stream' = stream /\ arrived' = arrived
      /\ local' = local /\ remote' = remote /\ done' = done
  BY DEF Finish
<1>1. TypeOK'
  BY <1>0 DEF IInv, TypeOK
<1>2. ASSUME NEW u \in Traders PROVE StreamOK(u)' /\ DecodersOK(u)'
  <2>1. Encoded(u)' = Encoded(u) /\ Merged(u)' = Merged(u)
    BY <1>0 DEF Encoded, Merged, IInv, TypeOK
  <2>. QED  BY <1>0, <2>1, StreamKept, DecodersKept DEF IInv
<1>3. SameOrders'
  BY <1>0 DEF IInv, SameOrders
<1>. QED  BY <1>1, <1>2, <1>3 DEF IInv
\* Delivering the next order keeps the invariant.
LEMMA MergePreserves ==
  ASSUME IInv, NEW t \in Traders, Merge(t)
  PROVE  IInv'
<1>. USE StreamAssumption
<1>. DEFINE c == current[t]
            u == IF TakesLocal(t) THEN t ELSE Peer(t)
            n == Count(u, c)
<1>0. /\ pc[t] = "merge" /\ c < NumOrders /\ Available(t)
      /\ current' = [current EXCEPT ![t] = c + 1]
      /\ owner' = owner /\ pc' = pc /\ stream' = stream /\ arrived' = arrived
  BY DEF Merge
<1>1. c \in Nat /\ c + 1 \in Ids /\ c + 1 \in 0..NumOrders /\ NumOrders \in Nat
  <2>1. c \in 0..NumOrders
    BY DEF IInv, TypeOK
  <2>. QED  BY <1>0, <2>1 DEF Ids, StreamAssumption
<1>2. Merged(t) = c /\ Merged(t)' = c + 1 /\ Encoded(t) = NumOrders
  BY <1>0 DEF Merged, Encoded, IInv, TypeOK
<1>3. u \in Traders /\ owner[c + 1] = u
  BY <1>1, TradersFacts DEF TakesLocal, IsOwn, IInv, TypeOK
<1>4. /\ local[t] = Count(t, c) /\ remote[t] = Count(Peer(t), c) /\ Len(done[t]) = c
      /\ done[t] \in Seq(Ids)
  BY <1>2 DEF IInv, DecodersOK, TypeOK
\* The stream has reached id c + 1: at once the own one, because it has an
\* order more than there are in 1..c the other one.
<1>5. Encoded(u) \in Nat /\ c + 1 <= Encoded(u) /\ Len(stream[u]) = Count(u, Encoded(u))
      /\ \A k \in 1..Encoded(u) : owner[k] = u => stream[u][Count(u, k)] = k
  <2>1. Encoded(u) \in Nat
    BY <1>3 DEF Encoded, IInv, TypeOK
  <2>2. Len(stream[u]) = Count(u, Encoded(u))
        /\ \A k \in 1..Encoded(u) : owner[k] = u => stream[u][Count(u, k)] = k
    BY <1>3 DEF IInv, StreamOK
  <2>3. CASE TakesLocal(t)
    BY <1>0, <1>1, <1>2, <2>1, <2>2, <2>3
  <2>4. CASE ~TakesLocal(t)
    <3>1. u = Peer(t) /\ remote[t] < arrived[t] /\ arrived[t] <= Len(stream[Peer(t)])
          /\ arrived[t] \in Nat
      BY <1>0, <2>4 DEF Available, IInv, TypeOK
    <3>2. Count(u, c) < Count(u, Encoded(u))
      <4>1. Count(u, c) \in Nat /\ Count(u, Encoded(u)) \in Nat
        BY <1>1, <2>1, OwnedFinite
      <4>2. remote[t] = Count(u, c)
        BY <1>4, <3>1
      <4>3. Len(stream[Peer(t)]) = Count(u, Encoded(u))
        BY <2>2, <3>1
      <4>. HIDE DEF u
      <4>. QED  BY <3>1, <4>1, <4>2, <4>3
    <3>3. ASSUME Encoded(u) <= c PROVE FALSE
      <4>1. Count(u, Encoded(u)) <= Count(u, c)
        BY <1>1, <2>1, <3>3, CountMono
      <4>2. Count(u, c) \in Nat /\ Count(u, Encoded(u)) \in Nat
        BY <1>1, <2>1, OwnedFinite
      <4>. HIDE DEF u
      <4>. QED  BY <3>2, <4>1, <4>2
    <3>4. ~(Encoded(u) <= c)
      BY <3>3
    <3>. HIDE DEF u
    <3>5. c + 1 <= Encoded(u)
      BY <1>1, <2>1, <3>4
    <3>. QED  BY <2>1, <2>2, <3>5
  <2>. QED  BY <2>3, <2>4
\* It is at the place the decoder has come to.
<1>6. n \in Nat /\ n + 1 = Count(u, c + 1) /\ stream[u][n + 1] = c + 1
  <2>1. n \in Nat
    BY <1>1, OwnedFinite
  <2>2. Count(u, c + 1) = n + 1
    BY <1>1, <1>3, CountStep
  <2>3. c + 1 \in 1..Encoded(u)
    BY <1>1, <1>5
  <2>. QED  BY <1>3, <1>5, <2>1, <2>2, <2>3
<1>7. done' = [done EXCEPT ![t] = Append(done[t], c + 1)]
  <2>1. CASE TakesLocal(t)
    BY <1>4, <1>6, <2>1 DEF Merge
  <2>2. CASE ~TakesLocal(t)
    BY <1>4, <1>6, <2>2 DEF Merge
  <2>. QED  BY <2>1, <2>2
<1>8. /\ local' = [local EXCEPT ![t] = Count(t, c + 1)]
      /\ remote' = [remote EXCEPT ![t] = Count(Peer(t), c + 1)]
  <2>1. Count(Peer(u), c + 1) = Count(Peer(u), c)
    BY <1>1, <1>3, TradersFacts, CountStep
  <2>2. CASE TakesLocal(t)
    <3>1. local' = [local EXCEPT ![t] = local[t] + 1] /\ remote' = remote
      BY <2>2 DEF Merge
    <3>. QED  BY <1>4, <1>6, <2>1, <2>2, <3>1 DEF IInv, TypeOK
  <2>3. CASE ~TakesLocal(t)
    <3>1. remote' = [remote EXCEPT ![t] = remote[t] + 1] /\ local' = local
      BY <2>3 DEF Merge
    <3>2. u = Peer(t) /\ Peer(u) = t
      BY <2>3, TradersFacts
    <3>3. remote' = [remote EXCEPT ![t] = Count(Peer(t), c + 1)]
      BY <1>4, <1>6, <3>1, <3>2
    <3>4. local[t] = Count(t, c + 1)
      BY <1>4, <2>1, <3>2
    <3>. QED  BY <3>1, <3>3, <3>4 DEF IInv, TypeOK
  <2>. QED  BY <2>2, <2>3
<1>. HIDE DEF u, n
<1>9. TypeOK'
  <2>1. \A v : Count(v, c + 1) \in 0..NumOrders
    <3>. TAKE v
    <3>1. Count(v, c + 1) \in Nat
      BY <1>1, OwnedFinite
    <3>2. c + 1 \in Nat /\ c + 1 <= NumOrders
      BY <1>1
    <3>3. Count(v, c + 1) <= c + 1
      BY <3>2, CountBound
    <3>. HIDE DEF c
    <3>. QED  BY <3>1, <3>2, <3>3, <1>1
  <2>2. local' \in [Traders -> 0..NumOrders] /\ remote' \in [Traders -> 0..NumOrders]
    BY <1>8, <2>1 DEF IInv, TypeOK
  <2>3. current' \in [Traders -> 0..NumOrders]
    BY <1>0, <1>1 DEF IInv, TypeOK
  <2>4. done' \in [Traders -> Seq(Ids)]
    BY <1>1, <1>4, <1>7 DEF IInv, TypeOK
  <2>5. remote'[t] <= arrived[t]
    <3>1. CASE TakesLocal(t)
      <4>1. remote'[t] = remote[t]
        BY <3>1 DEF Merge
      <4>. QED  BY <4>1 DEF IInv, TypeOK
    <3>2. CASE ~TakesLocal(t)
      <4>1. remote[t] < arrived[t]
        BY <1>0, <3>2 DEF Available
      <4>2. remote'[t] = remote[t] + 1
        BY <3>2 DEF Merge, IInv, TypeOK
      <4>3. remote[t] \in Nat /\ arrived[t] \in Nat
        BY DEF IInv, TypeOK
      <4>. QED  BY <4>1, <4>2, <4>3
    <3>. QED  BY <3>1, <3>2
  <2>6. \A v \in Traders : remote'[v] <= arrived[v] /\ arrived[v] <= Len(stream[Peer(v)])
    BY <1>8, <2>5 DEF IInv, TypeOK
  <2>. QED  BY <1>0, <2>2, <2>3, <2>4, <2>6 DEF IInv, TypeOK
<1>10. ASSUME NEW v \in Traders PROVE StreamOK(v)'
  <2>1. Encoded(v)' = Encoded(v)
    BY <1>0 DEF Encoded, IInv, TypeOK
  <2>. QED  BY <1>0, <2>1, StreamKept DEF IInv
<1>11. ASSUME NEW v \in Traders PROVE DecodersOK(v)'
  <2>1. CASE v # t
    <3>1. Merged(v)' = Merged(v)
      BY <1>0, <2>1 DEF Merged, IInv, TypeOK
    <3>2. local'[v] = local[v] /\ remote'[v] = remote[v] /\ done'[v] = done[v]
      BY <1>7, <1>8, <2>1 DEF IInv, TypeOK
    <3>. QED  BY <1>0, <3>1, <3>2, DecodersKept DEF IInv
  <2>2. CASE v = t
    <3>1. local'[t] = Count(t, c + 1) /\ remote'[t] = Count(Peer(t), c + 1)
      BY <1>8 DEF IInv, TypeOK
    <3>2. Len(done'[t]) = c + 1
      <4>1. done'[t] = Append(done[t], c + 1)
        BY <1>7 DEF IInv, TypeOK
      <4>. QED  BY <1>4, <4>1
    <3>3. \A w, k : Count(w, k)' = Count(w, k)
      BY <1>0 DEF Count, Owned
    <3>4. DecodersOK(t)'
      BY <1>2, <3>1, <3>2, <3>3 DEF DecodersOK
    <3>. QED  BY <2>2, <3>4
  <2>. QED  BY <2>1, <2>2
<1>12. SameOrders'
  <2>. SUFFICES ASSUME NEW v \in Traders, NEW i \in DOMAIN (done'[v])
                PROVE  done'[v][i] = i
    BY DEF SameOrders
  <2>1. CASE v # t
    <3>1. done'[v] = done[v]
      BY <1>7, <2>1 DEF IInv, TypeOK
    <3>. QED  BY <3>1 DEF IInv, SameOrders
  <2>2. CASE v = t
    <3>1. done'[t] = Append(done[t], c + 1)
      BY <1>7 DEF IInv, TypeOK
    <3>2. \A j \in DOMAIN done[t] : done[t][j] = j
      BY DEF IInv, SameOrders
    <3>3. i \in 1..(c + 1)
      BY <1>4, <2>2, <3>1
    <3>4. CASE i = c + 1
      BY <1>4, <2>2, <3>1, <3>4
    <3>5. CASE i # c + 1
      BY <1>1, <1>4, <2>2, <3>1, <3>2, <3>3, <3>5
    <3>. QED  BY <3>4, <3>5
  <2>. QED  BY <2>1, <2>2
<1>. QED  BY <1>9, <1>10, <1>11, <1>12 DEF IInv

-----------------------------------------------------------------------------

\* Every step keeps the invariant.
LEMMA StepPreserves == IInv /\ [Next]_vars => IInv'
<1>. SUFFICES ASSUME IInv, [Next]_vars PROVE IInv'
  OBVIOUS
<1>1. ASSUME NEW t \in Traders, Step(t) PROVE IInv'
  BY <1>1, EncodePreserves, StartMergingPreserves, MergePreserves, FinishPreserves DEF Step
<1>2. ASSUME NEW t \in Traders, Arrive(t) PROVE IInv'
  BY <1>2, ArrivePreserves
<1>3. CASE UNCHANGED vars
  <2>1. \A v \in Traders : Encoded(v)' = Encoded(v) /\ Merged(v)' = Merged(v)
    BY <1>3 DEF vars, Encoded, Merged
  <2>2. \A v \in Traders : StreamOK(v)' /\ DecodersOK(v)'
    BY <1>3, <2>1, StreamKept, DecodersKept DEF vars, IInv
  <2>. QED  BY <1>3, <2>2 DEF vars, IInv, TypeOK, SameOrders
<1>. QED  BY <1>1, <1>2, <1>3 DEF Next

\* The inductive invariant of OrderStreams.
THEOREM InvariantHolds == Spec => []IInv
BY InitIInv, StepPreserves, PTL DEF Spec

\* Types, and no decoder returns an order that has not come in
\* (OrderMerger::next blocks in the decoder its mask names).
THEOREM TypeCorrect == Spec => []TypeOK
<1>1. IInv => TypeOK
  BY DEF IInv
<1>. QED  BY <1>1, InvariantHolds, PTL

\* For every number of orders, every division of them among the traders and
\* every speed of the network, the engines of both traders are given the
\* orders of a stock in the sequence of their ids (OrderMerger).
THEOREM EnginesAgree == Spec => []SameOrders
<1>1. IInv => SameOrders
  BY DEF IInv
<1>. QED  BY <1>1, InvariantHolds, PTL

-----------------------------------------------------------------------------
(* Reader: the invariant.                                                  *)

Stages == Columns \cup {"scatter", "hooks", "run", "dead"}

AllRows == 0..(Rows - 1)

\* The number of rows the scatter has passed.
Passed == Index(cell[1], cell[2], cell[3])

ReaderTypes ==
  /\ order_id \in IdFiles
  /\ columns \in [Columns -> {"reading", "there", "failed"}]
  /\ main \in Stages
  /\ cell \in (0..ORDER_DX) \X (0..(ORDER_DY - 1)) \X (0..(ORDER_DZ - 1))
  /\ cell[1] = ORDER_DX => cell[2] = 0 /\ cell[3] = 0
  /\ order_id_pos \in [Stocks -> [0..(MaxId - 1) -> {-1} \cup AllRows]]
  /\ at \in [Stocks -> 0..MaxId]
  /\ sent \in [Stocks -> Seq(AllRows)]

\* What has been waited for, and done, at each stage of main.
StageReached ==
  /\ main \notin {"order_id", "dead"} => columns["order_id"] = "there"
  /\ main \in {"type", "price", "volume", "hooks", "run"} => columns["direction"] = "there"
  /\ main \in {"price", "volume", "hooks", "run"} => columns["type"] = "there"
  /\ main \in {"volume", "hooks", "run"} => columns["price"] = "there"
  /\ main \in {"hooks", "run"} => columns["volume"] = "there"
  /\ main \in {"direction", "type", "price", "volume", "hooks", "run"} => cell[1] = ORDER_DX
  /\ main # "run" => \A s \in Stocks : at[s] = 0 /\ sent[s] = <<>>

\* A row passed is at its id, and what is at an id is a row that has it.
Scattered ==
  /\ \A i \in AllRows : i < Passed => order_id_pos[StockOf(i)][order_id[i] - 1] = i
  /\ \A s \in Stocks : \A k \in 0..(MaxId - 1) :
       LET idx == order_id_pos[s][k] IN idx # -1 => StockOf(idx) = s /\ order_id[idx] = k + 1

\* The sequence q holds the rows of stock s at its first n ids, by id.
AreRows(s, q, n) ==
  /\ \A i \in DOMAIN q : StockOf(q[i]) = s /\ order_id[q[i]] <= n
  /\ \A i, j \in DOMAIN q : i < j => order_id[q[i]] < order_id[q[j]]
  /\ \A k \in 0..(MaxId - 1) :
       k < n /\ order_id_pos[s][k] # -1 => \E i \in DOMAIN q : q[i] = order_id_pos[s][k]

\* The rows sent are those at the ids the loop has passed.
SentSoFar == \A s \in Stocks : AreRows(s, sent[s], at[s])

ReaderInv == ReaderTypes /\ StageReached /\ Scattered /\ SentSoFar

-----------------------------------------------------------------------------
(* Rows, cells and stocks.                                                 *)

\* Division undoes multiplication.
LEMMA Quotient ==
  ASSUME NEW q \in Nat, NEW m \in Nat \ {0}, NEW r \in 0..(m - 1)
  PROVE  (q * m + r) \div m = q
OBVIOUS

\* A product of natural numbers grows with its factors.
LEMMA Products ==
  ASSUME NEW a \in Nat, NEW b \in Nat, NEW m \in Nat
  PROVE  /\ a * m \in Nat /\ (a + b) * m = a * m + b * m
         /\ (a * b) * m = a * (b * m)
OBVIOUS

\* The row of a cell belongs to the stock of its x, and the scatter passes one
\* row with each cell.
LEMMA CellRow ==
  ASSUME NEW x \in 0..(ORDER_DX - 1), NEW y \in 0..(ORDER_DY - 1), NEW z \in 0..(ORDER_DZ - 1)
  PROVE  /\ Index(x, y, z) \in AllRows /\ StockOf(Index(x, y, z)) = InTurn(x)
         /\ LET c == Following(x, y, z)
            IN  /\ c \in (0..ORDER_DX) \X (0..(ORDER_DY - 1)) \X (0..(ORDER_DZ - 1))
                /\ c[1] = ORDER_DX => c[2] = 0 /\ c[3] = 0
                /\ Index(c[1], c[2], c[3]) = Index(x, y, z) + 1
<1>1. /\ x \in Nat /\ y \in Nat /\ z \in Nat /\ x + 1 <= ORDER_DX /\ y + 1 <= ORDER_DY /\ z + 1 <= ORDER_DZ
      /\ ORDER_DX \in Nat /\ ORDER_DY \in Nat \ {0} /\ ORDER_DZ \in Nat \ {0}
  BY ReaderAssumption
<1>2. PICK w \in Nat : w = y * ORDER_DZ + z
  BY <1>1, Products
<1>3. PICK m \in Nat : m = ORDER_DY * ORDER_DZ
  BY <1>1, Products
<1>4. w + 1 <= m
  <2>1. PICK e \in Nat : ORDER_DY = (y + 1) + e
    <3>1. ORDER_DY - (y + 1) \in Nat /\ ORDER_DY = (y + 1) + (ORDER_DY - (y + 1))
      BY <1>1
    <3> QED BY <3>1
  <2>2. /\ ORDER_DY * ORDER_DZ = (y + 1) * ORDER_DZ + e * ORDER_DZ /\ e * ORDER_DZ \in Nat
        /\ (y + 1) * ORDER_DZ = y * ORDER_DZ + 1 * ORDER_DZ /\ y * ORDER_DZ \in Nat
    BY <1>1, <2>1, Products
  <2> QED BY <1>1, <1>2, <1>3, <2>2
<1>5. Index(x, y, z) = x * m + w
  <2>1. (x * ORDER_DY + y) * ORDER_DZ = (x * ORDER_DY) * ORDER_DZ + y * ORDER_DZ
    BY <1>1, Products
  <2>2. (x * ORDER_DY) * ORDER_DZ = x * m /\ x * m \in Nat /\ y * ORDER_DZ \in Nat
    BY <1>1, <1>3, Products
  <2> QED BY <1>1, <1>2, <2>1, <2>2 DEF Index
<1>6. Rows = ORDER_DX * m
  BY <1>1, <1>3, Products DEF Rows
<1>7. (x + 1) * m <= ORDER_DX * m /\ (x + 1) * m = x * m + m /\ x * m \in Nat
  <2>1. PICK e \in Nat : ORDER_DX = (x + 1) + e
    <3>1. ORDER_DX - (x + 1) \in Nat /\ ORDER_DX = (x + 1) + (ORDER_DX - (x + 1))
      BY <1>1
    <3> QED BY <3>1
  <2>2. /\ ORDER_DX * m = (x + 1) * m + e * m /\ e * m \in Nat /\ (x + 1) * m \in Nat
        /\ (x + 1) * m = x * m + 1 * m /\ x * m \in Nat
    BY <1>1, <2>1, Products
  <2> QED BY <2>2
<1>8. Index(x, y, z) \in AllRows
  BY <1>1, <1>4, <1>5, <1>6, <1>7 DEF AllRows
<1>9. StockOf(Index(x, y, z)) = InTurn(x)
  <2>1. m # 0 /\ w \in 0..(m - 1)
    BY <1>4
  <2>2. Index(x, y, z) \div m = x
    BY <1>1, <1>5, <2>1, Quotient
  <2> QED BY <1>3, <2>2 DEF StockOf, InTurn
<1>10. PICK c : c = Following(x, y, z)
  OBVIOUS
<1>11. CASE z + 1 < ORDER_DZ
  <2>1. c = <<x, y, z + 1>>
    BY <1>10, <1>11 DEF Following
  <2>2. c[1] = x /\ c[2] = y /\ c[3] = z + 1 /\ z + 1 \in 0..(ORDER_DZ - 1) /\ x \in 0..ORDER_DX /\ x # ORDER_DX
    BY <1>1, <1>11, <2>1
  <2>3. (x * ORDER_DY + y) * ORDER_DZ \in Nat
    <3>1. x * ORDER_DY \in Nat /\ x * ORDER_DY + y \in Nat
      BY <1>1, Products
    <3> QED BY <1>1, <3>1, Products
  <2>4. Index(c[1], c[2], c[3]) = Index(x, y, z) + 1
    BY <1>1, <2>2, <2>3 DEF Index
  <2> QED BY <1>8, <1>9, <1>10, <2>1, <2>2, <2>4
<1>12. CASE z + 1 = ORDER_DZ /\ y + 1 < ORDER_DY
  <2>1. c = <<x, y + 1, 0>>
    BY <1>1, <1>10, <1>12 DEF Following
  <2>2. /\ c[1] = x /\ c[2] = y + 1 /\ c[3] = 0 /\ y + 1 \in 0..(ORDER_DY - 1) /\ 0 \in 0..(ORDER_DZ - 1)
        /\ x \in 0..ORDER_DX /\ x # ORDER_DX
    BY <1>1, <1>12, <2>1
  <2>3. PICK n \in Nat : n = x * ORDER_DY + y
    <3>1. x * ORDER_DY \in Nat
      BY <1>1, Products
    <3> QED BY <1>1, <3>1
  <2>4. x * ORDER_DY + (y + 1) = n + 1
    <3>1. x * ORDER_DY \in Nat
      BY <1>1, Products
    <3> QED BY <1>1, <2>3, <3>1
  <2>5. (n + 1) * ORDER_DZ = n * ORDER_DZ + 1 * ORDER_DZ /\ n * ORDER_DZ \in Nat
    BY <1>1, Products
  <2>6. Index(x, y, z) = n * ORDER_DZ + z /\ Index(c[1], c[2], c[3]) = (n + 1) * ORDER_DZ + 0
    BY <2>2, <2>3, <2>4 DEF Index
  <2>7. Index(c[1], c[2], c[3]) = Index(x, y, z) + 1
    BY <1>1, <1>12, <2>5, <2>6
  <2> QED BY <1>8, <1>9, <1>10, <2>1, <2>2, <2>7
<1>13. CASE z + 1 = ORDER_DZ /\ y + 1 = ORDER_DY
  <2>1. c = <<x + 1, 0, 0>>
    BY <1>1, <1>10, <1>13 DEF Following
  <2>2. /\ c[1] = x + 1 /\ c[2] = 0 /\ c[3] = 0 /\ 0 \in 0..(ORDER_DY - 1) /\ 0 \in 0..(ORDER_DZ - 1)
        /\ x + 1 \in 0..ORDER_DX
    BY <1>1, <1>13, <2>1
  <2>3. Index(c[1], c[2], c[3]) = (x + 1) * m
    <3>1. (x + 1) * ORDER_DY \in Nat /\ ((x + 1) * ORDER_DY) * ORDER_DZ = (x + 1) * m
      BY <1>1, <1>3, Products
    <3>2. (x + 1) * ORDER_DY + 0 = (x + 1) * ORDER_DY /\ (x + 1) * m + 0 = (x + 1) * m
      BY <1>7, <3>1
    <3> QED BY <2>2, <3>1, <3>2 DEF Index
  <2>4. w + 1 = m
    <3>1. ORDER_DY * ORDER_DZ = y * ORDER_DZ + 1 * ORDER_DZ /\ y * ORDER_DZ \in Nat
      BY <1>1, <1>13, Products
    <3> QED BY <1>1, <1>2, <1>3, <1>13, <3>1
  <2>5. Index(c[1], c[2], c[3]) = Index(x, y, z) + 1
    BY <1>5, <1>7, <2>3, <2>4
  <2> QED BY <1>8, <1>9, <1>10, <2>1, <2>2, <2>5
<1> QED BY <1>1, <1>11, <1>12, <1>13

\* When the loops are over all rows are passed.
LEMMA AllPassed == Index(ORDER_DX, 0, 0) = Rows /\ Index(0, 0, 0) = 0
<1>1. /\ ORDER_DX \in Nat /\ ORDER_DY \in Nat /\ ORDER_DZ \in Nat /\ 0 \in Nat
  BY ReaderAssumption
<1>2. ORDER_DX * ORDER_DY \in Nat /\ (ORDER_DX * ORDER_DY) * ORDER_DZ \in Nat
  BY <1>1, Products
<1>3. Index(ORDER_DX, 0, 0) = Rows
  BY <1>2 DEF Index, Rows
<1>4. 0 * ORDER_DY = 0 /\ 0 * ORDER_DZ = 0
  BY <1>1
<1> QED BY <1>3, <1>4 DEF Index

\* Every row has a stock.
LEMMA RowStock ==
  ASSUME NEW i \in AllRows
  PROVE  StockOf(i) \in Stocks
<1>1. /\ ORDER_DY * ORDER_DZ \in Nat /\ ORDER_DY * ORDER_DZ # 0 /\ NR_STOCKS \in Nat \ {0}
  BY ReaderAssumption
<1>2. i \in Nat
  BY DEF AllRows
<1>3. PICK q : q = i \div (ORDER_DY * ORDER_DZ)
  OBVIOUS
<1>4. q \in Int
  BY <1>1, <1>2, <1>3
<1>5. q % NR_STOCKS \in 0..(NR_STOCKS - 1)
  BY <1>1, <1>4
<1> QED BY <1>3, <1>5 DEF StockOf, Stocks

\* The bounds of the tables.
LEMMA Sizes == MaxId \in Nat /\ Rows \in Nat /\ Stocks \subseteq Nat
<1>1. /\ ORDER_DX \in Nat /\ ORDER_DY \in Nat /\ ORDER_DZ \in Nat /\ NR_STOCKS \in Nat \ {0}
  BY ReaderAssumption
<1>2. ORDER_DX * ORDER_DY \in Nat /\ (ORDER_DX * ORDER_DY) * ORDER_DZ \in Nat
  BY <1>1, Products
<1>3. PICK r \in Nat : r = Rows
  BY <1>2 DEF Rows
<1>4. r \div NR_STOCKS \in Nat
  BY <1>1
<1> QED BY <1>1, <1>3, <1>4 DEF MaxId, NR_ORDERS_SINGLE_STK_HALF, Stocks

\* What a file of ids is.
LEMMA FileOfIds ==
  ASSUME NEW f \in IdFiles
  PROVE  /\ f \in [AllRows -> 1..MaxId]
         /\ \A i, j \in AllRows : StockOf(i) = StockOf(j) /\ f[i] = f[j] => i = j
BY ReaderAssumption DEF AllRows

\* To start with no row is passed and none is sent.
LEMMA InitReader == ReaderInit => ReaderInv
<1> SUFFICES ASSUME ReaderInit PROVE ReaderInv
  OBVIOUS
<1>1. MaxId \in Nat /\ ORDER_DX \in Nat \ {0} /\ ORDER_DY \in Nat \ {0} /\ ORDER_DZ \in Nat \ {0}
  BY Sizes, ReaderAssumption
<1>2. cell = <<0, 0, 0>> /\ cell[1] = 0 /\ cell[2] = 0 /\ cell[3] = 0
  BY DEF ReaderInit
<1>3. Passed = 0
  BY <1>2, AllPassed DEF Passed
<1>4. ReaderTypes
  <2>1. cell \in (0..ORDER_DX) \X (0..(ORDER_DY - 1)) \X (0..(ORDER_DZ - 1))
    BY <1>1, <1>2
  <2>2. order_id_pos \in [Stocks -> [0..(MaxId - 1) -> {-1} \cup AllRows]]
    BY DEF ReaderInit
  <2> QED BY <1>1, <1>2, <2>1, <2>2 DEF ReaderInit, ReaderTypes, Stages, Columns
<1>5. StageReached
  BY DEF ReaderInit, StageReached
<1>6. Scattered
  BY <1>3 DEF ReaderInit, Scattered, AllRows
<1>7. SentSoFar
  BY DEF ReaderInit, SentSoFar, AreRows
<1> QED BY <1>4, <1>5, <1>6, <1>7 DEF ReaderInv

\* A read ends: no column that was there is lost.
LEMMA ReadOneKeeps ==
  ASSUME ReaderInv, NEW c \in Columns, ReadOne(c)
  PROVE  ReaderInv'
<1>1. PICK result \in {"there", "failed"} : columns' = [columns EXCEPT ![c] = result]
  BY DEF ReadOne
<1>2. columns[c] = "reading" /\ UNCHANGED <<order_id, main, cell, order_id_pos, at, sent>>
  BY DEF ReadOne
<1>3. columns \in [Columns -> {"reading", "there", "failed"}]
  BY DEF ReaderInv, ReaderTypes
<1>4. \A d \in Columns : columns[d] = "there" => columns'[d] = "there"
  BY <1>1, <1>2, <1>3
<1>5. columns' \in [Columns -> {"reading", "there", "failed"}]
  BY <1>1, <1>3
<1>6. ReaderTypes'
  BY <1>2, <1>5 DEF ReaderInv, ReaderTypes
<1>7. StageReached'
  BY <1>2, <1>4 DEF ReaderInv, StageReached, Columns
<1>8. Passed' = Passed
  BY <1>2 DEF Passed
<1>9. Scattered' /\ SentSoFar'
  BY <1>2, <1>8 DEF ReaderInv, Scattered, SentSoFar, AreRows
<1> QED BY <1>6, <1>7, <1>9 DEF ReaderInv

\* Main goes on, or the process ends; the stocks have not started.
LEMMA MainMoves ==
  ASSUME ReaderInv, main # "run", main' \in Stages, StageReached',
         UNCHANGED <<order_id, columns, cell, order_id_pos, at, sent>>
  PROVE  ReaderInv'
<1>1. ReaderTypes'
  BY DEF ReaderInv, ReaderTypes
<1>2. Passed' = Passed
  BY DEF Passed
<1>3. Scattered' /\ SentSoFar'
  BY <1>2 DEF ReaderInv, Scattered, SentSoFar, AreRows
<1> QED BY <1>1, <1>3 DEF ReaderInv

\* The steps of main that wait for a column.
LEMMA GetKeeps ==
  ASSUME ReaderInv, NEW c \in Columns, Get(c)
  PROVE  ReaderInv'
<1>1. /\ main = c /\ UNCHANGED <<order_id, columns, cell, order_id_pos, at, sent>>
      /\ \/ columns[c] = "there" /\ main' = After[c]
         \/ main' = "dead"
  BY DEF Get, Ready
<1>2. /\ main = "order_id" => main' \in {"scatter", "dead"} /\ (main' = "scatter" => columns["order_id"] = "there")
      /\ main = "direction" => main' \in {"type", "dead"} /\ (main' = "type" => columns["direction"] = "there")
      /\ main = "type" => main' \in {"price", "dead"} /\ (main' = "price" => columns["type"] = "there")
      /\ main = "price" => main' \in {"volume", "dead"} /\ (main' = "volume" => columns["price"] = "there")
      /\ main = "volume" => main' \in {"hooks", "dead"} /\ (main' = "hooks" => columns["volume"] = "there")
  BY <1>1 DEF After
<1>3. main \in Columns /\ main # "run" /\ main' \in Stages
  BY <1>1, <1>2 DEF Columns, Stages
<1>4. StageReached'
  BY <1>1, <1>2, <1>3 DEF ReaderInv, StageReached, Columns
<1> QED BY <1>1, <1>3, <1>4, MainMoves

\* The steps of main that read other files.
LEMMA OtherFilesKeep ==
  ASSUME ReaderInv, ReadPrevClose \/ ReadHooks
  PROVE  ReaderInv'
<1>1. CASE ReadPrevClose
  <2>1. /\ main = "scatter" /\ cell[1] = ORDER_DX /\ main' \in {"direction", "dead"}
        /\ UNCHANGED <<order_id, columns, cell, order_id_pos, at, sent>>
    BY <1>1 DEF ReadPrevClose
  <2>2. main' \in Stages /\ StageReached'
    BY <2>1 DEF ReaderInv, StageReached, Stages, Columns
  <2> QED BY <2>1, <2>2, MainMoves
<1>2. CASE ReadHooks
  <2>1. /\ main = "hooks" /\ main' \in {"run", "dead"}
        /\ UNCHANGED <<order_id, columns, cell, order_id_pos, at, sent>>
    BY <1>2 DEF ReadHooks
  <2>2. main' \in Stages /\ StageReached'
    BY <2>1 DEF ReaderInv, StageReached, Stages, Columns
  <2> QED BY <2>1, <2>2, MainMoves
<1> QED BY <1>1, <1>2

\* The row of the cell is put at its id; no other row of its stock has it.
LEMMA ScatterKeeps ==
  ASSUME ReaderInv, Scatter
  PROVE  ReaderInv'
<1>1. /\ ORDER_DX \in Nat /\ ORDER_DY \in Nat /\ ORDER_DZ \in Nat /\ MaxId \in Nat
  BY Sizes, ReaderAssumption
<1>2. PICK x, y, z : x = cell[1] /\ y = cell[2] /\ z = cell[3]
  OBVIOUS
<1>3. /\ main = "scatter" /\ x < ORDER_DX
      /\ order_id_pos' = [order_id_pos EXCEPT ![InTurn(x)][order_id[Index(x, y, z)] - 1] = Index(x, y, z)]
      /\ cell' = Following(x, y, z)
      /\ UNCHANGED <<order_id, columns, main, at, sent>>
  BY <1>2 DEF Scatter
<1>4. x \in 0..(ORDER_DX - 1) /\ y \in 0..(ORDER_DY - 1) /\ z \in 0..(ORDER_DZ - 1)
  <2>1. cell \in (0..ORDER_DX) \X (0..(ORDER_DY - 1)) \X (0..(ORDER_DZ - 1))
    BY DEF ReaderInv, ReaderTypes
  <2>2. x \in 0..ORDER_DX /\ y \in 0..(ORDER_DY - 1) /\ z \in 0..(ORDER_DZ - 1)
    BY <1>2, <2>1
  <2> QED BY <1>1, <1>3, <2>2
<1>5. PICK idx : idx = Index(x, y, z)
  OBVIOUS
<1>6. PICK s : s = InTurn(x)
  OBVIOUS
<1>7. idx \in AllRows /\ StockOf(idx) = s /\ s \in Stocks
  BY <1>4, <1>5, <1>6, CellRow, RowStock
<1>8. /\ cell' \in (0..ORDER_DX) \X (0..(ORDER_DY - 1)) \X (0..(ORDER_DZ - 1))
      /\ cell'[1] = ORDER_DX => cell'[2] = 0 /\ cell'[3] = 0
      /\ Passed = idx /\ Passed' = idx + 1
  BY <1>2, <1>3, <1>4, <1>5, CellRow DEF Passed
<1>9. /\ order_id \in [AllRows -> 1..MaxId]
      /\ \A i, j \in AllRows : StockOf(i) = StockOf(j) /\ order_id[i] = order_id[j] => i = j
  BY FileOfIds DEF ReaderInv, ReaderTypes
<1>10. PICK k : k = order_id[idx] - 1
  OBVIOUS
<1>11. k \in 0..(MaxId - 1) /\ order_id[idx] = k + 1
  BY <1>1, <1>7, <1>9, <1>10
<1>12. order_id_pos \in [Stocks -> [0..(MaxId - 1) -> {-1} \cup AllRows]]
  BY DEF ReaderInv, ReaderTypes
<1>13. order_id_pos' = [order_id_pos EXCEPT ![s][k] = idx]
  BY <1>3, <1>5, <1>6, <1>10
<1>14. /\ order_id_pos' \in [Stocks -> [0..(MaxId - 1) -> {-1} \cup AllRows]]
       /\ order_id_pos'[s][k] = idx
       /\ \A a \in Stocks : \A b \in 0..(MaxId - 1) : a # s \/ b # k => order_id_pos'[a][b] = order_id_pos[a][b]
  <2>1. k \in 0..(MaxId - 1) /\ s \in Stocks /\ idx \in {-1} \cup AllRows
    BY <1>7, <1>11
  <2>2. order_id_pos[s] \in [0..(MaxId - 1) -> {-1} \cup AllRows]
    BY <1>12, <2>1
  <2>3. PICK row : row = [order_id_pos[s] EXCEPT ![k] = idx]
    OBVIOUS
  <2>4. /\ row \in [0..(MaxId - 1) -> {-1} \cup AllRows] /\ row[k] = idx
        /\ \A b \in 0..(MaxId - 1) : b # k => row[b] = order_id_pos[s][b]
    BY <2>1, <2>2, <2>3
  <2>5. order_id_pos' = [order_id_pos EXCEPT ![s] = row]
    BY <1>13, <2>3
  <2>6. /\ order_id_pos' \in [Stocks -> [0..(MaxId - 1) -> {-1} \cup AllRows]]
        /\ order_id_pos'[s] = row /\ \A a \in Stocks : a # s => order_id_pos'[a] = order_id_pos[a]
    BY <1>12, <2>1, <2>4, <2>5
  <2> QED BY <2>4, <2>6
<1>15. ReaderTypes'
  BY <1>3, <1>8, <1>14 DEF ReaderInv, ReaderTypes
<1>16. StageReached'
  BY <1>3 DEF ReaderInv, StageReached
<1>17. ASSUME NEW i \in AllRows, i < idx + 1
       PROVE  order_id_pos'[StockOf(i)][order_id[i] - 1] = i
  <2>1. StockOf(i) \in Stocks /\ order_id[i] \in 1..MaxId /\ order_id[i] - 1 \in 0..(MaxId - 1) /\ i \in Nat /\ idx \in Nat
    BY <1>1, <1>7, <1>9, RowStock DEF AllRows
  <2>2. CASE i = idx
    BY <1>7, <1>10, <1>14, <2>2
  <2>3. CASE i # idx
    <3>1. i < idx
      BY <1>17, <2>1, <2>3
    <3>2. order_id_pos[StockOf(i)][order_id[i] - 1] = i
      BY <1>8, <3>1 DEF ReaderInv, Scattered
    <3>3. StockOf(i) # s \/ order_id[i] # order_id[idx]
      BY <1>7, <1>9, <2>3
    <3>4. StockOf(i) # s \/ order_id[i] - 1 # k
      BY <1>11, <2>1, <3>3
    <3> QED BY <1>14, <2>1, <3>2, <3>4
  <2> QED BY <2>2, <2>3
<1>18. ASSUME NEW a \in Stocks, NEW b \in 0..(MaxId - 1), order_id_pos'[a][b] # -1
       PROVE  StockOf(order_id_pos'[a][b]) = a /\ order_id[order_id_pos'[a][b]] = b + 1
  <2>1. CASE a = s /\ b = k
    BY <1>7, <1>11, <1>14, <2>1
  <2>2. CASE a # s \/ b # k
    BY <1>14, <1>18, <2>2 DEF ReaderInv, Scattered
  <2> QED BY <2>1, <2>2
<1>19. Scattered'
  BY <1>3, <1>8, <1>17, <1>18 DEF Scattered
<1>20. \A t \in Stocks : at'[t] = 0 /\ sent'[t] = <<>>
  BY <1>3 DEF ReaderInv, StageReached
<1>21. SentSoFar'
  BY <1>20 DEF SentSoFar, AreRows
<1> QED BY <1>15, <1>16, <1>19, <1>21 DEF ReaderInv

\* A stock passes one id: the row at it is its own and comes after all it has sent.
LEMMA EncodeRowKeeps ==
  ASSUME ReaderInv, NEW s \in Stocks, EncodeRow(s)
  PROVE  ReaderInv'
<1>1. MaxId \in Nat
  BY Sizes
<1>2. PICK idx : idx = order_id_pos[s][at[s]]
  OBVIOUS
<1>3. /\ main = "run" /\ at[s] < MaxId
      /\ at' = [at EXCEPT ![s] = at[s] + 1]
      /\ sent' = [sent EXCEPT ![s] = IF idx # -1 THEN Append(sent[s], idx) ELSE sent[s]]
      /\ UNCHANGED <<order_id, columns, main, cell, order_id_pos>>
  BY <1>2 DEF EncodeRow, HasRow
<1>4. /\ at \in [Stocks -> 0..MaxId] /\ sent \in [Stocks -> Seq(AllRows)]
      /\ order_id_pos \in [Stocks -> [0..(MaxId - 1) -> {-1} \cup AllRows]]
  BY DEF ReaderInv, ReaderTypes
<1>5. /\ at[s] \in 0..(MaxId - 1) /\ at[s] + 1 \in 0..MaxId /\ sent[s] \in Seq(AllRows)
      /\ idx \in {-1} \cup AllRows
  BY <1>1, <1>2, <1>3, <1>4
<1>6. idx # -1 => idx \in AllRows /\ StockOf(idx) = s /\ order_id[idx] = at[s] + 1
  BY <1>2, <1>5 DEF ReaderInv, Scattered
<1>7. PICK q : q = IF idx # -1 THEN Append(sent[s], idx) ELSE sent[s]
  OBVIOUS
<1>8. q \in Seq(AllRows)
  BY <1>5, <1>6, <1>7
<1>9. /\ at'[s] = at[s] + 1 /\ sent'[s] = q
      /\ \A t \in Stocks : t # s => at'[t] = at[t] /\ sent'[t] = sent[t]
      /\ at' \in [Stocks -> 0..MaxId] /\ sent' \in [Stocks -> Seq(AllRows)]
  BY <1>3, <1>4, <1>5, <1>7, <1>8
<1>10. ReaderTypes'
  BY <1>3, <1>9 DEF ReaderInv, ReaderTypes
<1>11. StageReached'
  BY <1>3 DEF ReaderInv, StageReached
<1>12. Passed' = Passed
  BY <1>3 DEF Passed
<1>13. Scattered'
  BY <1>3, <1>12 DEF ReaderInv, Scattered
<1>14. order_id \in [AllRows -> 1..MaxId]
  BY FileOfIds DEF ReaderInv, ReaderTypes
<1>15. /\ \A i \in DOMAIN sent[s] : /\ sent[s][i] \in AllRows /\ StockOf(sent[s][i]) = s
                                    /\ order_id[sent[s][i]] <= at[s] /\ order_id[sent[s][i]] \in Nat
       /\ \A i, j \in DOMAIN sent[s] : i < j => order_id[sent[s][i]] < order_id[sent[s][j]]
       /\ \A k \in 0..(MaxId - 1) :
            k < at[s] /\ order_id_pos[s][k] # -1 => \E i \in DOMAIN sent[s] : sent[s][i] = order_id_pos[s][k]
  <2>1. AreRows(s, sent[s], at[s])
    BY DEF ReaderInv, SentSoFar
  <2>2. \A i \in DOMAIN sent[s] : sent[s][i] \in AllRows
    BY <1>5
  <2>3. \A r \in AllRows : order_id[r] \in Nat
    BY <1>1, <1>14
  <2> QED BY <2>1, <2>2, <2>3 DEF AreRows
<1>16. AreRows(s, q, at[s] + 1)
  <2>1. CASE idx = -1
    <3>1. q = sent[s]
      BY <1>7, <2>1
    <3>2. \A k \in 0..(MaxId - 1) : k < at[s] + 1 => k = at[s] \/ k < at[s]
      BY <1>1, <1>5
    <3>3. \A i \in DOMAIN q : order_id[q[i]] <= at[s] + 1
      BY <1>1, <1>5, <1>15, <3>1
    <3> QED BY <1>2, <1>15, <2>1, <3>1, <3>2, <3>3 DEF AreRows
  <2>2. CASE idx # -1
    <3>1. q = Append(sent[s], idx) /\ Len(sent[s]) \in Nat
      BY <1>5, <1>7, <2>2
    <3>2. /\ DOMAIN sent[s] = 1..Len(sent[s]) /\ DOMAIN q = 1..(Len(sent[s]) + 1)
          /\ q[Len(sent[s]) + 1] = idx
          /\ \A i \in 1..Len(sent[s]) : q[i] = sent[s][i]
      BY <1>5, <1>6, <2>2, <3>1, AppendProperties
    <3>3. \A i \in DOMAIN q : i = Len(sent[s]) + 1 \/ i \in DOMAIN sent[s]
      BY <3>1, <3>2
    <3>4. ASSUME NEW i \in DOMAIN q
          PROVE  StockOf(q[i]) = s /\ order_id[q[i]] <= at[s] + 1
      <4>1. CASE i = Len(sent[s]) + 1
        BY <1>1, <1>5, <1>6, <2>2, <3>2, <4>1
      <4>2. CASE i \in DOMAIN sent[s]
        <5>1. q[i] = sent[s][i]
          BY <3>2, <4>2
        <5>2. order_id[sent[s][i]] <= at[s] /\ order_id[sent[s][i]] \in Nat /\ at[s] \in Nat
          BY <1>5, <1>15, <4>2
        <5> QED BY <1>15, <4>2, <5>1, <5>2
      <4> QED BY <3>3, <4>1, <4>2
    <3>5. ASSUME NEW i \in DOMAIN q, NEW j \in DOMAIN q, i < j
          PROVE  order_id[q[i]] < order_id[q[j]]
      <4>1. i \in DOMAIN sent[s]
        BY <3>1, <3>2, <3>5
      <4>2. CASE j = Len(sent[s]) + 1
        <5>1. order_id[q[i]] <= at[s] /\ order_id[q[i]] \in Nat /\ at[s] \in Nat
          BY <1>5, <1>15, <3>2, <4>1
        <5>2. order_id[q[j]] = at[s] + 1
          BY <1>6, <2>2, <3>2, <4>2
        <5> QED BY <5>1, <5>2
      <4>3. CASE j \in DOMAIN sent[s]
        BY <1>15, <3>2, <3>5, <4>1, <4>3
      <4> QED BY <3>3, <4>2, <4>3
    <3>6. ASSUME NEW k \in 0..(MaxId - 1), k < at[s] + 1, order_id_pos[s][k] # -1
          PROVE  \E i \in DOMAIN q : q[i] = order_id_pos[s][k]
      <4>1. CASE k = at[s]
        BY <1>2, <3>1, <3>2, <4>1
      <4>2. CASE k < at[s]
        <5>1. PICK i \in DOMAIN sent[s] : sent[s][i] = order_id_pos[s][k]
          BY <1>15, <3>6, <4>2
        <5>2. i \in DOMAIN q /\ q[i] = sent[s][i]
          BY <3>1, <3>2, <5>1
        <5> QED BY <5>1, <5>2
      <4>3. k = at[s] \/ k < at[s]
        BY <1>1, <1>5, <3>6
      <4> QED BY <4>1, <4>2, <4>3
    <3> QED BY <3>4, <3>5, <3>6 DEF AreRows
  <2> QED BY <2>1, <2>2
<1>17. SentSoFar'
  <2>1. ASSUME NEW t \in Stocks PROVE AreRows(t, sent[t], at[t])'
    <3>1. PICK p, n : p = sent'[t] /\ n = at'[t]
      OBVIOUS
    <3>2. AreRows(t, p, n)
      BY <1>9, <1>16, <3>1 DEF ReaderInv, SentSoFar
    <3> QED BY <1>3, <3>1, <3>2 DEF AreRows
  <2> QED BY <2>1 DEF SentSoFar
<1> QED BY <1>10, <1>11, <1>13, <1>17 DEF ReaderInv

\* Every step keeps the invariant.
LEMMA NextReader == ReaderInv /\ [ReaderNext]_readerVars => ReaderInv'
<1> SUFFICES ASSUME ReaderInv, [ReaderNext]_readerVars PROVE ReaderInv'
  OBVIOUS
<1>1. CASE \E c \in Columns : ReadOne(c) \/ Get(c)
  BY <1>1, ReadOneKeeps, GetKeeps
<1>2. CASE Scatter \/ ReadPrevClose \/ ReadHooks
  BY <1>2, ScatterKeeps, OtherFilesKeep
<1>3. CASE \E s \in Stocks : EncodeRow(s)
  BY <1>3, EncodeRowKeeps
<1>4. CASE UNCHANGED readerVars
  <2>1. UNCHANGED <<order_id, columns, main, cell, order_id_pos, at, sent>>
    BY <1>4 DEF readerVars
  <2>2. Passed' = Passed
    BY <2>1 DEF Passed
  <2> QED BY <2>1, <2>2 DEF ReaderInv, ReaderTypes, StageReached, Scattered, SentSoFar, AreRows
<1> QED BY <1>1, <1>2, <1>3, <1>4 DEF ReaderNext

\* The reader's state is in order in every state.
LEMMA AlwaysReader == ReaderSpec => []ReaderInv
BY InitReader, NextReader, PTL DEF ReaderSpec

\* No stock encodes a row before all five columns are there: main has waited
\* for each of them and for the hooks before the stocks start.
THEOREM ReadBeforeUse == ReaderSpec => []OnlyWhatWasRead
<1>1. ReaderInv => OnlyWhatWasRead
  <2> SUFFICES ASSUME ReaderInv, NEW s \in Stocks, at[s] > 0, NEW c \in Columns PROVE columns[c] = "there"
    BY DEF OnlyWhatWasRead
  <2>1. main = "run"
    BY DEF ReaderInv, StageReached
  <2> QED BY <2>1 DEF ReaderInv, StageReached, Columns
<1> QED BY <1>1, AlwaysReader, PTL

\* Each stock sends rows of its own, in the order of their ids, and all of them
\* once its loop is over.
THEOREM RowsById == ReaderSpec => []OwnRowsById
<1>1. ASSUME ReaderInv, NEW s \in Stocks
      PROVE  /\ \A i \in DOMAIN sent[s] : StockOf(sent[s][i]) = s
             /\ \A i, j \in DOMAIN sent[s] : i < j => order_id[sent[s][i]] < order_id[sent[s][j]]
  BY <1>1 DEF ReaderInv, SentSoFar, AreRows
<1>2. ASSUME ReaderInv, NEW s \in Stocks, at[s] = MaxId, NEW i \in 0..(Rows - 1), StockOf(i) = s
      PROVE  \E k \in DOMAIN sent[s] : sent[s][k] = i
  <2>1. i \in AllRows /\ order_id \in [AllRows -> 1..MaxId] /\ MaxId \in Nat /\ i < Rows
    BY <1>2, FileOfIds, Sizes DEF ReaderInv, ReaderTypes, AllRows
  <2>2. order_id[i] \in 1..MaxId
    BY <2>1
  <2>3. main = "run"
    BY <1>2, <2>1, <2>2 DEF ReaderInv, StageReached
  <2>4. cell[1] = ORDER_DX /\ cell[2] = 0 /\ cell[3] = 0
    BY <1>2, <2>3 DEF ReaderInv, StageReached, ReaderTypes
  <2>5. Passed = Rows
    BY <2>4, AllPassed DEF Passed
  <2>6. order_id_pos[s][order_id[i] - 1] = i
    BY <1>2, <2>1, <2>5 DEF ReaderInv, Scattered
  <2>7. order_id[i] - 1 \in 0..(MaxId - 1) /\ order_id[i] - 1 < at[s] /\ i # -1
    BY <1>2, <2>1, <2>2
  <2> QED BY <1>2, <2>6, <2>7 DEF ReaderInv, SentSoFar, AreRows
<1>3. ReaderInv => OwnRowsById
  BY <1>1, <1>2 DEF OwnRowsById
<1> QED BY <1>3, AlwaysReader, PTL
=============================================================================
