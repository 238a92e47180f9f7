--------------------------- MODULE BitStreamProofs --------------------------
(***************************************************************************)
(* Proofs about what becomes of an order between two traders.  First       *)
(* Codec, for every width of its fields: the orders decoded are those      *)
(* encoded.  Then BitStream, for any number of bits and size of packets:   *)
(* types, and that the bits come out in the order they were put.           *)
(***************************************************************************)
EXTENDS BitStream, Codec, SequenceTheorems, WellFoundedInduction, TLAPS

-----------------------------------------------------------------------------
(* Codec: numbers, and the bits of one order.                              *)

\* A set of numbers that is not empty has a least one.
LEMMA Least ==
  ASSUME NEW T \in SUBSET Nat, T # {}
  PROVE  \E n \in T : \A m \in T : n <= m
<1>1. IsWellFoundedOn(OpToRel(<, Nat), Nat)
  BY NatLessThanWellFounded
<1>2. PICK x \in T : \A y \in T : ~(<<y, x>> \in OpToRel(<, Nat))
  BY <1>1, WFMin
<1>3. ASSUME NEW y \in T PROVE x <= y
  <2>1. CASE y < x
    <3>1. <<y, x>> \in {ss \in Nat \X Nat : ss[1] < ss[2]}
      BY <2>1
    <3> QED BY <3>1, <1>2 DEF OpToRel
  <2> QED BY <2>1
<1> QED BY <1>3

\* Quotient and remainder are the only numbers that divide.
LEMMA Division ==
  ASSUME NEW a \in Int, NEW b \in Nat \ {0}, NEW q \in Int, NEW r \in 0..(b - 1),
         a = b * q + r
  PROVE  a \div b = q /\ a % b = r
OBVIOUS

\* They exist.
LEMMA Divided ==
  ASSUME NEW a \in Int, NEW b \in Nat \ {0}
  PROVE  /\ a \div b \in Int /\ a % b \in 0..(b - 1)
         /\ a = b * (a \div b) + (a % b)
OBVIOUS

\* The recursion that defines Weight has a solution.
LEMMA WeightRec ==
  ASSUME WordBits \in Nat
  PROVE  Weight = [i \in 0..WordBits |-> IF i = 0 THEN 1 ELSE 2 * Weight[i - 1]]
<1> DEFINE Solves(f, n) == f = [i \in 0..n |-> IF i = 0 THEN 1 ELSE 2 * f[i - 1]]
           T == {n \in Nat : ~ \E f : Solves(f, n)}
<1>1. CASE T # {}
  <2>1. PICK n \in T : \A m \in T : n <= m
    BY <1>1, Least
  <2>2. n # 0
    <3>1. Solves([i \in 0..0 |-> 1], 0)
      OBVIOUS
    <3> QED BY <3>1
  <2>3. n \in Nat /\ n - 1 \in Nat /\ n - 1 \notin T
    <3>1. n \in Nat /\ n - 1 \in Nat
      BY <2>2
    <3>2. ~ (n <= n - 1)
      BY <3>1
    <3> HIDE DEF T
    <3> QED BY <3>1, <3>2, <2>1
  <2>4. PICK f : Solves(f, n - 1)
    BY <2>3
  <2> DEFINE g == [i \in 0..n |-> IF i = n THEN 2 * f[n - 1] ELSE f[i]]
  <2>5. ASSUME NEW i \in 0..n PROVE g[i] = IF i = 0 THEN 1 ELSE 2 * g[i - 1]
    <3>1. CASE i = n
      BY <3>1, <2>2
    <3>2. CASE i # n
      <4>1. i \in 0..(n - 1)
        BY <3>2
      <4>2. f[i] = IF i = 0 THEN 1 ELSE 2 * f[i - 1]
        BY <4>1, <2>4
      <4> QED BY <4>1, <4>2
    <3> QED BY <3>1, <3>2
  <2>6. Solves(g, n)
    BY <2>5
  <2> QED BY <2>6, <2>1
<1>2. CASE T = {}
  <2>1. \E f : Solves(f, WordBits)
    BY <1>2
  <2> QED BY <2>1 DEF Weight
<1> QED BY <1>1, <1>2

\* One digit more: what v \div W says of v % W.
LEMMA OneMore ==
  ASSUME NEW v \in Nat, NEW w \in Nat \ {0}
  PROVE  v % (2 * w) = (v % w) + ((v \div w) % 2) * w
<1> DEFINE q == v \div w
           r == v % w
           h == q \div 2
           b == q % 2
<1>1. q \in Int /\ r \in 0..(w - 1) /\ v = w * q + r
  BY Divided
<1>2. h \in Int /\ b \in 0..1 /\ q = 2 * h + b
  BY <1>1
<1> HIDE DEF q, r, h, b
<1>3. b = 0 \/ b = 1
  BY <1>2
<1>4. v = (2 * w) * h + (r + b * w)
  <2>1. w * q = w * (2 * h + b)
    BY <1>2
  <2>2. w * (2 * h + b) = (2 * w) * h + b * w
    BY <1>2
  <2> QED BY <2>1, <2>2, <1>1, <1>2
<1>5. r + b * w \in 0..(2 * w - 1)
  <2>1. b * w = 0 \/ b * w = w
    BY <1>3
  <2> QED BY <2>1, <1>1
<1>6. v % (2 * w) = r + b * w
  <2>1. 2 * w \in Nat \ {0}
    OBVIOUS
  <2> DEFINE w2 == 2 * w
             r2 == r + b * w
  <2>2. v \in Int /\ w2 \in Nat \ {0} /\ r2 \in 0..(w2 - 1) /\ v = w2 * h + r2
    BY <2>1, <1>4, <1>5
  <2> HIDE DEF w2, r2
  <2>3. v % w2 = r2
    BY <2>2, <1>2, Division
  <2> QED BY <2>3 DEF w2, r2
<1> QED BY <1>6 DEF r, b, q

\* Weights are positive and double from one bit to the next.
LEMMA Weights ==
  ASSUME WordBits \in Nat
  PROVE  /\ Weight[0] = 1
         /\ \A i \in 0..WordBits : Weight[i] \in Nat \ {0}
         /\ \A i \in 0..(WordBits - 1) : Weight[i + 1] = 2 * Weight[i]
<1>1. \A i \in 0..WordBits : Weight[i] = IF i = 0 THEN 1 ELSE 2 * Weight[i - 1]
  <2> DEFINE body == [i \in 0..WordBits |-> IF i = 0 THEN 1 ELSE 2 * Weight[i - 1]]
  <2>1. \A i \in 0..WordBits : body[i] = IF i = 0 THEN 1 ELSE 2 * Weight[i - 1]
    OBVIOUS
  <2>2. Weight = body
    BY WeightRec, Zenon
  <2> HIDE DEF body
  <2> QED BY <2>1, <2>2
<1>2. Weight[0] = 1
  BY <1>1
<1>3. \A i \in 0..(WordBits - 1) : Weight[i + 1] = 2 * Weight[i]
  <2> TAKE i \in 0..(WordBits - 1)
  <2>1. i + 1 \in 0..WordBits /\ i + 1 # 0 /\ (i + 1) - 1 = i
    OBVIOUS
  <2> QED BY <2>1, <1>1
<1>4. \A i \in 0..WordBits : Weight[i] \in Nat \ {0}
  <2> DEFINE T == {i \in 0..WordBits : Weight[i] \notin Nat \ {0}}
  <2>1. ASSUME T # {} PROVE FALSE
    <3>1. T \in SUBSET Nat
      OBVIOUS
    <3>2. PICK n \in T : \A m \in T : n <= m
      <4> HIDE DEF T
      <4> QED BY <3>1, <2>1, Least
    <3>3. n \in 0..WordBits /\ Weight[n] \notin Nat \ {0} /\ n # 0
      BY <1>2
    <3>4. n - 1 \in 0..WordBits /\ ~ (n <= n - 1) /\ n - 1 \in 0..(WordBits - 1)
      BY <3>3
    <3>5. n - 1 \notin T
      <4> HIDE DEF T
      <4> QED BY <3>2, <3>4
    <3>6. Weight[n - 1] \in Nat \ {0}
      BY <3>4, <3>5
    <3>7. Weight[n] = 2 * Weight[n - 1]
      BY <1>1, <3>3
    <3> QED BY <3>3, <3>6, <3>7
  <2> QED BY <2>1
<1> QED BY <1>2, <1>3, <1>4

\* A weight divides those above it.
LEMMA WeightDivides ==
  ASSUME WordBits \in Nat, NEW s \in 0..WordBits
  PROVE  \A j \in s..WordBits : \E k \in Nat \ {0} : Weight[j] = Weight[s] * k
<1> DEFINE T == {j \in s..WordBits : ~ \E k \in Nat \ {0} : Weight[j] = Weight[s] * k}
<1>1. ASSUME T # {} PROVE FALSE
  <2>1. T \in SUBSET Nat
    OBVIOUS
  <2>2. PICK n \in T : \A m \in T : n <= m
    <3> HIDE DEF T
    <3> QED BY <2>1, <1>1, Least
  <2>3. n \in s..WordBits /\ ~ \E k \in Nat \ {0} : Weight[n] = Weight[s] * k
    OBVIOUS
  <2>0. Weight[s] \in Nat \ {0}
    BY Weights
  <2>4. n # s
    <3>1. Weight[s] = Weight[s] * 1
      BY <2>0
    <3> QED BY <3>1, <2>3
  <2>5. n - 1 \in s..WordBits /\ ~ (n <= n - 1) /\ n - 1 \in 0..(WordBits - 1)
    BY <2>3, <2>4
  <2>6. n - 1 \notin T
    <3> HIDE DEF T
    <3> QED BY <2>2, <2>5
  <2>7. PICK k \in Nat \ {0} : Weight[n - 1] = Weight[s] * k
    BY <2>5, <2>6
  <2>8. Weight[n] = 2 * Weight[n - 1]
    <3>1. (n - 1) + 1 = n
      BY <2>3
    <3> QED BY <3>1, <2>5, Weights
  <2>9. Weight[n] = Weight[s] * (2 * k)
    <3>1. 2 * (Weight[s] * k) = Weight[s] * (2 * k)
      BY <2>0
    <3> QED BY <3>1, <2>7, <2>8
  <2>10. 2 * k \in Nat \ {0}
    OBVIOUS
  <2> QED BY <2>3, <2>9, <2>10
<1> QED BY <1>1

\* put_bits, pointwise.
LEMMA Put ==
  ASSUME WordBits \in Nat, NEW num \in 0..WordBits, NEW value \in Nat
  PROVE  /\ PutBits(num, value) \in Seq(0..1)
         /\ Len(PutBits(num, value)) = num
         /\ \A i \in 1..num : PutBits(num, value)[i] = (value \div Weight[i - 1]) % 2
<1>1. \A i \in 1..num : (value \div Weight[i - 1]) % 2 \in 0..1
  <2> TAKE i \in 1..num
  <2>1. Weight[i - 1] \in Nat \ {0}
    <3>1. i - 1 \in 0..WordBits
      OBVIOUS
    <3> QED BY <3>1, Weights
  <2>2. value \div Weight[i - 1] \in Int
    BY <2>1, Divided
  <2> QED BY <2>2
<1> QED BY <1>1 DEF PutBits

\* What get_bits makes of the bits put_bits has put: the low bits of the value.
LEMMA GetPut ==
  ASSUME WordBits \in Nat, NEW num \in 0..WordBits, NEW value \in Nat,
         NEW stream, NEW first \in Nat,
         \A i \in 1..num : stream[first + i - 1] = PutBits(num, value)[i]
  PROVE  GetBits(stream, first, num) = value % Weight[num]
<1> DEFINE Step(f, i) == IF i = 0 THEN 0 ELSE f[i - 1] + stream[first + i - 1] * Weight[i - 1]
           Low(f) == f = [i \in 0..num |-> Step(f, i)]
           good == [i \in 0..num |-> value % Weight[i]]
<1>1. \A i \in 0..num : good[i] = Step(good, i)
  <2> TAKE i \in 0..num
  <2>1. CASE i = 0
    <3>1. value % 1 = 0
      OBVIOUS
    <3> QED BY <2>1, <3>1, Weights
  <2>2. CASE i # 0
    <3>1. i \in 1..num /\ i - 1 \in 0..num /\ i - 1 \in 0..(WordBits - 1)
          /\ (i - 1) + 1 = i /\ i - 1 \in 0..WordBits
      BY <2>2
    <3> DEFINE w == Weight[i - 1]
    <3>2. w \in Nat \ {0} /\ Weight[i] = 2 * w
      BY <3>1, Weights
    <3>3. stream[first + i - 1] = (value \div w) % 2
      BY <3>1, Put
    <3>4. good[i] = value % Weight[i] /\ good[i - 1] = value % w
      BY <3>1
    <3> HIDE DEF w
    <3>5. value % (2 * w) = (value % w) + ((value \div w) % 2) * w
      BY <3>2, OneMore
    <3>6. Step(good, i) = good[i - 1] + stream[first + i - 1] * w
      BY <2>2 DEF w
    <3> HIDE DEF good, Step
    <3> QED BY <3>2, <3>3, <3>4, <3>5, <3>6
  <2> QED BY <2>1, <2>2
<1>2. Low(good)
  <2>1. good = [i \in 0..num |-> good[i]]
    OBVIOUS
  <2> HIDE DEF good, Step
  <2> QED BY <2>1, <1>1
<1>3. ASSUME NEW f, Low(f) PROVE f[num] = good[num]
  <2> DEFINE T == {i \in 0..num : f[i] # good[i]}
  <2>0. \A i \in 0..num : f[i] = Step(f, i)
    <3> HIDE DEF Step
    <3> QED BY <1>3
  <2>1. ASSUME T # {} PROVE FALSE
    <3>1. T \in SUBSET Nat
      <4> HIDE DEF good
      <4> QED OBVIOUS
    <3>2. PICK n \in T : \A m \in T : n <= m
      <4> HIDE DEF T
      <4> QED BY <3>1, <2>1, Least
    <3>3. n \in 0..num /\ f[n] # good[n]
      <4> HIDE DEF good
      <4> QED OBVIOUS
    <3>4. f[n] = Step(f, n) /\ good[n] = Step(good, n)
      <4> HIDE DEF good, Step
      <4> QED BY <2>0, <1>1, <3>3
    <3>5. n # 0
      <4> HIDE DEF good
      <4> QED BY <3>3, <3>4
    <3>6. n - 1 \in 0..num /\ ~ (n <= n - 1)
      BY <3>3, <3>5
    <3>7. n - 1 \notin T
      <4> HIDE DEF T
      <4> QED BY <3>2, <3>6
    <3>8. f[n - 1] = good[n - 1]
      <4> HIDE DEF good
      <4> QED BY <3>6, <3>7
    <3>9. Step(f, n) = Step(good, n)
      <4> HIDE DEF good
      <4> QED BY <3>8
    <3> HIDE DEF good, Step
    <3> QED BY <3>3, <3>4, <3>9
  <2>2. num \in 0..num
    OBVIOUS
  <2> HIDE DEF good
  <2> QED BY <2>1, <2>2
<1> DEFINE low == CHOOSE f : Low(f)
<1>4. GetBits(stream, first, num) = low[num]
  BY DEF GetBits
<1>5. Low(low)
  <2> HIDE DEF Low, good
  <2> QED BY <1>2
<1>6. low[num] = good[num]
  <2> HIDE DEF Low, good, low
  <2> QED BY <1>5, <1>3
<1>7. good[num] = value % Weight[num]
  OBVIOUS
<1> HIDE DEF low, good
<1> QED BY <1>4, <1>6, <1>7

\* The widths, and the half of a word that a price may take.
LEMMA Widths ==
  /\ WordBits \in Nat /\ WordBits >= 3
  /\ SHORTINT_LENGTH \in 1..WordBits
  /\ LengthBits \in 0..WordBits
  /\ VolumeBits \in 0..WordBits
  /\ WordBits <= Weight[LengthBits]
  /\ Weight[3] = 8
  /\ Weight[WordBits - 1] \in Nat \ {0}
  /\ Word = 2 * Weight[WordBits - 1]
  /\ Prices \subseteq 0..(Weight[WordBits - 1] - 1)
  /\ Volumes \subseteq Nat
<1>1. /\ WordBits \in Nat /\ WordBits >= 3
      /\ SHORTINT_LENGTH \in 1..WordBits
      /\ LengthBits \in 0..WordBits
      /\ VolumeBits \in 0..WordBits
      /\ WordBits <= Weight[LengthBits]
      /\ Prices \subseteq 0..(Word \div 2 - 1)
      /\ Volumes \subseteq 0..(Word - 1)
  BY CodecAssumption DEF CodecAssumption
<1>2. WordBits - 1 \in 0..WordBits /\ WordBits - 1 \in 0..(WordBits - 1)
      /\ (WordBits - 1) + 1 = WordBits
  BY <1>1
<1>3. Weight[WordBits - 1] \in Nat \ {0} /\ Word = 2 * Weight[WordBits - 1]
  BY <1>1, <1>2, Weights DEF Word
<1>4. Weight[3] = 8
  <2>1. 0 \in 0..(WordBits - 1) /\ 1 \in 0..(WordBits - 1) /\ 2 \in 0..(WordBits - 1)
        /\ 0 + 1 = 1 /\ 1 + 1 = 2 /\ 2 + 1 = 3
    BY <1>1
  <2>2. Weight[1] = 2 * Weight[0] /\ Weight[2] = 2 * Weight[1] /\ Weight[3] = 2 * Weight[2]
    BY <1>1, <2>1, Weights
  <2>3. Weight[0] = 1
    BY <1>1, Weights
  <2> QED BY <2>2, <2>3
<1>5. Word \div 2 = Weight[WordBits - 1]
  BY <1>3
<1> QED BY <1>1, <1>3, <1>4, <1>5

\* Every number a word holds but 0 has a leading one.
LEMMA LeadingOne ==
  ASSUME NEW value \in 1..(Word - 1)
  PROVE  /\ LogTwo(value) \in 0..(WordBits - 1)
         /\ Weight[LogTwo(value)] <= value
         /\ value < 2 * Weight[LogTwo(value)]
<1>0. WordBits \in Nat \ {0} /\ Word \in Nat /\ Word = Weight[WordBits]
  BY Widths DEF Word
<1> DEFINE T == {n \in 0..(WordBits - 1) : value < Weight[n + 1]}
<1>1. T # {} /\ T \in SUBSET Nat
  <2>1. WordBits - 1 \in 0..(WordBits - 1) /\ (WordBits - 1) + 1 = WordBits
    BY <1>0
  <2>2. value < Weight[WordBits]
    BY <1>0
  <2> QED BY <2>1, <2>2
<1>2. PICK n \in T : \A m \in T : n <= m
  <2> HIDE DEF T
  <2> QED BY <1>1, Least
<1>3. n \in 0..(WordBits - 1) /\ value < Weight[n + 1]
  OBVIOUS
<1>4. Weight[n] <= value
  <2>1. CASE n = 0
    BY <2>1, <1>0, Weights
  <2>2. CASE n # 0
    <3>1. n - 1 \in 0..(WordBits - 1) /\ ~ (n <= n - 1) /\ (n - 1) + 1 = n
      BY <2>2, <1>3, <1>0
    <3>2. n - 1 \notin T
      <4> HIDE DEF T
      <4> QED BY <1>2, <3>1
    <3>3. ~ (value < Weight[n])
      BY <3>1, <3>2
    <3>4. Weight[n] \in Nat
      <4>1. n \in 0..WordBits
        BY <1>3, <1>0
      <4> QED BY <4>1, <1>0, Weights
    <3> QED BY <3>3, <3>4
  <2> QED BY <2>1, <2>2
<1> DEFINE P(k) == Weight[k] <= value /\ value < Weight[k + 1]
<1>5. LogTwo(value) = CHOOSE k \in 0..(WordBits - 1) : P(k)
  BY DEF LogTwo
<1>6. LogTwo(value) \in 0..(WordBits - 1) /\ P(LogTwo(value))
  <2>1. n \in 0..(WordBits - 1) /\ P(n)
    BY <1>3, <1>4
  <2> HIDE DEF P, T
  <2> QED BY <2>1, <1>5
<1>7. \A k \in 0..(WordBits - 1) : Weight[k + 1] = 2 * Weight[k]
  BY <1>0, Weights
<1> QED BY <1>6, <1>7

\* The bits from the first on are those of s.
At(stream, first, s) == \A i \in 1..Len(s) : stream[first + i - 1] = s[i]

\* Sequences of bits one after the other.
LEMMA Joined ==
  ASSUME NEW s \in Seq(0..1), NEW t \in Seq(0..1)
  PROVE  /\ s \o t \in Seq(0..1)
         /\ Len(s \o t) = Len(s) + Len(t)
         /\ \A i \in 1..Len(s) : (s \o t)[i] = s[i]
         /\ \A i \in 1..Len(t) : (s \o t)[Len(s) + i] = t[i]
<1>1. Len(s) \in Nat /\ Len(t) \in Nat
  BY LenProperties
<1> QED BY <1>1, ConcatProperties

\* A stream that has two of them has both.
LEMMA AtBoth ==
  ASSUME NEW s \in Seq(0..1), NEW t \in Seq(0..1), NEW stream, NEW first \in Nat,
         At(stream, first, s \o t)
  PROVE  At(stream, first, s) /\ At(stream, first + Len(s), t)
<1>0. Len(s) \in Nat /\ Len(t) \in Nat
  BY LenProperties
<1>1. /\ Len(s \o t) = Len(s) + Len(t)
      /\ \A i \in 1..Len(s) : (s \o t)[i] = s[i]
      /\ \A i \in 1..Len(t) : (s \o t)[Len(s) + i] = t[i]
  BY Joined
<1>2. \A i \in 1..(Len(s) + Len(t)) : stream[first + i - 1] = (s \o t)[i]
  BY <1>1 DEF At
<1>3. At(stream, first, s)
  <2>1. ASSUME NEW i \in 1..Len(s) PROVE stream[first + i - 1] = s[i]
    <3>1. i \in 1..(Len(s) + Len(t))
      BY <1>0
    <3> QED BY <3>1, <1>1, <1>2
  <2> QED BY <2>1 DEF At
<1>4. At(stream, first + Len(s), t)
  <2>1. ASSUME NEW i \in 1..Len(t) PROVE stream[(first + Len(s)) + i - 1] = t[i]
    <3>1. Len(s) + i \in 1..(Len(s) + Len(t))
          /\ first + (Len(s) + i) - 1 = (first + Len(s)) + i - 1
      BY <1>0
    <3> QED BY <3>1, <1>1, <1>2
  <2> QED BY <2>1 DEF At
<1> QED BY <1>3, <1>4

\* A field that is put is got, less the bits that have no room.
LEMMA Field ==
  ASSUME NEW num \in 0..WordBits, NEW value \in Nat, NEW stream, NEW first \in Nat,
         At(stream, first, PutBits(num, value))
  PROVE  /\ GetBits(stream, first, num) = value % Weight[num]
         /\ value < Weight[num] => GetBits(stream, first, num) = value
<1>0. WordBits \in Nat
  BY Widths
<1>1. Len(PutBits(num, value)) = num
  BY <1>0, Put
<1>2. \A i \in 1..num : stream[first + i - 1] = PutBits(num, value)[i]
  BY <1>1 DEF At
<1>3. GetBits(stream, first, num) = value % Weight[num]
  BY <1>0, <1>2, GetPut
<1>4. ASSUME value < Weight[num] PROVE value % Weight[num] = value
  <2>1. Weight[num] \in Nat \ {0}
    BY <1>0, Weights
  <2> QED BY <2>1, <1>4
<1> QED BY <1>3, <1>4

\* The bits encode_uint puts.
LEMMA UintPut ==
  ASSUME NEW value \in 1..(Word - 1)
  PROVE  /\ EncodeUint(value) \in Seq(0..1)
         /\ Len(EncodeUint(value)) = LengthBits + LogTwo(value)
<1>0. WordBits \in Nat /\ LengthBits \in 0..WordBits
  BY Widths
<1>1. LogTwo(value) \in 0..WordBits /\ LogTwo(value) \in Nat /\ value \in Nat
  <2>1. LogTwo(value) \in 0..(WordBits - 1)
    BY LeadingOne
  <2> QED BY <2>1, <1>0
<1> DEFINE a == PutBits(LengthBits, LogTwo(value))
           b == PutBits(LogTwo(value), value)
<1>2. a \in Seq(0..1) /\ b \in Seq(0..1) /\ Len(a) = LengthBits /\ Len(b) = LogTwo(value)
  BY <1>0, <1>1, Put
<1>3. EncodeUint(value) = a \o b
  BY DEF EncodeUint, LengthOf
<1> HIDE DEF a, b
<1> QED BY <1>2, <1>3, Joined

\* decode_uint undoes encode_uint.
LEMMA UintGet ==
  ASSUME NEW value \in 1..(Word - 1), NEW stream, NEW first \in Nat,
         At(stream, first, EncodeUint(value))
  PROVE  /\ GetBits(stream, first, LengthBits) = LogTwo(value)
         /\ GetBits(stream, first + LengthBits, LogTwo(value)) + Weight[LogTwo(value)] = value
<1>0. WordBits \in Nat /\ LengthBits \in 0..WordBits /\ WordBits <= Weight[LengthBits]
  BY Widths
<1> DEFINE length == LogTwo(value)
<1>1. /\ length \in 0..(WordBits - 1)
      /\ Weight[length] <= value /\ value < 2 * Weight[length]
  BY LeadingOne
<1> HIDE DEF length
<1>2. length \in 0..WordBits /\ length \in Nat /\ value \in Nat
  BY <1>0, <1>1
<1> DEFINE a == PutBits(LengthBits, length)
           b == PutBits(length, value)
<1>3. a \in Seq(0..1) /\ b \in Seq(0..1) /\ Len(a) = LengthBits
  BY <1>0, <1>2, Put
<1>4. At(stream, first, a \o b)
  BY DEF EncodeUint, LengthOf, length
<1>5. At(stream, first, a) /\ At(stream, first + LengthBits, b)
  <2> HIDE DEF a, b
  <2> QED BY <1>3, <1>4, AtBoth
<1>6. Weight[LengthBits] \in Nat
  BY <1>0, Weights
<1>7. length < Weight[LengthBits]
  BY <1>0, <1>1, <1>6
<1>8. GetBits(stream, first, LengthBits) = length
  BY <1>0, <1>2, <1>5, <1>7, Field
<1>9. GetBits(stream, first + LengthBits, length) = value % Weight[length]
  <2>1. first + LengthBits \in Nat
    BY <1>0
  <2> QED BY <2>1, <1>2, <1>5, Field
<1>10. value % Weight[length] = value - Weight[length]
  <2>1. Weight[length] \in Nat \ {0}
    BY <1>0, <1>2, Weights
  <2>2. value - Weight[length] \in 0..(Weight[length] - 1)
        /\ value = Weight[length] * 1 + (value - Weight[length])
    BY <2>1, <1>1
  <2> DEFINE w == Weight[length]
             r == value - w
  <2>3. w \in Nat \ {0} /\ r \in 0..(w - 1) /\ value = w * 1 + r /\ value \in Int /\ 1 \in Int
    BY <2>1, <2>2
  <2> HIDE DEF w, r
  <2>4. value % w = r
    BY <2>3, Division
  <2> QED BY <2>4 DEF w, r
<1>11. Weight[length] \in Nat
  BY <1>0, <1>2, Weights
<1> QED BY <1>8, <1>9, <1>10, <1>11 DEF length

\* Sign extension: a difference that fits SHORTINT_LENGTH bits survives them.
LEMMA SignExtends ==
  ASSUME NEW diff \in Int, Sig(diff) \in {0, -1}
  PROVE  LET raw == (diff % Word) % Weight[SHORTINT_LENGTH]
         IN  (IF raw >= Weight[SHORTINT_LENGTH - 1]
              THEN raw - Weight[SHORTINT_LENGTH] ELSE raw) = diff
<1> DEFINE half == Weight[SHORTINT_LENGTH - 1]
           w == Weight[SHORTINT_LENGTH]
<1>0. WordBits \in Nat /\ SHORTINT_LENGTH \in 1..WordBits
  BY Widths
<1>1. half \in Nat \ {0} /\ w = 2 * half
  <2>1. SHORTINT_LENGTH - 1 \in 0..WordBits /\ SHORTINT_LENGTH - 1 \in 0..(WordBits - 1)
        /\ (SHORTINT_LENGTH - 1) + 1 = SHORTINT_LENGTH
    BY <1>0
  <2> QED BY <2>1, <1>0, Weights
<1>2. PICK k \in Nat \ {0} : Word = w * k
  <2>1. SHORTINT_LENGTH \in 0..WordBits /\ WordBits \in SHORTINT_LENGTH..WordBits
    BY <1>0
  <2> QED BY <2>1, <1>0, WeightDivides DEF Word
<1>3. Word \in Nat \ {0} /\ w <= Word
  <2> HIDE DEF half, w
  <2>1. w \in Nat \ {0}
    BY <1>1
  <2>2. w * k \in Nat \ {0} /\ w <= w * k
    BY <2>1
  <2> QED BY <2>2, <1>2
<1>4. diff \div half \in {0, -1}
  BY DEF Sig
<1> HIDE DEF half, w
<1>5. diff \in (-half)..(half - 1)
  <2> DEFINE q == diff \div half
             r == diff % half
  <2>1. q \in {0, -1} /\ r \in 0..(half - 1) /\ diff = half * q + r
    BY <1>1, <1>4, Divided
  <2> HIDE DEF q, r
  <2>2. half * q = 0 \/ half * q = -half
    BY <2>1, <1>1
  <2> QED BY <2>1, <2>2, <1>1
<1>6. CASE diff >= 0
  <2>1. diff % Word = diff
    <3>1. diff \in 0..(Word - 1) /\ diff = Word * 0 + diff /\ 0 \in Int
      BY <1>1, <1>3, <1>5, <1>6
    <3> QED BY <3>1, <1>3, Division
  <2>2. diff % w = diff
    <3>1. w \in Nat \ {0} /\ diff \in 0..(w - 1) /\ diff = w * 0 + diff /\ 0 \in Int
      BY <1>1, <1>5, <1>6
    <3> QED BY <3>1, Division
  <2>3. ~ (diff >= half)
    BY <1>1, <1>5
  <2> QED BY <2>1, <2>2, <2>3 DEF half, w
<1>7. CASE diff < 0
  <2>1. diff % Word = diff + Word
    <3>1. diff + Word \in 0..(Word - 1) /\ diff = Word * (-1) + (diff + Word) /\ -1 \in Int
      BY <1>1, <1>3, <1>5, <1>7
    <3> DEFINE r == diff + Word
    <3> HIDE DEF r
    <3>2. r \in 0..(Word - 1) /\ diff = Word * (-1) + r
      BY <3>1 DEF r
    <3>3. diff % Word = r
      BY <3>1, <3>2, <1>3, Division
    <3> QED BY <3>3 DEF r
  <2>2. (diff + Word) % w = diff + w
    <3> DEFINE r == diff + w
               q == k - 1
               a == diff + Word
    <3>1. w \in Nat \ {0} /\ a \in Int /\ q \in Int /\ r \in 0..(w - 1)
      BY <1>1, <1>3, <1>5, <1>7
    <3>2. a = w * q + r
      <4>1. w * (k - 1) = w * k - w
        BY <1>1
      <4> QED BY <4>1, <1>1, <1>2
    <3> HIDE DEF r, q, a
    <3>3. a % w = r
      BY <3>1, <3>2, Division
    <3> QED BY <3>3 DEF r, a
  <2>3. diff + w >= half /\ (diff + w) - w = diff
    BY <1>1, <1>5
  <2> QED BY <2>1, <2>2, <2>3 DEF half, w
<1> QED BY <1>6, <1>7

\* A number below a power of two is its own remainder.
LEMMA NoWrap == \A p \in 0..(Weight[WordBits - 1] - 1) : p % Word = p
<1> TAKE p \in 0..(Weight[WordBits - 1] - 1)
<1>1. Word \in Nat \ {0} /\ p \in 0..(Word - 1)
  BY Widths
<1>2. p = Word * 0 + p /\ 0 \in Int /\ p \in Int
  BY <1>1
<1> QED BY <1>1, <1>2, Division

\* The three-bit codes are those of different types.
LEMMA Codes ==
  /\ "Limit" \notin DOMAIN CodeOf
  /\ \A type \in DOMAIN CodeOf : CodeOf[type] \in 3..7
  /\ \A type, other \in DOMAIN CodeOf : CodeOf[type] = CodeOf[other] => type = other
BY DEF CodeOf

\* What an order holds.
LEMMA OrderFields ==
  ASSUME NEW order \in Orders
  PROVE  /\ order.dir \in 0..1
         /\ order.volume \in Nat
         /\ order.type = "Limit" => order.price \in 0..(Weight[WordBits - 1] - 1)
         /\ order.type # "Limit" => order.type \in DOMAIN CodeOf
         /\ order = [dir |-> order.dir, type |-> order.type, price |-> order.price,
                     volume |-> order.volume]
<1>1. Prices \subseteq 0..(Weight[WordBits - 1] - 1) /\ Volumes \subseteq Nat
  BY Widths
<1>2. ASSUME NEW T, NEW P, order \in [dir : {Bid, Ask}, type : T, price : P, volume : Volumes]
      PROVE  /\ order.dir \in 0..1 /\ order.volume \in Nat
             /\ order.type \in T /\ order.price \in P
             /\ order = [dir |-> order.dir, type |-> order.type, price |-> order.price,
                         volume |-> order.volume]
  <2>1. order.dir \in {Bid, Ask} /\ order.volume \in Volumes
        /\ order.type \in T /\ order.price \in P
    BY <1>2
  <2>2. order = [dir |-> order.dir, type |-> order.type, price |-> order.price,
                 volume |-> order.volume]
    BY <1>2
  <2> QED BY <1>1, <2>1, <2>2 DEF Bid, Ask
<1>3. CASE order \in [dir : {Bid, Ask}, type : {"Limit"}, price : Prices, volume : Volumes]
  <2>1. order.type \in {"Limit"} /\ order.price \in Prices
    BY <1>2, <1>3
  <2> QED BY <1>1, <1>2, <1>3, <2>1
<1>4. CASE order \in [dir : {Bid, Ask}, type : DOMAIN CodeOf, price : OtherPrices, volume : Volumes]
  <2>1. order.type \in DOMAIN CodeOf
    BY <1>2, <1>4
  <2> QED BY <1>2, <1>4, <2>1, Codes
<1> QED BY <1>3, <1>4 DEF Orders

\* next() makes of the bits the type and a Limit order's price, and has
\* then read as many bits as there were.
Undoes(order) ==
  /\ NextType = order.type
  /\ NextPrice = (IF order.type = "Limit" THEN order.price ELSE 0)
  /\ BitsRead = 1 + VolumeBits + Len(Payload(order, dec_last))

\* The code is read, and what is behind it lies where it is looked for.
LEMMA CodeRead ==
  ASSUME NEW code \in 0..7, NEW rest \in Seq(0..1),
         At(bits, 2 + VolumeBits, PutBits(3, code) \o rest)
  PROVE  /\ Code = code
         /\ At(bits, PayloadAt, rest)
         /\ PutBits(3, code) \o rest \in Seq(0..1)
         /\ Len(PutBits(3, code) \o rest) = 3 + Len(rest)
<1>0. /\ WordBits \in Nat /\ 3 \in 0..WordBits /\ VolumeBits \in Nat
      /\ Weight[3] = 8 /\ code \in Nat /\ code < 8
  BY Widths
<1>1. PutBits(3, code) \in Seq(0..1) /\ Len(PutBits(3, code)) = 3
  BY <1>0, Put
<1>2. 2 + VolumeBits \in Nat /\ (2 + VolumeBits) + 3 = PayloadAt
  BY <1>0 DEF PayloadAt
<1>3. At(bits, 2 + VolumeBits, PutBits(3, code)) /\ At(bits, PayloadAt, rest)
  BY <1>1, <1>2, AtBoth
<1>4. Code = code
  BY <1>0, <1>2, <1>3, Field DEF Code
<1>5. /\ PutBits(3, code) \o rest \in Seq(0..1)
      /\ Len(PutBits(3, code) \o rest) = 3 + Len(rest)
  <2> DEFINE a == PutBits(3, code)
  <2>1. a \in Seq(0..1) /\ Len(a) = 3
    BY <1>1
  <2> HIDE DEF a
  <2>2. a \o rest \in Seq(0..1) /\ Len(a \o rest) = Len(a) + Len(rest)
    BY <2>1, Joined, Zenon
  <2> QED BY <2>1, <2>2 DEF a
<1> QED BY <1>3, <1>4, <1>5

\* An order without a price.
LEMMA PlainUndone ==
  ASSUME NEW order \in Orders, order.type # "Limit",
         At(bits, 2 + VolumeBits, Payload(order, dec_last))
  PROVE  Undoes(order)
<1>1. order.type \in DOMAIN CodeOf
  BY OrderFields
<1> DEFINE c == CodeOf[order.type]
<1>2. c \in 3..7 /\ c \in 0..7
  BY <1>1, Codes
<1>3. Payload(order, dec_last) = PutBits(3, c)
  BY DEF Payload
<1>4. PutBits(3, c) \in Seq(0..1) /\ Len(PutBits(3, c)) = 3
  <2>1. WordBits \in Nat /\ 3 \in 0..WordBits /\ c \in Nat
    BY <1>2, Widths
  <2> QED BY <2>1, Put
<1>5. PutBits(3, c) \o <<>> = PutBits(3, c) /\ <<>> \in Seq(0..1)
  BY <1>4, ConcatEmptySeq
<1>6. Code = c
  <2> HIDE DEF c
  <2> QED BY <1>2, <1>3, <1>5, CodeRead
<1>7. Code \notin {ShortDiff, LongUp, LongDown}
  BY <1>2, <1>6 DEF ShortDiff, LongUp, LongDown
<1>8. NextType = order.type
  <2>1. NextType = CHOOSE type \in DOMAIN CodeOf : CodeOf[type] = Code
    BY <1>7 DEF NextType
  <2>2. NextType \in DOMAIN CodeOf /\ CodeOf[NextType] = CodeOf[order.type]
    BY <2>1, <1>1, <1>6
  <2> QED BY <2>2, <1>1, Codes
<1>9. NextPrice = 0
  BY <1>7 DEF NextPrice
<1>10. BitsRead = PayloadAt - 1
  <2>1. VolumeBits \in Nat
    BY Widths
  <2> QED BY <1>7, <2>1 DEF BitsRead, PayloadAt
<1>11. PayloadAt - 1 = 1 + VolumeBits + 3
  BY Widths DEF PayloadAt
<1> QED BY <1>1, <1>3, <1>4, <1>8, <1>9, <1>10, <1>11 DEF Undoes

\* A difference in short form.
LEMMA ShortUndone ==
  ASSUME NEW order \in Orders, order.type = "Limit",
         dec_last \in 0..(Weight[WordBits - 1] - 1),
         Sig(order.price - dec_last) \in {0, -1},
         At(bits, 2 + VolumeBits, Payload(order, dec_last))
  PROVE  Undoes(order)
<1> DEFINE diff == order.price - dec_last
           field == PutBits(SHORTINT_LENGTH, diff % Word)
<1>0. /\ WordBits \in Nat /\ SHORTINT_LENGTH \in 0..WordBits /\ VolumeBits \in Nat
      /\ Word \in Nat \ {0} /\ Weight[WordBits - 1] \in Nat
  BY Widths
<1>1. order.price \in 0..(Weight[WordBits - 1] - 1)
  BY OrderFields
<1>2. diff \in Int /\ diff + dec_last = order.price
  BY <1>0, <1>1
<1>3. Payload(order, dec_last) = PutBits(3, ShortDiff) \o field
  BY DEF Payload
<1>4. diff % Word \in Nat
  <2> HIDE DEF diff
  <2> QED BY <1>0, <1>2, Divided
<1>5. field \in Seq(0..1) /\ Len(field) = SHORTINT_LENGTH
  BY <1>0, <1>4, Put
<1>6. ShortDiff \in 0..7
  BY DEF ShortDiff
<1>7. /\ Code = ShortDiff /\ At(bits, PayloadAt, field)
      /\ Payload(order, dec_last) \in Seq(0..1)
      /\ Len(Payload(order, dec_last)) = 3 + SHORTINT_LENGTH
  <2> HIDE DEF field
  <2> QED BY <1>3, <1>5, <1>6, CodeRead
<1>8. PayloadAt \in Nat
  BY <1>0 DEF PayloadAt
<1>9. GetBits(bits, PayloadAt, SHORTINT_LENGTH) = (diff % Word) % Weight[SHORTINT_LENGTH]
  BY <1>0, <1>4, <1>7, <1>8, Field
<1>10. ShortPrice = (diff + dec_last) % Word
  <2>1. Sig(diff) \in {0, -1}
    OBVIOUS
  <2> HIDE DEF diff, field
  <2> QED BY <1>2, <1>9, <2>1, SignExtends DEF ShortPrice
<1>11. ShortPrice = order.price
  <2> HIDE DEF diff
  <2> QED BY <1>1, <1>2, <1>10, NoWrap
<1>12. NextPrice = order.price /\ NextType = "Limit"
  <2>1. Code = ShortDiff
    BY <1>7
  <2> QED BY <2>1, <1>11 DEF NextPrice, NextType, ShortDiff, LongUp, LongDown
<1>13. BitsRead = 1 + VolumeBits + (3 + SHORTINT_LENGTH)
  <2>1. BitsRead = PayloadAt - 1 + SHORTINT_LENGTH
    <3>1. Code = ShortDiff
      BY <1>7
    <3> QED BY <3>1 DEF BitsRead, ShortDiff, LongUp, LongDown
  <2> QED BY <2>1, <1>0 DEF PayloadAt
<1> QED BY <1>7, <1>12, <1>13 DEF Undoes

\* A difference that is too long for the short form is sent without its sign.
LEMMA LongForm ==
  ASSUME NEW order \in Orders, order.type = "Limit",
         NEW last \in 0..(Weight[WordBits - 1] - 1),
         Sig(order.price - last) \notin {0, -1}
  PROVE  \E value \in 1..(Word - 1) :
           \/ /\ order.price = last + value
              /\ Payload(order, last) = PutBits(3, LongUp) \o EncodeUint(value)
           \/ /\ order.price = last - value
              /\ Payload(order, last) = PutBits(3, LongDown) \o EncodeUint(value)
<1> DEFINE diff == order.price - last
           up == Sig(diff) > 0
           value == IF up THEN diff ELSE -diff
           code == IF up THEN LongUp ELSE LongDown
<1>0. /\ WordBits \in Nat /\ VolumeBits \in Nat /\ LengthBits \in Nat
      /\ Word = 2 * Weight[WordBits - 1] /\ Weight[WordBits - 1] \in Nat \ {0}
      /\ SHORTINT_LENGTH - 1 \in 0..WordBits
  BY Widths
<1>1. order.price \in 0..(Weight[WordBits - 1] - 1)
  BY OrderFields
<1>2. diff \in Int /\ diff < Word /\ -diff < Word
  BY <1>0, <1>1
<1>3. Sig(diff) \in Int /\ (up => diff > 0) /\ (~ up => diff < 0)
  <2> DEFINE half == Weight[SHORTINT_LENGTH - 1]
             r == diff % half
  <2>1. half \in Nat \ {0}
    BY <1>0, Weights
  <2> HIDE DEF half, diff
  <2>2. Sig(diff) \in Int /\ r \in 0..(half - 1) /\ diff = half * Sig(diff) + r
    BY <2>1, <1>2, Divided DEF Sig, half
  <2>3. Sig(diff) \notin {0, -1}
    BY DEF diff
  <2> HIDE DEF r
  <2>4. CASE Sig(diff) > 0
    <3>1. half * Sig(diff) > 0
      BY <2>1, <2>2, <2>4
    <3> QED BY <3>1, <2>1, <2>2, <2>4, <1>2
  <2>5. CASE ~ (Sig(diff) > 0)
    <3>1. Sig(diff) + 1 < 0
      BY <2>2, <2>3, <2>5
    <3>2. half * (Sig(diff) + 1) < 0
      BY <3>1, <2>1, <2>2
    <3>3. half * (Sig(diff) + 1) = half * Sig(diff) + half
      BY <2>1, <2>2
    <3> QED BY <3>2, <3>3, <2>1, <2>2, <2>5, <1>2
  <2> QED BY <2>4, <2>5
<1>4. value \in 1..(Word - 1)
  <2> HIDE DEF diff
  <2> QED BY <1>0, <1>2, <1>3
<1>5. Payload(order, last) = PutBits(3, code) \o EncodeUint(value)
  <2>1. /\ up => Payload(order, last) = PutBits(3, LongUp) \o EncodeUint(diff)
        /\ Sig(diff) < -1 =>
             Payload(order, last) = PutBits(3, LongDown) \o EncodeUint(-diff)
    <3> DEFINE short == PutBits(3, ShortDiff) \o PutBits(SHORTINT_LENGTH, diff % Word)
               long(c, v) == PutBits(3, c) \o EncodeUint(v)
    <3>1. Payload(order, last) =
            CASE order.type # "Limit" -> PutBits(3, CodeOf[order.type])
              [] order.type = "Limit" /\ Sig(diff) \in {0, -1} -> short
              [] order.type = "Limit" /\ Sig(diff) > 0 -> long(LongUp, diff)
              [] order.type = "Limit" /\ Sig(diff) < -1 -> long(LongDown, -diff)
      BY DEF Payload
    <3>2. Sig(diff) \notin {0, -1} /\ Sig(diff) \in Int
      BY <1>3
    <3> DEFINE lu == long(LongUp, diff)
               ld == long(LongDown, -diff)
    <3>3. Payload(order, last) =
            CASE order.type # "Limit" -> PutBits(3, CodeOf[order.type])
              [] order.type = "Limit" /\ Sig(diff) \in {0, -1} -> short
              [] order.type = "Limit" /\ Sig(diff) > 0 -> lu
              [] order.type = "Limit" /\ Sig(diff) < -1 -> ld
      BY <3>1
    <3> HIDE DEF short, long, lu, ld, diff
    <3>4. (up => Payload(order, last) = lu)
          /\ (Sig(diff) < -1 => Payload(order, last) = ld)
      BY <3>2, <3>3
    <3> QED BY <3>4 DEF lu, ld, long
  <2>2. up \/ Sig(diff) < -1
    <3> HIDE DEF diff
    <3>1. Sig(diff) \notin {0, -1}
      BY DEF diff
    <3> QED BY <3>1, <1>3
  <2>3. CASE up
    <3>1. value = diff /\ code = LongUp
      BY <2>3
    <3> HIDE DEF value, code, diff
    <3> QED BY <3>1, <2>1, <2>3
  <2>4. CASE ~ up
    <3>1. value = -diff /\ code = LongDown
      BY <2>4
    <3> HIDE DEF value, code, diff
    <3> QED BY <3>1, <2>1, <2>2, <2>4
  <2> QED BY <2>3, <2>4
<1>6. CASE up
  <2>1. order.price = last + diff /\ value = diff /\ code = LongUp
    BY <1>0, <1>1, <1>6
  <2> HIDE DEF diff, value, code
  <2> QED BY <2>1, <1>4, <1>5
<1>7. CASE ~ up
  <2>1. order.price = last - (-diff) /\ value = -diff /\ code = LongDown
    BY <1>0, <1>1, <1>7
  <2> HIDE DEF diff, value, code
  <2> QED BY <2>1, <1>4, <1>5
<1> QED BY <1>6, <1>7

\* What is encoded are bits.
LEMMA PayloadBits ==
  ASSUME NEW order \in Orders, NEW last \in 0..(Weight[WordBits - 1] - 1)
  PROVE  Payload(order, last) \in Seq(0..1)
<1>0. WordBits \in Nat /\ 3 \in 0..WordBits /\ SHORTINT_LENGTH \in 0..WordBits
      /\ Word \in Nat \ {0}
  BY Widths
<1>1. ASSUME NEW c \in 0..7 PROVE PutBits(3, c) \in Seq(0..1)
  <2>1. c \in Nat
    OBVIOUS
  <2> QED BY <2>1, <1>0, Put
<1>2. ShortDiff \in 0..7 /\ LongUp \in 0..7 /\ LongDown \in 0..7
  BY DEF ShortDiff, LongUp, LongDown
<1>3. CASE order.type # "Limit"
  <2>1. CodeOf[order.type] \in 0..7
    BY <1>3, OrderFields, Codes
  <2> QED BY <2>1, <1>1, <1>3 DEF Payload
<1>4. CASE order.type = "Limit" /\ Sig(order.price - last) \in {0, -1}
  <2> DEFINE field == PutBits(SHORTINT_LENGTH, (order.price - last) % Word)
             head == PutBits(3, ShortDiff)
  <2>1. (order.price - last) % Word \in Nat
    <3> DEFINE diff == order.price - last
    <3>1. diff \in Int
      BY <1>4, OrderFields
    <3> HIDE DEF diff
    <3>2. diff % Word \in 0..(Word - 1)
      BY <3>1, <1>0, Divided
    <3>3. diff % Word \in Nat
      BY <3>2, <1>0
    <3> QED BY <3>3 DEF diff
  <2>2. field \in Seq(0..1) /\ head \in Seq(0..1)
    BY <2>1, <1>0, <1>1, <1>2, Put
  <2>3. Payload(order, last) = head \o field
    BY <1>4 DEF Payload
  <2> HIDE DEF head, field
  <2> QED BY <2>2, <2>3, Joined
<1>5. CASE order.type = "Limit" /\ Sig(order.price - last) \notin {0, -1}
  <2>1. PICK value \in 1..(Word - 1), c \in 0..7 :
          Payload(order, last) = PutBits(3, c) \o EncodeUint(value)
    BY <1>2, <1>5, LongForm
  <2> DEFINE head == PutBits(3, c)
             tail == EncodeUint(value)
  <2>2. head \in Seq(0..1) /\ tail \in Seq(0..1)
    BY <1>1, UintPut
  <2> HIDE DEF head, tail
  <2>3. head \o tail \in Seq(0..1)
    BY <2>2, Joined
  <2> QED BY <2>1, <2>3 DEF head, tail
<1> QED BY <1>3, <1>4, <1>5

\* A difference in long form, up or down.
LEMMA LongUndone ==
  ASSUME NEW order \in Orders, order.type = "Limit",
         dec_last \in 0..(Weight[WordBits - 1] - 1),
         Sig(order.price - dec_last) \notin {0, -1},
         At(bits, 2 + VolumeBits, Payload(order, dec_last))
  PROVE  Undoes(order)
<1>0. WordBits \in Nat /\ VolumeBits \in Nat /\ LengthBits \in Nat
  BY Widths
<1>1. order.price \in 0..(Weight[WordBits - 1] - 1)
  BY OrderFields
<1>2. PICK value \in 1..(Word - 1), code \in {LongUp, LongDown} :
        /\ code = LongUp => order.price = dec_last + value
        /\ code = LongDown => order.price = dec_last - value
        /\ Payload(order, dec_last) = PutBits(3, code) \o EncodeUint(value)
  <2>1. LongUp # LongDown
    BY DEF LongUp, LongDown
  <2> QED BY <2>1, LongForm
<1>3. code \in 0..7 /\ code # ShortDiff /\ LongUp # LongDown
  BY DEF LongUp, LongDown, ShortDiff
<1>8. EncodeUint(value) \in Seq(0..1) /\ Len(EncodeUint(value)) = LengthBits + LogTwo(value)
  BY UintPut
<1>9. /\ Code = code /\ At(bits, PayloadAt, EncodeUint(value))
      /\ Len(Payload(order, dec_last)) = 3 + (LengthBits + LogTwo(value))
  BY <1>2, <1>3, <1>8, CodeRead
<1>10. PayloadAt \in Nat
  BY <1>0 DEF PayloadAt
<1>11. LongLength = LogTwo(value) /\ LongDiff = value
  BY <1>9, <1>10, UintGet DEF LongLength, LongDiff
<1>12. NextType = "Limit"
  BY <1>9 DEF NextType
<1>13. NextPrice = order.price
  <2>1. CASE code = LongUp
    <3>1. NextPrice = (dec_last + value) % Word
      BY <2>1, <1>3, <1>9, <1>11 DEF NextPrice
    <3> QED BY <3>1, <2>1, <1>1, <1>2, NoWrap
  <2>2. CASE code = LongDown
    <3>1. NextPrice = (dec_last - value) % Word
      BY <2>2, <1>3, <1>9, <1>11 DEF NextPrice
    <3> QED BY <3>1, <2>2, <1>1, <1>2, NoWrap
  <2> QED BY <2>1, <2>2
<1>14. BitsRead = 1 + VolumeBits + (3 + (LengthBits + LogTwo(value)))
  <2>1. BitsRead = PayloadAt - 1 + (LengthBits + LogTwo(value))
    BY <1>3, <1>9, <1>11 DEF BitsRead
  <2>2. LogTwo(value) \in Nat
    <3>1. LogTwo(value) \in 0..(WordBits - 1)
      BY LeadingOne
    <3> QED BY <3>1
  <2> QED BY <2>1, <2>2, <1>0 DEF PayloadAt
<1> QED BY <1>9, <1>12, <1>13, <1>14 DEF Undoes

\* An order's bits: direction, volume, and the rest.
LEMMA EncodingBits ==
  ASSUME NEW order \in Orders, NEW last \in 0..(Weight[WordBits - 1] - 1)
  PROVE  /\ Encoding(order, last) \in Seq(0..1)
         /\ Len(Encoding(order, last)) = 1 + VolumeBits + Len(Payload(order, last))
         /\ Len(Encoding(order, last)) \in Nat \ {0}
<1> DEFINE a == <<order.dir>>
           b == PutBits(VolumeBits, order.volume)
           c == Payload(order, last)
<1>0. WordBits \in Nat /\ VolumeBits \in 0..WordBits /\ VolumeBits \in Nat
  BY Widths
<1>1. a \in Seq(0..1) /\ Len(a) = 1
  BY OrderFields
<1>2. b \in Seq(0..1) /\ Len(b) = VolumeBits
  BY <1>0, OrderFields, Put
<1>3. c \in Seq(0..1)
  BY PayloadBits
<1>4. Encoding(order, last) = (a \o b) \o c
  BY DEF Encoding
<1> HIDE DEF a, b, c
<1>5. a \o b \in Seq(0..1) /\ Len(a \o b) = 1 + VolumeBits
  <2>1. a \o b \in Seq(0..1) /\ Len(a \o b) = Len(a) + Len(b)
    BY <1>1, <1>2, Joined, Zenon
  <2> QED BY <2>1, <1>1, <1>2
<1> DEFINE ab == a \o b
<1>6. ab \in Seq(0..1) /\ Len(ab) = 1 + VolumeBits
  BY <1>5
<1> HIDE DEF ab
<1>7. ab \o c \in Seq(0..1) /\ Len(ab \o c) = 1 + VolumeBits + Len(c)
  BY <1>3, <1>6, Joined
<1>8. Len(c) \in Nat
  BY <1>3, LenProperties
<1> QED BY <1>0, <1>4, <1>7, <1>8 DEF ab, c

\* next() returns the order whose bits come first, and reads these bits.
LEMMA Decoded ==
  ASSUME NEW order \in Orders, dec_last \in 0..(Weight[WordBits - 1] - 1),
         At(bits, 1, Encoding(order, dec_last))
  PROVE  /\ BitsRead = Len(Encoding(order, dec_last))
         /\ [dir |-> bits[1], type |-> NextType, price |-> NextPrice,
             volume |-> GetBits(bits, 2, VolumeBits)] = AsReceived(order)
<1> DEFINE a == <<order.dir>>
           b == PutBits(VolumeBits, order.volume)
           c == Payload(order, dec_last)
           ab == a \o b
<1>0. WordBits \in Nat /\ VolumeBits \in 0..WordBits /\ VolumeBits \in Nat
  BY Widths
<1>1. a \in Seq(0..1) /\ Len(a) = 1 /\ a[1] = order.dir
  BY OrderFields
<1>2. b \in Seq(0..1) /\ Len(b) = VolumeBits
  BY <1>0, OrderFields, Put
<1>3. c \in Seq(0..1)
  BY PayloadBits
<1>4. At(bits, 1, ab \o c)
  BY DEF Encoding
<1> HIDE DEF a, b, c
<1>5. ab \in Seq(0..1) /\ Len(ab) = 1 + VolumeBits
  <2>1. a \o b \in Seq(0..1) /\ Len(a \o b) = Len(a) + Len(b)
    BY <1>1, <1>2, Joined, Zenon
  <2> QED BY <2>1, <1>1, <1>2
<1>6. At(bits, 1, ab) /\ At(bits, 2 + VolumeBits, c)
  <2> HIDE DEF ab
  <2>1. 1 + (1 + VolumeBits) = 2 + VolumeBits
    BY <1>0
  <2>2. At(bits, 1, ab) /\ At(bits, 1 + Len(ab), c)
    BY <1>3, <1>4, <1>5, AtBoth
  <2> QED BY <2>1, <2>2, <1>5
<1>7. At(bits, 1, a) /\ At(bits, 2, b)
  <2>1. At(bits, 1, a) /\ At(bits, 1 + Len(a), b)
    BY <1>1, <1>2, <1>6, AtBoth
  <2> QED BY <2>1, <1>1
<1>8. bits[1] = order.dir
  <2>1. 1 \in 1..Len(a) /\ 1 + 1 - 1 = 1
    BY <1>1
  <2>2. bits[1 + 1 - 1] = a[1]
    BY <2>1, <1>7 DEF At
  <2> QED BY <2>1, <2>2, <1>1
<1>9. GetBits(bits, 2, VolumeBits) = order.volume % Weight[VolumeBits]
  BY <1>0, <1>7, OrderFields, Field DEF b
<1>10. Undoes(order)
  <2>1. At(bits, 2 + VolumeBits, Payload(order, dec_last))
    BY <1>6 DEF c
  <2>2. CASE order.type # "Limit"
    BY <2>1, <2>2, PlainUndone
  <2>3. CASE order.type = "Limit" /\ Sig(order.price - dec_last) \in {0, -1}
    BY <2>1, <2>3, ShortUndone
  <2>4. CASE order.type = "Limit" /\ Sig(order.price - dec_last) \notin {0, -1}
    BY <2>1, <2>4, LongUndone
  <2> QED BY <2>2, <2>3, <2>4
<1>11. BitsRead = Len(Encoding(order, dec_last))
  BY <1>10, EncodingBits DEF Undoes
<1>12. AsReceived(order) = [dir |-> order.dir, type |-> order.type,
                            price |-> IF order.type = "Limit" THEN order.price ELSE 0,
                            volume |-> order.volume % Weight[VolumeBits]]
  <2>1. order = [dir |-> order.dir, type |-> order.type, price |-> order.price,
                 volume |-> order.volume]
    BY OrderFields
  <2>2. PICK d, t, p, v : /\ d = order.dir /\ t = order.type
                          /\ p = order.price /\ v = order.volume
    OBVIOUS
  <2> DEFINE q == IF t = "Limit" THEN p ELSE 0
             w == v % Weight[VolumeBits]
             o == [dir |-> d, type |-> t, price |-> p, volume |-> v]
             less == [dir |-> d, type |-> t, price |-> p, volume |-> w]
  <2>3. o.type = t /\ o.price = p /\ o.volume = v
    OBVIOUS
  <2>4. [o EXCEPT !.volume = w] = less /\ less.price = p
    <3> HIDE DEF w
    <3> QED OBVIOUS
  <2>5. [less EXCEPT !.price = q] = [dir |-> d, type |-> t, price |-> q, volume |-> w]
    <3> HIDE DEF q, w
    <3> QED OBVIOUS
  <2>6. AsReceived(o) = [[o EXCEPT !.volume = w] EXCEPT !.price = q]
    <3>1. AsReceived(o) = [[o EXCEPT !.volume = o.volume % Weight[VolumeBits]]
                              EXCEPT !.price = IF o.type = "Limit" THEN o.price ELSE 0]
      BY <2>3, <2>4, Zenon DEF AsReceived
    <3> HIDE DEF o
    <3> QED BY <3>1, <2>3
  <2>7. order = o
    BY <2>1, <2>2
  <2> HIDE DEF o, less
  <2>8. AsReceived(order) = [dir |-> d, type |-> t, price |-> q, volume |-> w]
    BY <2>4, <2>5, <2>6, <2>7, Zenon
  <2> QED BY <2>2, <2>8
<1> QED BY <1>8, <1>9, <1>10, <1>11, <1>12 DEF Undoes

-----------------------------------------------------------------------------
(* Codec: the stream of orders.                                            *)

\* The orders that are sent and not yet received lie in the bits one after the
\* other, the k-th behind pos[k - 1] bits and encoded when last[k - 1] was the
\* last price; where the decoder is, it is the decoder's, and at the end the
\* encoder's.
Laid(last, pos) ==
  /\ pos[Len(got)] = 0 /\ pos[Len(sent)] = Len(bits)
  /\ last[Len(got)] = dec_last /\ last[Len(sent)] = enc_last
  /\ \A j, k \in Len(got)..Len(sent) : j <= k => pos[j] <= pos[k]
  /\ \A k \in Len(got)..(Len(sent) - 1) :
       /\ pos[k + 1] = pos[k] + Len(Encoding(sent[k + 1], last[k]))
       /\ last[k + 1] = LastAfter(sent[k + 1], last[k])
       /\ At(bits, pos[k] + 1, Encoding(sent[k + 1], last[k]))

LastPrices == 0..(Weight[WordBits - 1] - 1)

\* The inductive invariant of the codec.
CodecInv ==
  /\ sent \in Seq(Orders)
  /\ bits \in Seq(0..1)
  /\ Len(got) <= Len(sent)
  /\ got \in Seq({AsReceived(order) : order \in Orders})
  /\ \A i \in 1..Len(got) : got[i] = AsReceived(sent[i])
  /\ \E last \in [Nat -> LastPrices], pos \in [Nat -> Nat] : Laid(last, pos)

\* Nothing is sent yet.
LEMMA CodecInitInv == CodecInit => CodecInv
<1> SUFFICES ASSUME CodecInit PROVE CodecInv
  OBVIOUS
<1> DEFINE zero == [k \in Nat |-> 0]
<1>1. zero \in [Nat -> LastPrices] /\ zero \in [Nat -> Nat]
  BY Widths DEF LastPrices
<1>2. Len(<<>>) = 0 /\ zero[0] = 0
  OBVIOUS
<1>3. Laid(zero, zero)
  <2> HIDE DEF zero
  <2> QED BY <1>2 DEF Laid, CodecInit
<1>4. \E last \in [Nat -> LastPrices], pos \in [Nat -> Nat] : Laid(last, pos)
  <2> HIDE DEF zero
  <2> QED BY <1>1, <1>3
<1>5. /\ sent \in Seq(Orders) /\ bits \in Seq(0..1) /\ Len(got) <= Len(sent)
      /\ got \in Seq({AsReceived(order) : order \in Orders})
      /\ \A i \in 1..Len(got) : got[i] = AsReceived(sent[i])
  BY <1>2 DEF CodecInit
<1> QED BY <1>4, <1>5 DEF CodecInv

\* last_price is a price or 0.
LEMMA LastAfterIn ==
  ASSUME NEW order \in Orders, NEW last \in LastPrices
  PROVE  LastAfter(order, last) \in LastPrices
BY OrderFields DEF LastAfter, LastPrices

\* The same places, counted from the c-th.
FromThere(p, c, l, n) ==
  /\ (p + l) - c = (p - c) + l /\ (p - c) + l <= n - c
  /\ p - c \in Nat /\ n - c \in Nat
  /\ \A i \in Nat : c + ((p - c) + i) = p + 1 + i - 1

\* They are as many and as far apart.
LEMMA Shifted ==
  ASSUME NEW p \in Nat, NEW c \in Nat, NEW l \in Nat, NEW n \in Nat, c <= p, p + l <= n
  PROVE  FromThere(p, c, l, n)
BY DEF FromThere

\* Numbers apart.
LEMMA Distances ==
  ASSUME NEW a \in Nat, NEW b \in Nat, a <= b
  PROVE  b - a \in Nat /\ \A c \in Nat : a <= b + c
OBVIOUS

\* Two functions get a value each at the next number.
Extended(last, pos, n, a, b) ==
  \E last2 \in [Nat -> LastPrices], pos2 \in [Nat -> Nat] :
    /\ last2[n + 1] = a /\ pos2[n + 1] = pos[n] + b
    /\ \A k \in 0..n : last2[k] = last[k] /\ pos2[k] = pos[k]

\* There are such functions.
LEMMA Extend ==
  ASSUME NEW last \in [Nat -> LastPrices], NEW pos \in [Nat -> Nat], NEW n \in Nat,
         NEW a \in LastPrices, NEW b \in Nat
  PROVE  Extended(last, pos, n, a, b)
<1> DEFINE last2 == [k \in Nat |-> IF k = n + 1 THEN a ELSE last[k]]
           pos2 == [k \in Nat |-> IF k = n + 1 THEN pos[n] + b ELSE pos[k]]
<1>1. last2 \in [Nat -> LastPrices] /\ pos2 \in [Nat -> Nat]
  <2>1. pos[n] + b \in Nat
    OBVIOUS
  <2>2. \A k \in Nat : last[k] \in LastPrices /\ pos[k] \in Nat
    OBVIOUS
  <2> QED BY <2>1, <2>2
<1>2. last2[n + 1] = a /\ pos2[n + 1] = pos[n] + b
  OBVIOUS
<1>3. \A k \in 0..n : last2[k] = last[k] /\ pos2[k] = pos[k]
  OBVIOUS
<1> HIDE DEF last2, pos2
<1> QED BY <1>1, <1>2, <1>3 DEF Extended

\* A place in a row of l behind the first p.
LEMMA Inside ==
  ASSUME NEW p \in Nat, NEW l \in Nat, NEW i \in 1..l, NEW n \in Nat, p + l <= n
  PROVE  p + 1 + i - 1 = p + i /\ p + i \in 1..n
OBVIOUS

\* An order is put behind those before it.
LEMMA SendInv == ASSUME CodecInv, NEW order \in Orders, SendOrder(order) PROVE CodecInv'
<1>1. PICK last \in [Nat -> LastPrices], pos \in [Nat -> Nat] : Laid(last, pos)
  BY DEF CodecInv
<1> DEFINE n == Len(sent)
           m == Len(got)
           e == Encoding(order, enc_last)
<1>2. n \in Nat /\ m \in Nat /\ m <= n /\ Len(bits) \in Nat
  BY LenProperties DEF CodecInv
<1>3. enc_last \in LastPrices /\ dec_last \in LastPrices
  BY <1>1, <1>2 DEF Laid
<1>4. e \in Seq(0..1) /\ Len(e) \in Nat
  BY <1>3, EncodingBits DEF LastPrices
<1>5. /\ sent' \in Seq(Orders) /\ Len(sent') = n + 1
      /\ \A i \in 1..n : sent'[i] = sent[i]
      /\ sent'[n + 1] = order
  <2>1. sent \in Seq(Orders) /\ sent' = Append(sent, order)
    BY DEF CodecInv, SendOrder
  <2> QED BY <2>1, AppendProperties
<1>6. /\ bits' \in Seq(0..1) /\ Len(bits') = Len(bits) + Len(e)
      /\ \A i \in 1..Len(bits) : bits'[i] = bits[i]
      /\ \A i \in 1..Len(e) : bits'[Len(bits) + i] = e[i]
  <2>1. bits \in Seq(0..1) /\ bits' = bits \o e
    BY DEF CodecInv, SendOrder
  <2> HIDE DEF e
  <2> QED BY <2>1, <1>4, Joined, Zenon
<1>7. got' = got /\ dec_last' = dec_last /\ enc_last' = LastAfter(order, enc_last)
  BY DEF SendOrder
<1>8. LastAfter(order, enc_last) \in LastPrices
  BY <1>3, LastAfterIn
<1> HIDE DEF e, n, m
<1>9. PICK last2 \in [Nat -> LastPrices], pos2 \in [Nat -> Nat] :
        /\ last2[n + 1] = LastAfter(order, enc_last) /\ pos2[n + 1] = pos[n] + Len(e)
        /\ \A k \in 0..n : last2[k] = last[k] /\ pos2[k] = pos[k]
  <2>1. n \in Nat /\ Len(e) \in Nat
    BY <1>2, <1>4
  <2>2. Extended(last, pos, n, LastAfter(order, enc_last), Len(e))
    BY <2>1, <1>8, Extend
  <2> QED BY <2>2 DEF Extended
<1>11. /\ pos[n] = Len(bits) /\ last[n] = enc_last /\ pos[m] = 0 /\ last[m] = dec_last
       /\ \A j, k \in m..n : j <= k => pos[j] <= pos[k]
  BY <1>1 DEF Laid, n, m
<1>12. ASSUME NEW k \in m..(n - 1)
       PROVE  /\ pos2[k + 1] = pos2[k] + Len(Encoding(sent'[k + 1], last2[k]))
              /\ last2[k + 1] = LastAfter(sent'[k + 1], last2[k])
              /\ At(bits', pos2[k] + 1, Encoding(sent'[k + 1], last2[k]))
  <2>1. k \in 0..n /\ k + 1 \in 0..n /\ k + 1 \in 1..n /\ k \in Nat
        /\ k + 1 \in m..n /\ n \in m..n /\ k + 1 <= n
    BY <1>2
  <2> DEFINE d == Encoding(sent[k + 1], last[k])
  <2>2. /\ last2[k] = last[k] /\ pos2[k] = pos[k]
        /\ last2[k + 1] = last[k + 1] /\ pos2[k + 1] = pos[k + 1]
        /\ sent'[k + 1] = sent[k + 1]
    BY <2>1, <1>5, <1>9
  <2>3. /\ pos[k + 1] = pos[k] + Len(d)
        /\ last[k + 1] = LastAfter(sent[k + 1], last[k])
        /\ At(bits, pos[k] + 1, d)
    BY <1>1 DEF Laid, n, m
  <2>4. Len(d) \in Nat /\ pos[k] \in Nat
    <3>1. sent[k + 1] \in Orders
      BY <2>1, ElementOfSeq DEF CodecInv, n
    <3>2. last[k] \in LastPrices
      BY <1>1, <2>1
    <3> QED BY <3>1, <3>2, <2>1, <1>1, EncodingBits DEF LastPrices
  <2> HIDE DEF d
  <2>5. pos[k] + Len(d) <= Len(bits)
    BY <2>1, <2>3, <1>11
  <2>6. At(bits', pos[k] + 1, d)
    <3>1. ASSUME NEW i \in 1..Len(d) PROVE bits'[pos[k] + 1 + i - 1] = d[i]
      <4>1. pos[k] + 1 + i - 1 = pos[k] + i /\ pos[k] + i \in 1..Len(bits)
        BY <2>4, <2>5, <1>2, Inside
      <4> QED BY <4>1, <2>3, <1>6 DEF At
    <3> QED BY <3>1 DEF At
  <2> QED BY <2>2, <2>3, <2>6 DEF d
<1>13. /\ pos2[n + 1] = pos2[n] + Len(Encoding(sent'[n + 1], last2[n]))
       /\ last2[n + 1] = LastAfter(sent'[n + 1], last2[n])
       /\ At(bits', pos2[n] + 1, Encoding(sent'[n + 1], last2[n]))
  <2>1. n \in 0..n
    BY <1>2
  <2>2. last2[n] = enc_last /\ pos2[n] = Len(bits) /\ pos[n] = Len(bits)
    BY <2>1, <1>9, <1>11
  <2>3. Encoding(sent'[n + 1], last2[n]) = e
    BY <2>2, <1>5 DEF e
  <2>4. At(bits', Len(bits) + 1, e)
    <3>1. ASSUME NEW i \in 1..Len(e) PROVE bits'[Len(bits) + 1 + i - 1] = e[i]
      <4>1. Len(bits) + 1 + i - 1 = Len(bits) + i
        BY <1>2
      <4> QED BY <4>1, <1>6
    <3> QED BY <3>1 DEF At
  <2> QED BY <2>2, <2>3, <2>4, <1>5, <1>9
<1>14. ASSUME NEW j \in m..(n + 1), NEW k \in m..(n + 1), j <= k PROVE pos2[j] <= pos2[k]
  <2>1. ASSUME NEW i \in m..n PROVE pos2[i] = pos[i] /\ pos[i] <= pos[n] /\ pos[i] \in Nat
    <3>1. i \in 0..n /\ i <= n /\ n \in m..n /\ i \in Nat
      BY <1>2
    <3> QED BY <3>1, <1>1, <1>9, <1>11
  <2>2. CASE k \in m..n
    <3>1. j \in m..n
      BY <2>2, <1>2, <1>14
    <3> QED BY <3>1, <2>1, <2>2, <1>11, <1>14
  <2>3. CASE k = n + 1 /\ j \in m..n
    <3>1. pos2[j] = pos[j] /\ pos[j] <= pos[n] /\ pos[j] \in Nat /\ pos[n] \in Nat
      BY <2>1, <2>3, <1>1, <1>2
    <3>2. pos2[k] = pos[n] + Len(e)
      BY <2>3, <1>9
    <3>3. pos[j] <= pos[n] + Len(e)
      BY <3>1, <1>4, Distances
    <3> QED BY <3>1, <3>2, <3>3
  <2>4. CASE k = n + 1 /\ j = n + 1
    <3>1. pos2[n + 1] \in Nat
      BY <1>2, <1>9
    <3> QED BY <3>1, <2>4
  <2>5. \/ k \in m..n
        \/ k = n + 1 /\ j \in m..n
        \/ k = n + 1 /\ j = n + 1
    BY <1>2, <1>14
  <2> QED BY <2>2, <2>3, <2>4, <2>5
<1>15. Laid(last2, pos2)'
  <2>1. Len(got') = m /\ Len(sent') = n + 1
    BY <1>5, <1>7 DEF m
  <2>2. pos2[m] = 0 /\ last2[m] = dec_last'
    <3>1. m \in 0..n
      BY <1>2
    <3> QED BY <3>1, <1>7, <1>9, <1>11
  <2>3. pos2[n + 1] = Len(bits') /\ last2[n + 1] = enc_last'
    BY <1>6, <1>7, <1>9, <1>11
  <2>4. \A k \in m..((n + 1) - 1) : k \in m..(n - 1) \/ k = n
    BY <1>2
  <2>5. \A k \in m..((n + 1) - 1) :
          /\ pos2[k + 1] = pos2[k] + Len(Encoding(sent'[k + 1], last2[k]))
          /\ last2[k + 1] = LastAfter(sent'[k + 1], last2[k])
          /\ At(bits', pos2[k] + 1, Encoding(sent'[k + 1], last2[k]))
    BY <2>4, <1>12, <1>13
  <2>6. (n + 1) - 1 = n /\ \A j, k \in m..(n + 1) : j <= k => pos2[j] <= pos2[k]
    BY <1>2, <1>14
  <2> QED BY <2>1, <2>2, <2>3, <2>5, <2>6 DEF Laid
<1>16. \A i \in 1..Len(got') : got'[i] = AsReceived(sent'[i])
  <2>1. \A i \in 1..m : got[i] = AsReceived(sent[i]) /\ i \in 1..n
    BY <1>2 DEF CodecInv, m, n
  <2> QED BY <2>1, <1>5, <1>7 DEF m
<1>17. Len(got') <= Len(sent') /\ got' \in Seq({AsReceived(o) : o \in Orders})
  <2>1. got' \in Seq({AsReceived(o) : o \in Orders})
    BY <1>7 DEF CodecInv
  <2> QED BY <2>1, <1>2, <1>5, <1>7 DEF m
<1> QED BY <1>5, <1>6, <1>9, <1>15, <1>16, <1>17 DEF CodecInv

\* A stream without its first c bits.
LEMMA Dropped ==
  ASSUME NEW s \in Seq(0..1), NEW c \in Nat, c <= Len(s)
  PROVE  /\ SubSeq(s, c + 1, Len(s)) \in Seq(0..1)
         /\ Len(SubSeq(s, c + 1, Len(s))) = Len(s) - c
         /\ \A i \in 1..(Len(s) - c) : SubSeq(s, c + 1, Len(s))[i] = s[c + i]
<1> DEFINE n == Len(s)
<1>1. n \in Nat /\ c <= n /\ \A i \in 1..n : s[i] \in 0..1
  BY LenProperties, ElementOfSeq
<1>2. c + 1 \in Int /\ n \in Int /\ \A i \in (c + 1)..n : s[i] \in 0..1
  BY <1>1
<1> HIDE DEF n
<1>3. /\ SubSeq(s, c + 1, n) \in Seq(0..1)
      /\ Len(SubSeq(s, c + 1, n)) = IF c + 1 <= n THEN n - (c + 1) + 1 ELSE 0
      /\ \A i \in 1..(n - (c + 1) + 1) : SubSeq(s, c + 1, n)[i] = s[(c + 1) + i - 1]
  BY <1>2, SubSeqProperties
<1>4. n - (c + 1) + 1 = n - c /\ (~ (c + 1 <= n) => n - c = 0)
  BY <1>1
<1>5. \A i \in 1..(n - c) : (c + 1) + i - 1 = c + i
  BY <1>1
<1> QED BY <1>3, <1>4, <1>5 DEF n

\* The first order not yet received is received.
LEMMA ReceiveInv == ASSUME CodecInv, Receive PROVE CodecInv'
<1>1. PICK last \in [Nat -> LastPrices], pos \in [Nat -> Nat] : Laid(last, pos)
  BY DEF CodecInv
<1> DEFINE n == Len(sent)
           m == Len(got)
           order == sent[m + 1]
           e == Encoding(order, dec_last)
           c == Len(e)
<1>2. n \in Nat /\ m \in Nat /\ m <= n /\ Len(bits) \in Nat
  BY LenProperties DEF CodecInv
<1>3. bits \in Seq(0..1) /\ bits # <<>> /\ Len(bits) # 0
  BY EmptySeq DEF CodecInv, Receive
<1>4. /\ pos[n] = Len(bits) /\ last[n] = enc_last /\ pos[m] = 0 /\ last[m] = dec_last
      /\ \A j, k \in m..n : j <= k => pos[j] <= pos[k]
  BY <1>1 DEF Laid
<1>5. m < n
  BY <1>2, <1>3, <1>4
<1>6. /\ m \in m..(n - 1) /\ m + 1 \in 1..n /\ m + 1 \in m..n
      /\ n \in m..n /\ m + 1 <= n
  <2> HIDE DEF n, m
  <2> QED BY <1>2, <1>5
<1>7. order \in Orders
  BY <1>6, ElementOfSeq DEF CodecInv
<1>8. dec_last \in LastPrices /\ enc_last \in LastPrices
  BY <1>1, <1>2, <1>4
<1>9. e \in Seq(0..1) /\ c \in Nat \ {0}
  BY <1>7, <1>8, EncodingBits DEF LastPrices
<1>10. /\ pos[m + 1] = c
       /\ last[m + 1] = LastAfter(order, dec_last)
       /\ At(bits, 1, e)
  <2>1. /\ pos[m + 1] = pos[m] + Len(Encoding(sent[m + 1], last[m]))
        /\ last[m + 1] = LastAfter(sent[m + 1], last[m])
        /\ At(bits, pos[m] + 1, Encoding(sent[m + 1], last[m]))
    BY <1>1, <1>6 DEF Laid
  <2>2. 0 + c = c /\ 0 + 1 = 1
    BY <1>9
  <2> QED BY <2>1, <2>2, <1>4
<1>11. c <= Len(bits)
  <2> HIDE DEF n, m, c
  <2> QED BY <1>4, <1>6, <1>10
<1>12. /\ BitsRead = c
       /\ [dir |-> bits[1], type |-> NextType, price |-> NextPrice,
           volume |-> GetBits(bits, 2, VolumeBits)] = AsReceived(order)
  BY <1>7, <1>8, <1>10, Decoded DEF LastPrices
<1>13. LastAfter(AsReceived(order), dec_last) = LastAfter(order, dec_last)
  <2>1. /\ AsReceived(order).type = order.type
        /\ order.type = "Limit" => AsReceived(order).price = order.price
    <3> DEFINE o == order
    <3>1. o = [dir |-> o.dir, type |-> o.type, price |-> o.price, volume |-> o.volume]
      BY <1>7, OrderFields
    <3> HIDE DEF o
    <3>2. /\ AsReceived(o).type = o.type
          /\ o.type = "Limit" => AsReceived(o).price = o.price
      BY <3>1 DEF AsReceived
    <3> QED BY <3>2 DEF o
  <2> QED BY <2>1 DEF LastAfter
<1>14. /\ got' = Append(got, AsReceived(order))
       /\ dec_last' = LastAfter(order, dec_last)
       /\ bits' = SubSeq(bits, c + 1, Len(bits))
       /\ sent' = sent /\ enc_last' = enc_last
  BY <1>12, <1>13 DEF Receive
<1> HIDE DEF e, c
<1>15. /\ bits' \in Seq(0..1) /\ Len(bits') = Len(bits) - c
       /\ \A i \in 1..(Len(bits) - c) : bits'[i] = bits[c + i]
  BY <1>2, <1>3, <1>9, <1>11, <1>14, Dropped
<1> HIDE DEF n, m, order
<1>16. /\ got' \in Seq({AsReceived(o) : o \in Orders}) /\ Len(got') = m + 1
       /\ \A i \in 1..m : got'[i] = got[i]
       /\ got'[m + 1] = AsReceived(order)
  <2>1. got \in Seq({AsReceived(o) : o \in Orders})
        /\ AsReceived(order) \in {AsReceived(o) : o \in Orders}
    BY <1>7 DEF CodecInv
  <2> QED BY <2>1, <1>14, AppendProperties DEF m
<1>17. PICK pos2 \in [Nat -> Nat] : \A k \in (m + 1)..n : pos2[k] = pos[k] - c /\ c <= pos[k]
  <2> DEFINE f == [k \in Nat |-> IF k \in (m + 1)..n THEN pos[k] - c ELSE 0]
  <2>1. ASSUME NEW k \in (m + 1)..n PROVE c <= pos[k] /\ pos[k] - c \in Nat /\ k \in Nat
    <3>1. k \in m..n /\ k \in Nat /\ m + 1 <= k
      BY <1>2
    <3>2. pos[m + 1] <= pos[k] /\ pos[k] \in Nat
      BY <3>1, <1>1, <1>4, <1>6
    <3>3. c \in Nat /\ c <= pos[k]
      BY <3>2, <1>9, <1>10
    <3> QED BY <3>1, <3>2, <3>3, Distances
  <2>2. f \in [Nat -> Nat]
    BY <2>1
  <2>3. \A k \in (m + 1)..n : f[k] = pos[k] - c /\ c <= pos[k]
    BY <2>1
  <2> HIDE DEF f
  <2> QED BY <2>2, <2>3
<1>18. ASSUME NEW k \in (m + 1)..n
       PROVE  /\ k \in m..n /\ k \in Nat /\ pos2[k] = pos[k] - c
              /\ c <= pos[k] /\ pos[k] \in Nat /\ c \in Nat
  <2>1. k \in m..n /\ k \in Nat
    BY <1>2
  <2>2. pos[k] \in Nat
    BY <2>1, <1>1
  <2> QED BY <2>1, <2>2, <1>9, <1>17
<1>19. pos2[m + 1] = 0 /\ pos2[n] = Len(bits')
  <2>1. m + 1 \in (m + 1)..n /\ n \in (m + 1)..n
    BY <1>2, <1>5
  <2>2. pos2[m + 1] = c - c /\ pos2[n] = Len(bits) - c /\ c \in Nat
    BY <2>1, <1>4, <1>10, <1>18
  <2> QED BY <2>2, <1>15
<1>20. ASSUME NEW j \in (m + 1)..n, NEW k \in (m + 1)..n, j <= k PROVE pos2[j] <= pos2[k]
  <2>1. pos2[j] = pos[j] - c /\ pos2[k] = pos[k] - c /\ pos[j] \in Nat /\ pos[k] \in Nat /\ c \in Nat
    BY <1>18
  <2>2. pos[j] <= pos[k]
    BY <1>4, <1>18, <1>20
  <2> QED BY <2>1, <2>2, Distances
<1>21. ASSUME NEW k \in (m + 1)..(n - 1)
       PROVE  /\ pos2[k + 1] = pos2[k] + Len(Encoding(sent[k + 1], last[k]))
              /\ last[k + 1] = LastAfter(sent[k + 1], last[k])
              /\ At(bits', pos2[k] + 1, Encoding(sent[k + 1], last[k]))
  <2> DEFINE d == Encoding(sent[k + 1], last[k])
  <2>1. /\ k \in (m + 1)..n /\ k + 1 \in (m + 1)..n /\ k \in m..(n - 1) /\ k + 1 <= n
        /\ k + 1 \in m..n /\ k + 1 \in 1..n /\ k \in Nat
    BY <1>2
  <2>2. /\ pos[k + 1] = pos[k] + Len(d)
        /\ last[k + 1] = LastAfter(sent[k + 1], last[k])
        /\ At(bits, pos[k] + 1, d)
    BY <2>1, <1>1 DEF Laid, n, m
  <2>3. Len(d) \in Nat
    <3>1. sent[k + 1] \in Orders
      BY <2>1, ElementOfSeq DEF CodecInv, n
    <3>2. last[k] \in LastPrices
      BY <2>1, <1>1
    <3> QED BY <3>1, <3>2, EncodingBits DEF LastPrices
  <2> HIDE DEF d
  <2>4. /\ pos2[k] = pos[k] - c /\ pos2[k + 1] = pos[k + 1] - c
        /\ pos[k] \in Nat /\ c \in Nat /\ c <= pos[k]
    BY <2>1, <1>18
  <2>5. pos[k] + Len(d) <= Len(bits)
    BY <2>1, <2>2, <1>4, <1>6
  <2>6. FromThere(pos[k], c, Len(d), Len(bits))
    BY <2>3, <2>4, <2>5, <1>2, Shifted
  <2>7. /\ pos2[k + 1] = pos2[k] + Len(d) /\ pos2[k] + Len(d) <= Len(bits) - c
        /\ pos2[k] \in Nat /\ Len(bits) - c \in Nat
    <3>1. /\ (pos[k] + Len(d)) - c = (pos[k] - c) + Len(d)
          /\ (pos[k] - c) + Len(d) <= Len(bits) - c
          /\ pos[k] - c \in Nat /\ Len(bits) - c \in Nat
      BY <2>6 DEF FromThere
    <3> QED BY <3>1, <2>2, <2>4, Zenon
  <2>8. ASSUME NEW i \in 1..Len(d) PROVE bits'[pos2[k] + 1 + i - 1] = d[i]
    <3>1. pos2[k] + 1 + i - 1 = pos2[k] + i /\ pos2[k] + i \in 1..(Len(bits) - c)
      BY <2>3, <2>7, Inside
    <3>2. bits'[pos2[k] + i] = bits[c + (pos2[k] + i)]
      BY <3>1, <1>15
    <3>3. c + (pos2[k] + i) = pos[k] + 1 + i - 1
      <4>1. i \in Nat
        BY <2>3
      <4>2. c + ((pos[k] - c) + i) = pos[k] + 1 + i - 1
        BY <4>1, <2>6 DEF FromThere
      <4> QED BY <4>2, <2>4
    <3>4. bits[pos[k] + 1 + i - 1] = d[i]
      BY <2>2 DEF At
    <3> QED BY <3>1, <3>2, <3>3, <3>4
  <2>9. At(bits', pos2[k] + 1, d)
    BY <2>8 DEF At
  <2> QED BY <2>2, <2>7, <2>9 DEF d
<1>22. Laid(last, pos2)'
  <2>1. Len(got') = m + 1 /\ Len(sent') = n /\ sent' = sent
    BY <1>14, <1>16 DEF n
  <2>2. last[m + 1] = dec_last' /\ last[n] = enc_last'
    BY <1>4, <1>10, <1>14
  <2> QED BY <2>1, <2>2, <1>19, <1>20, <1>21 DEF Laid
<1>23. \A i \in 1..Len(got') : got'[i] = AsReceived(sent'[i])
  <2>1. \A i \in 1..m : got[i] = AsReceived(sent[i])
    BY DEF CodecInv, m
  <2>2. \A i \in 1..(m + 1) : i \in 1..m \/ i = m + 1
    BY <1>2
  <2> QED BY <2>1, <2>2, <1>14, <1>16 DEF order
<1>24. sent' \in Seq(Orders) /\ Len(got') <= Len(sent')
  <2>1. sent' \in Seq(Orders) /\ Len(sent') = n
    BY <1>14 DEF CodecInv, n
  <2> QED BY <2>1, <1>6, <1>16
<1> QED BY <1>1, <1>15, <1>16, <1>22, <1>23, <1>24 DEF CodecInv

\* Nothing happens.
LEMMA CodecStutter == ASSUME CodecInv, UNCHANGED codecVars PROVE CodecInv'
<1>1. sent' = sent /\ enc_last' = enc_last /\ bits' = bits /\ dec_last' = dec_last /\ got' = got
  BY DEF codecVars
<1>2. PICK last \in [Nat -> LastPrices], pos \in [Nat -> Nat] : Laid(last, pos)
  BY DEF CodecInv
<1>3. Laid(last, pos)'
  BY <1>1, <1>2 DEF Laid
<1>4. /\ sent' \in Seq(Orders)
      /\ bits' \in Seq(0..1)
      /\ Len(got') <= Len(sent')
      /\ got' \in Seq({AsReceived(order) : order \in Orders})
      /\ \A i \in 1..Len(got') : got'[i] = AsReceived(sent'[i])
  BY <1>1 DEF CodecInv
<1> QED BY <1>2, <1>3, <1>4 DEF CodecInv

\* What the invariant says of the orders.
LEMMA CodecInvGives == CodecInv => RoundTrip
<1> SUFFICES ASSUME CodecInv PROVE RoundTrip
  OBVIOUS
<1>1. PICK last \in [Nat -> LastPrices], pos \in [Nat -> Nat] : Laid(last, pos)
  BY DEF CodecInv
<1>2. ASSUME Len(got) = Len(sent) PROVE bits = <<>>
  <2>1. Len(bits) = 0
    BY <1>1, <1>2 DEF Laid
  <2>2. bits \in Seq(0..1)
    BY DEF CodecInv
  <2> QED BY <2>1, <2>2, EmptySeq
<1>3. DOMAIN got = 1..Len(got)
  BY LenProperties DEF CodecInv
<1> QED BY <1>2, <1>3 DEF CodecInv, RoundTrip

\* For every width of the fields, every difference of prices and every volume:
\* the orders the decoder returns are those the encoder was given, volumes
\* reduced to VolumeBits, and no bit is left over behind the last
\* (codec.h:40-152).
THEOREM OrdersComeBack == CodecSpec => []RoundTrip
<1>1. CodecInit => CodecInv
  BY CodecInitInv
<1>2. CodecInv /\ [CodecNext]_codecVars => CodecInv'
  <2> SUFFICES ASSUME CodecInv, [CodecNext]_codecVars PROVE CodecInv'
    OBVIOUS
  <2>1. CASE Receive
    BY <2>1, ReceiveInv
  <2>2. ASSUME NEW order \in Orders, SendOrder(order) PROVE CodecInv'
    BY <2>2, SendInv
  <2>3. CASE UNCHANGED codecVars
    BY <2>3, CodecStutter
  <2> QED BY <2>1, <2>2, <2>3 DEF CodecNext
<1>3. CodecInv => RoundTrip
  BY CodecInvGives
<1> QED BY <1>1, <1>2, <1>3, PTL DEF CodecSpec

-----------------------------------------------------------------------------
(* BitStream.                                                              *)

\* How many bits were put before packet n, or before the one being filled.
StartOf(n) == IF n < wseq THEN starts[n + 1] ELSE put - Len(wbuf)

\* The bits of a buffer are consecutive and follow the first n.
Follows(buf, n) == \A i \in DOMAIN buf : buf[i] = n + i

\* A packet holds exactly the bits between the start of its number and the
\* start of the next.
WellCut(p) ==
  /\ p.seq < wseq
  /\ Follows(p.data, StartOf(p.seq))
  /\ StartOf(p.seq) + Len(p.data) = StartOf(p.seq + 1)

WriterRight == Follows(wbuf, put - Len(wbuf)) /\ Len(wbuf) <= put

PacketsRight == \A p \in transit \cup queue \cup packets : WellCut(p)

\* The reader's buffer is what comes after the bits it has returned, less
\* those the cursor has passed, and ends where its next packet starts.
ReaderRight ==
  /\ rseq <= wseq
  /\ cursor <= Len(read)
  /\ Follows(rbuf, Len(read) - cursor)
  /\ Len(read) - cursor + Len(rbuf) = StartOf(rseq)

\* The inductive invariant.
Inv == TypeOK /\ WriterRight /\ PacketsRight /\ ReaderRight /\ ReadInOrder /\ PendingUseful

USE BitAssumption

\* Appending, pointwise.
LEMMA Appended ==
  ASSUME NEW S, NEW w \in Seq(S), NEW e \in S
  PROVE  /\ Append(w, e) \in Seq(S)
         /\ Len(Append(w, e)) = Len(w) + 1
         /\ \A i \in 1..Len(w) : Append(w, e)[i] = w[i]
         /\ Append(w, e)[Len(w) + 1] = e
BY AppendProperties

\* A sequence's domain, for the steps that only know its length.
LEMMA Domains ==
  ASSUME NEW S, NEW w \in Seq(S)
  PROVE  /\ Len(w) \in Nat /\ DOMAIN w = 1..Len(w)
         /\ \A i \in 1..Len(w) : w[i] \in S
BY LenProperties, ElementOfSeq

\* Empty buffers everywhere.
LEMMA InitInv == Init => Inv
<1> SUFFICES ASSUME Init PROVE Inv
    OBVIOUS
<1>0. /\ <<>> \in Bits /\ <<>> \in Seq(0..NumBits)
      /\ Len(<<>>) = 0 /\ DOMAIN <<>> = {}
      BY DEF Bits
<1>1. TypeOK
      BY <1>0 DEF Init, TypeOK
<1>2. WriterRight
      BY <1>0 DEF Init, WriterRight, Follows
<1>3. StartOf(rseq) = 0
  <2>1. Len(wbuf) = 0 /\ put = 0
        BY <1>0, Zenon DEF Init
  <2>2. rseq = 0 /\ wseq = 0
        BY Zenon DEF Init
  <2>3. put - Len(wbuf) = 0
        BY <2>1
  <2>4. ~ (rseq < wseq)
        BY <2>2
  <2>. QED BY <2>3, <2>4, Zenon DEF StartOf
<1>4. ReaderRight
      BY <1>0, <1>3 DEF Init, ReaderRight, Follows
<1>5. PacketsRight /\ ReadInOrder /\ PendingUseful
      BY <1>0 DEF Init, PacketsRight, ReadInOrder, PendingUseful
<1>. QED
     BY <1>1, <1>2, <1>4, <1>5 DEF Inv

\* What flush() does to the starts: those of the packets so far stay, and the
\* next packet begins after all bits put.
LEMMA AfterSend ==
  ASSUME Inv, NEW buf \in Bits,
         put' \in 0..NumBits, Len(buf) <= put',
         put' - Len(buf) = put - Len(wbuf),
         Follows(buf, put - Len(wbuf)),
         Send(buf)
  PROVE  /\ wbuf' = <<>> /\ wseq' = wseq + 1
         /\ starts' \in Seq(0..NumBits) /\ Len(starts') = wseq'
         /\ transit' \subseteq PacketSet
         /\ \A n \in 0..wseq : StartOf(n)' = StartOf(n)
         /\ WriterRight'
         /\ \A p \in transit' : WellCut(p)'
<1> DEFINE s == put' - Len(buf)
<1>1. /\ wbuf' = <<>> /\ wseq' = wseq + 1
      /\ starts' = Append(starts, s)
      /\ transit' = transit \cup {Packet(wseq, buf)}
      BY DEF Send
<1>2. wseq \in Nat /\ put \in Nat /\ Len(buf) \in Nat /\ Len(wbuf) \in Nat
      BY Domains DEF Inv, TypeOK, Bits
<1>3. s \in 0..NumBits /\ s = put - Len(wbuf)
      BY <1>2
<1>4. starts \in Seq(0..NumBits) /\ Len(starts) = wseq
      BY DEF Inv, TypeOK
<1> HIDE DEF s
<1>5. /\ starts' \in Seq(0..NumBits)
      /\ Len(starts') = wseq + 1
      /\ \A i \in 1..wseq : starts'[i] = starts[i]
      /\ starts'[wseq + 1] = s
      BY <1>1, <1>3, <1>4, Appended
<1>6. \A n \in 0..wseq : StartOf(n)' = StartOf(n)
  <2> TAKE n \in 0..wseq
  <2>0. n < wseq'
        BY <1>1, <1>2
  <2>1. StartOf(n)' = starts'[n + 1]
        BY <2>0 DEF StartOf
  <2>2. CASE n < wseq
        BY <2>1, <2>2, <1>2, <1>5 DEF StartOf
  <2>3. CASE n = wseq
        BY <2>1, <2>3, <1>2, <1>3, <1>5 DEF StartOf
  <2>. QED BY <2>2, <2>3, <1>2
<1>7. WriterRight'
  <2>1. wbuf' = <<>> /\ Len(wbuf') = 0 /\ DOMAIN wbuf' = {}
        BY <1>1
  <2>. QED BY <2>1 DEF WriterRight, Follows
<1>8. \A n : n = wseq + 1 => StartOf(n)' = put'
  <2>1. Len(<<>>) = 0
        OBVIOUS
  <2>2. \A n : n = wseq + 1 => StartOf(n)' = put' - Len(wbuf')
        BY <1>1, <1>2 DEF StartOf
  <2>. QED BY <2>1, <2>2, <1>1, <1>2
<1>9. ASSUME NEW p \in transit' PROVE WellCut(p)' /\ p \in PacketSet
  <2>1. CASE p \in transit
    <3>1. WellCut(p) /\ p \in PacketSet
          BY <2>1 DEF Inv, PacketsRight, TypeOK
    <3>2. p.seq \in Nat /\ p.seq < wseq
          BY <3>1 DEF WellCut, PacketSet
    <3>3. StartOf(p.seq)' = StartOf(p.seq) /\ StartOf(p.seq + 1)' = StartOf(p.seq + 1)
          BY <3>2, <1>2, <1>6
    <3>. QED BY <3>1, <3>2, <3>3, <1>1, <1>2 DEF WellCut, Follows
  <2>2. CASE p = Packet(wseq, buf)
    <3>1. p.seq = wseq /\ p.data = buf /\ p \in PacketSet
          BY <2>2, <1>2 DEF Packet, PacketSet
    <3>2. StartOf(p.seq)' = put - Len(wbuf)
          BY <3>1, <1>2, <1>6 DEF StartOf
    <3>3. StartOf(p.seq + 1)' = put'
          BY <3>1, <1>8
    <3>4. p.seq < wseq'
          BY <3>1, <1>1, <1>2
    <3>5. \A i \in DOMAIN buf : buf[i] = (put - Len(wbuf)) + i
          BY DEF Follows
    <3>6. Follows(p.data, StartOf(p.seq))'
      <4>1. \A i \in DOMAIN p.data : p.data[i] = StartOf(p.seq)' + i
            BY <3>1, <3>2, <3>5
      <4>. QED BY <4>1 DEF Follows
    <3>7. StartOf(p.seq)' + Len(p.data) = StartOf(p.seq + 1)'
      <4>1. s + Len(buf) = put'
            BY <1>2 DEF s
      <4>. QED BY <4>1, <3>1, <3>2, <3>3, <1>3
    <3>. QED BY <3>1, <3>4, <3>6, <3>7 DEF WellCut
  <2>. QED BY <2>1, <2>2, <1>1
<1>. QED BY <1>1, <1>2, <1>5, <1>6, <1>7, <1>8, <1>9

\* Packets that were well cut stay so, and the reader is not disturbed, as
\* long as the starts up to the writer's packet stay.
LEMMA StartsKept ==
  ASSUME Inv, wseq' \in Nat, wseq' >= wseq,
         \A n \in 0..wseq : StartOf(n)' = StartOf(n)
  PROVE  \A p \in transit \cup queue \cup packets : WellCut(p)'
<1>1. wseq \in Nat /\ rseq \in 0..wseq
      BY DEF Inv, TypeOK, ReaderRight
<1>2. ASSUME NEW p \in transit \cup queue \cup packets PROVE WellCut(p)'
  <2>1. WellCut(p) /\ p.seq \in Nat
        BY DEF Inv, PacketsRight, TypeOK, PacketSet
  <2>2. StartOf(p.seq)' = StartOf(p.seq) /\ StartOf(p.seq + 1)' = StartOf(p.seq + 1)
        BY <2>1, <1>1 DEF WellCut
  <2>3. p.seq < wseq'
        BY <2>1, <1>1 DEF WellCut
  <2>. QED BY <2>1, <2>2, <2>3 DEF WellCut, Follows
<1>. QED BY <1>1, <1>2

\* StartOf(rseq) as ReaderRight' needs it when the reader stands still.
LEMMA ReaderKept ==
  ASSUME Inv, UNCHANGED reader, wseq' \in Nat, wseq' >= wseq,
         \A n \in 0..wseq : StartOf(n)' = StartOf(n)
  PROVE  ReaderRight' /\ ReadInOrder' /\ PendingUseful'
<1>1. wseq \in Nat /\ rseq \in 0..wseq /\ rseq' = rseq
      BY DEF Inv, TypeOK, ReaderRight, reader
<1>2. \A n : n = rseq => StartOf(n)' = StartOf(n)
      BY <1>1
<1>3. StartOf(rseq)' = StartOf(rseq)
      BY <1>1, <1>2 DEF StartOf
<1>. QED
     BY <1>1, <1>3 DEF Inv, reader, ReaderRight, ReadInOrder, PendingUseful, Follows

\* put_bit() keeps the invariant.
LEMMA PutBitInv == Inv /\ PutBit => Inv'
<1> SUFFICES ASSUME Inv, PutBit PROVE Inv'
    OBVIOUS
<1> DEFINE buf == Append(wbuf, put + 1)
<1>0. /\ wbuf \in Seq(1..NumBits) /\ put \in Nat /\ put < NumBits /\ wseq \in Nat
      /\ put' = put + 1 /\ Len(wbuf) < max_num_bits
      BY DEF Inv, TypeOK, PutBit, Bits
<1>1. Len(wbuf) \in Nat /\ DOMAIN wbuf = 1..Len(wbuf)
      BY <1>0, Domains
<1>2. /\ buf \in Seq(1..NumBits)
      /\ Len(buf) = Len(wbuf) + 1
      /\ \A i \in 1..Len(wbuf) : buf[i] = wbuf[i]
      /\ buf[Len(wbuf) + 1] = put + 1
      BY <1>0, Appended
<1>3. DOMAIN buf = 1..Len(buf)
      BY <1>2, Domains
<1>4. Len(wbuf) <= put /\ \A i \in 1..Len(wbuf) : wbuf[i] = put - Len(wbuf) + i
      BY <1>1 DEF Inv, WriterRight, Follows
<1>5. IF Full(buf) THEN Send(buf) ELSE wbuf' = buf /\ UNCHANGED <<transit, wseq, starts>>
      BY DEF PutBit
<1>6. UNCHANGED <<wpc, queue, reader>>
      BY DEF PutBit
<1> HIDE DEF buf
<1>7. Follows(buf, put - Len(wbuf))
  <2>1. ASSUME NEW i \in 1..(Len(wbuf) + 1) PROVE buf[i] = put - Len(wbuf) + i
    <3>1. CASE i \in 1..Len(wbuf)
          BY <3>1, <1>2, <1>4
    <3>2. CASE i = Len(wbuf) + 1
          BY <3>2, <1>0, <1>1, <1>2
    <3>. QED BY <3>1, <3>2, <1>1
  <2>. QED BY <2>1, <1>2, <1>3 DEF Follows
<1>8. put' \in 0..NumBits /\ Len(buf) <= put' /\ put' - Len(buf) = put - Len(wbuf)
      BY <1>0, <1>1, <1>2, <1>4
<1>9. CASE Full(buf)
  <2>1. Send(buf) /\ buf \in Bits
        BY <1>2, <1>5, <1>9 DEF Bits
  <2>2. /\ wbuf' = <<>> /\ wseq' = wseq + 1
        /\ starts' \in Seq(0..NumBits) /\ Len(starts') = wseq'
        /\ transit' \subseteq PacketSet
        /\ \A n \in 0..wseq : StartOf(n)' = StartOf(n)
        /\ WriterRight'
        /\ \A p \in transit' : WellCut(p)'
        BY <2>1, <1>7, <1>8, AfterSend
  <2>3. wseq' \in Nat /\ wseq' >= wseq
        BY <2>2, <1>0
  <2>4. \A p \in transit \cup queue \cup packets : WellCut(p)'
        BY <2>2, <2>3, StartsKept
  <2>5. PacketsRight'
        BY <2>2, <2>4, <1>6 DEF PacketsRight, reader
  <2>6. ReaderRight' /\ ReadInOrder' /\ PendingUseful'
        BY <2>2, <2>3, <1>6, ReaderKept
  <2>7. wbuf' \in Bits /\ Len(wbuf') < max_num_bits
        BY <2>2 DEF Bits
  <2>8. TypeOK'
        BY <2>2, <2>3, <2>7, <1>6, <1>8 DEF Inv, TypeOK, reader
  <2>. QED BY <2>2, <2>5, <2>6, <2>8 DEF Inv
<1>10. CASE ~Full(buf)
  <2>1. wbuf' = buf /\ UNCHANGED <<transit, wseq, starts>>
        BY <1>5, <1>10
  <2>2. \A n \in 0..wseq : StartOf(n)' = StartOf(n)
        BY <2>1, <1>8 DEF StartOf
  <2>3. wseq' \in Nat /\ wseq' >= wseq
        BY <2>1, <1>0
  <2>4. \A p \in transit \cup queue \cup packets : WellCut(p)'
        BY <2>2, <2>3, StartsKept
  <2>5. PacketsRight'
        BY <2>1, <2>4, <1>6 DEF PacketsRight, reader
  <2>6. ReaderRight' /\ ReadInOrder' /\ PendingUseful'
        BY <2>2, <2>3, <1>6, ReaderKept
  <2>7. WriterRight'
        BY <2>1, <1>7, <1>8 DEF WriterRight, Follows
  <2>8. wbuf' \in Bits /\ Len(wbuf') < max_num_bits
        BY <2>1, <1>1, <1>2, <1>10 DEF Full, Bits
  <2>9. TypeOK'
        BY <2>1, <2>8, <1>6, <1>8 DEF Inv, TypeOK, reader
  <2>. QED BY <2>5, <2>6, <2>7, <2>9 DEF Inv
<1>. QED BY <1>9, <1>10

\* flush() by hand and by the destructor keeps the invariant.
LEMMA FlushInv == Inv /\ Flush => Inv'
<1> SUFFICES ASSUME Inv, Flush PROVE Inv'
    OBVIOUS
<1>0. /\ wbuf \in Bits /\ put' = put /\ put \in 0..NumBits /\ wseq \in Nat
      /\ wpc' \in {"destroy", "done"} /\ Send(wbuf) /\ UNCHANGED <<queue, reader>>
      BY DEF Inv, TypeOK, Flush
<1>1. Len(wbuf) <= put /\ Follows(wbuf, put - Len(wbuf))
      BY DEF Inv, WriterRight
<1>2. /\ wbuf' = <<>> /\ wseq' = wseq + 1
      /\ starts' \in Seq(0..NumBits) /\ Len(starts') = wseq'
      /\ transit' \subseteq PacketSet
      /\ \A n \in 0..wseq : StartOf(n)' = StartOf(n)
      /\ WriterRight'
      /\ \A p \in transit' : WellCut(p)'
      BY <1>0, <1>1, AfterSend
<1>3. wseq' \in Nat /\ wseq' >= wseq
      BY <1>0, <1>2
<1>4. \A p \in transit \cup queue \cup packets : WellCut(p)'
      BY <1>2, <1>3, StartsKept
<1>5. PacketsRight'
      BY <1>0, <1>2, <1>4 DEF PacketsRight, reader
<1>6. ReaderRight' /\ ReadInOrder' /\ PendingUseful'
      BY <1>0, <1>2, <1>3, ReaderKept
<1>7. wbuf' \in Bits /\ Len(wbuf') < max_num_bits
      BY <1>2 DEF Bits
<1>8. TypeOK'
      BY <1>0, <1>2, <1>3, <1>7 DEF Inv, TypeOK, reader
<1>. QED BY <1>2, <1>5, <1>6, <1>8 DEF Inv

\* Moving packets keeps the invariant.
LEMMA ArriveInv == Inv /\ Arrive => Inv'
<1> SUFFICES ASSUME Inv, Arrive PROVE Inv'
    OBVIOUS
<1>1. PICK p \in transit : /\ queue' = queue \cup {p}
                           /\ transit' \in {transit, transit \ {p}}
      BY DEF Arrive
<1>2. UNCHANGED <<writer, reader>>
      BY DEF Arrive
<1>3. TypeOK'
      BY <1>1, <1>2 DEF Inv, TypeOK, writer, reader
<1>4. PacketsRight'
      BY <1>1, <1>2 DEF Inv, PacketsRight, WellCut, Follows, StartOf, writer, reader
<1>5. WriterRight' /\ ReaderRight' /\ ReadInOrder' /\ PendingUseful'
      BY <1>2 DEF Inv, WriterRight, ReaderRight, ReadInOrder, PendingUseful,
                  Follows, StartOf, writer, reader
<1>. QED BY <1>3, <1>4, <1>5 DEF Inv

\* The reader takes a packet from its queue.
LEMMA TakePacketInv == Inv /\ TakePacket => Inv'
<1> SUFFICES ASSUME Inv, TakePacket PROVE Inv'
    OBVIOUS
<1>1. PICK p \in queue :
        /\ queue' = queue \ {p}
        /\ packets' = IF StillWanted(p)
                      THEN {q \in packets : q.seq # p.seq} \cup {p}
                      ELSE packets
      BY DEF TakePacket
<1>2. UNCHANGED <<writer, transit, rbuf, rseq, cursor, read>>
      BY DEF TakePacket
<1>3. TypeOK'
      BY <1>1, <1>2 DEF Inv, TypeOK, writer
<1>4. PacketsRight'
      BY <1>1, <1>2 DEF Inv, PacketsRight, WellCut, Follows, StartOf, writer
<1>5. PendingUseful'
      BY <1>1, <1>2 DEF Inv, PendingUseful, StillWanted
<1>6. WriterRight' /\ ReaderRight' /\ ReadInOrder'
      BY <1>2 DEF Inv, WriterRight, ReaderRight, ReadInOrder, Follows, StartOf, writer
<1>. QED BY <1>3, <1>4, <1>5, <1>6 DEF Inv

\* The next packet becomes the buffer: it starts where the last one ended.
LEMMA LoadPacketInv == Inv /\ LoadPacket => Inv'
<1> SUFFICES ASSUME Inv, LoadPacket PROVE Inv'
    OBVIOUS
<1>1. PICK p \in packets : /\ p.seq = rseq
                           /\ packets' = packets \ {p}
                           /\ rbuf' = p.data
      BY DEF LoadPacket, Candidates, Found
<1>2. /\ UNCHANGED <<writer, transit, queue, read>>
      /\ rseq' = rseq + 1 /\ cursor' = 0
      BY DEF LoadPacket
<1>3. /\ p.data \in Seq(1..NumBits) /\ rseq \in Nat /\ wseq \in Nat
      /\ cursor \in 0..Len(rbuf) /\ cursor >= Len(rbuf)
      /\ Len(rbuf) \in Nat /\ Len(read) \in Nat
      BY Domains DEF Inv, TypeOK, PacketSet, Bits, LoadPacket, NeedsPacket
<1>4. cursor = Len(rbuf)
      BY <1>3
<1>5. StartOf(rseq) = Len(read)
      BY <1>3, <1>4 DEF Inv, ReaderRight
<1>6. /\ rseq < wseq
      /\ Follows(p.data, Len(read))
      /\ Len(read) + Len(p.data) = StartOf(rseq + 1)
      BY <1>1, <1>5 DEF Inv, PacketsRight, WellCut
<1>8. Len(p.data) \in Nat
      BY <1>3, Domains
<1>9. ReaderRight'
  <2>1. rseq' <= wseq' /\ cursor' <= Len(read') /\ Len(read') - cursor' = Len(read)
        BY <1>2, <1>3, <1>6 DEF writer
  <2>2. Follows(rbuf', Len(read') - cursor')
        BY <1>1, <1>6, <2>1 DEF Follows
  <2>3. StartOf(rseq)' = StartOf(rseq + 1)
        BY <1>2 DEF StartOf, writer
  <2>4. Len(read') - cursor' + Len(rbuf') = StartOf(rseq)'
        BY <1>1, <1>6, <2>1, <2>3
  <2>. QED BY <2>1, <2>2, <2>4 DEF ReaderRight, Follows
<1>10. TypeOK'
       BY <1>1, <1>2, <1>3, <1>8 DEF Inv, TypeOK, PacketSet, Bits, writer
<1>11. PendingUseful'
  <2>1. \A q \in packets' : q \in packets /\ q.seq # rseq
        BY <1>1 DEF Inv, PendingUseful
  <2>2. \A q \in packets' : q.seq \in Nat /\ q.seq >= rseq
        BY <2>1 DEF Inv, PendingUseful, TypeOK, PacketSet
  <2>. QED BY <2>1, <2>2, <1>2, <1>3 DEF Inv, PendingUseful
<1>12. PacketsRight'
       BY <1>1, <1>2 DEF Inv, PacketsRight, WellCut, Follows, StartOf, writer
<1>13. WriterRight' /\ ReadInOrder'
       BY <1>2 DEF Inv, WriterRight, ReadInOrder, Follows, writer
<1>. QED BY <1>9, <1>10, <1>11, <1>12, <1>13 DEF Inv

\* get_bit() returns the bit after those it has returned.
LEMMA GetBitInv == Inv /\ GetBit => Inv'
<1> SUFFICES ASSUME Inv, GetBit PROVE Inv'
    OBVIOUS
<1> DEFINE b == rbuf[cursor + 1]
<1>1. /\ read' = Append(read, b) /\ cursor' = cursor + 1
      /\ UNCHANGED <<writer, transit, queue, packets, rbuf, rseq>>
      /\ cursor < Len(rbuf)
      BY DEF GetBit
<1>2. /\ rbuf \in Seq(1..NumBits) /\ read \in Seq(1..NumBits) /\ cursor \in Nat
      /\ Len(rbuf) \in Nat /\ Len(read) \in Nat
      /\ DOMAIN rbuf = 1..Len(rbuf) /\ DOMAIN read = 1..Len(read)
      BY Domains DEF Inv, TypeOK, Bits
<1>3. cursor + 1 \in DOMAIN rbuf /\ b \in 1..NumBits
      BY <1>1, <1>2, Domains
<1>4. b = Len(read) + 1
      BY <1>2, <1>3 DEF Inv, ReaderRight, Follows
<1> HIDE DEF b
<1>5. /\ read' \in Seq(1..NumBits) /\ Len(read') = Len(read) + 1
      /\ \A i \in 1..Len(read) : read'[i] = read[i]
      /\ read'[Len(read) + 1] = b
      BY <1>1, <1>2, <1>3, Appended
<1>6. DOMAIN read' = 1..Len(read')
      BY <1>5, Domains
<1>7. ReadInOrder'
  <2>1. ASSUME NEW i \in 1..(Len(read) + 1) PROVE read'[i] = i
    <3>1. CASE i \in 1..Len(read)
          BY <3>1, <1>2, <1>5 DEF Inv, ReadInOrder
    <3>2. CASE i = Len(read) + 1
          BY <3>2, <1>4, <1>5
    <3>. QED BY <3>1, <3>2, <1>2
  <2>. QED BY <2>1, <1>5, <1>6 DEF ReadInOrder
<1>8. ReaderRight'
  <2>1. Len(read') - cursor' = Len(read) - cursor
        BY <1>1, <1>2, <1>5
  <2>2. StartOf(rseq)' = StartOf(rseq)
        BY <1>1 DEF StartOf, writer
  <2>3. cursor' <= Len(read')
        BY <1>1, <1>2, <1>5 DEF Inv, ReaderRight
  <2>. QED BY <2>1, <2>2, <2>3, <1>1 DEF Inv, ReaderRight, Follows, writer
<1>9. TypeOK'
      BY <1>1, <1>2, <1>5 DEF Inv, TypeOK, Bits, writer
<1>10. PacketsRight'
       BY <1>1 DEF Inv, PacketsRight, WellCut, Follows, StartOf, writer
<1>11. WriterRight' /\ PendingUseful'
       BY <1>1 DEF Inv, WriterRight, PendingUseful, Follows, writer
<1>. QED BY <1>7, <1>8, <1>9, <1>10, <1>11 DEF Inv

\* The invariant holds in every reachable state.
THEOREM InvariantHolds == Spec => []Inv
<1>1. Inv /\ UNCHANGED vars => Inv'
      BY DEF Inv, TypeOK, WriterRight, PacketsRight, ReaderRight, ReadInOrder,
             PendingUseful, WellCut, Follows, StartOf, vars, writer, reader
<1>2. Inv /\ [Next]_vars => Inv'
      BY <1>1, PutBitInv, FlushInv, ArriveInv, TakePacketInv, LoadPacketInv, GetBitInv
      DEF Next, Write, Read
<1>. QED
     BY InitInv, <1>2, PTL DEF Spec

\* Types; neither end runs over its buffer.
THEOREM TypeCorrect == Spec => []TypeOK
<1>1. Inv => TypeOK
      BY DEF Inv
<1>. QED
     BY InvariantHolds, <1>1, PTL

\* For every number of bits, size of packets and order of arrival the reader
\* returns the bits as they were put.
THEOREM BitsInOrder == Spec => []ReadInOrder
<1>1. Inv => ReadInOrder
      BY DEF Inv
<1>. QED
     BY InvariantHolds, <1>1, PTL

\* The reader's map holds nothing it will not use.
THEOREM MapUseful == Spec => []PendingUseful
<1>1. Inv => PendingUseful
      BY DEF Inv
<1>. QED
     BY InvariantHolds, <1>1, PTL
=============================================================================
