-------------------------------- MODULE Codec -------------------------------
(***************************************************************************)
(* OrderEncoder and OrderDecoder (include/codec.h) at either end of a      *)
(* stream of bits.  Fields keep their role and lose their width: the runs  *)
(* use words of six bits instead of 32, with all other widths to match.    *)
(***************************************************************************)
EXTENDS Integers, Sequences, FiniteSets

CONSTANTS
  WordBits,         \* 32
  SHORTINT_LENGTH,  \* bits of a short price difference
  LengthBits,       \* 5: bits of the length of a long one
  VolumeBits,       \* 10
  Prices, Volumes,  \* what the orders may carry
  OtherPrices,      \* the price field of orders that are not Limit: not used
  NumOrders         \* bound: orders per run

\* 1 << i
Weight[i \in 0..WordBits] == IF i = 0 THEN 1 ELSE 2 * Weight[i - 1]

Word == Weight[WordBits]

ASSUME CodecAssumption ==
  /\ WordBits \in Nat /\ WordBits >= 3
  /\ SHORTINT_LENGTH \in 1..WordBits
  /\ LengthBits \in 0..WordBits
  /\ VolumeBits \in 0..WordBits
  /\ WordBits <= Weight[LengthBits]
  /\ Prices \subseteq 0..(Word \div 2 - 1)  \* int32_t differences do not overflow
  /\ OtherPrices \subseteq 0..(Word - 1)
  /\ Volumes \subseteq 0..(Word - 1)

VARIABLES
  sent,      \* orders passed to OrderEncoder::send
  enc_last,  \* OrderEncoder::last_price
  bits,      \* the bits between the two
  dec_last,  \* OrderDecoder::last_price
  got        \* orders returned by OrderDecoder::next

codecVars == <<sent, enc_last, bits, dec_last, got>>

Bid == 0
Ask == 1

\* The three-bit codes of the types; a Limit order has one of three.
ShortDiff == 0
LongUp == 1
LongDown == 2
CodeOf == [CounterBest |-> 3, ClientBest |-> 4, BestFive |-> 5, FAK |-> 6, FOK |-> 7]

Orders ==
  [dir : {Bid, Ask}, type : {"Limit"}, price : Prices, volume : Volumes] \cup
  [dir : {Bid, Ask}, type : DOMAIN CodeOf, price : OtherPrices, volume : Volumes]

-----------------------------------------------------------------------------
(* Bits.                                                                   *)

\* put_bits(): the num low bits of a word, lowest first.
PutBits(num, value) == [i \in 1..num |-> (value \div Weight[i - 1]) % 2]

\* get_bits(): the number that num bits from the first on stand for.
GetBits(stream, first, num) ==
  LET low[i \in 0..num] ==
        IF i = 0 THEN 0 ELSE low[i - 1] + stream[first + i - 1] * Weight[i - 1]
  IN  low[num]

\* 31 - clz(value)
LogTwo(value) ==
  CHOOSE n \in 0..(WordBits - 1) : Weight[n] <= value /\ value < Weight[n + 1]

\* Mistake: the leading one is counted with the bits that follow it.
WithLeadingOne(value) == LogTwo(value) + 1

\* The length encode_uint() announces.
LengthOf(value) == LogTwo(value)

EncodeUint(value) ==
  PutBits(LengthBits, LengthOf(value)) \o PutBits(LengthOf(value), value)

-----------------------------------------------------------------------------
(* OrderEncoder                                                            *)

\* diff >> (SHORTINT_LENGTH - 1)
Sig(diff) == diff \div Weight[SHORTINT_LENGTH - 1]

\* What follows direction and volume, if last is the last price.
Payload(order, last) ==
  LET diff == order.price - last
  IN  CASE order.type # "Limit" -> PutBits(3, CodeOf[order.type])
        [] order.type = "Limit" /\ Sig(diff) \in {0, -1} ->
             PutBits(3, ShortDiff) \o PutBits(SHORTINT_LENGTH, diff % Word)
        [] order.type = "Limit" /\ Sig(diff) > 0 ->
             PutBits(3, LongUp) \o EncodeUint(diff)
        [] order.type = "Limit" /\ Sig(diff) < -1 ->
             PutBits(3, LongDown) \o EncodeUint(-diff)

\* The bits of an order.
Encoding(order, last) ==
  <<order.dir>> \o PutBits(VolumeBits, order.volume) \o Payload(order, last)

\* last_price after an order
LastAfter(order, last) == IF order.type = "Limit" THEN order.price ELSE last

\* OrderEncoder::send
SendOrder(order) ==
  /\ Len(sent) < NumOrders
  /\ sent' = Append(sent, order)
  /\ bits' = bits \o Encoding(order, enc_last)
  /\ enc_last' = LastAfter(order, enc_last)
  /\ UNCHANGED <<dec_last, got>>

-----------------------------------------------------------------------------
(* OrderDecoder                                                            *)

\* The place after direction, volume and type.
PayloadAt == 1 + VolumeBits + 3 + 1

Code == GetBits(bits, 2 + VolumeBits, 3)

\* Sign extension of a short difference, added to a uint32_t.
ShortPrice ==
  LET raw == GetBits(bits, PayloadAt, SHORTINT_LENGTH)
      signed == IF raw >= Weight[SHORTINT_LENGTH - 1]
                THEN raw - Weight[SHORTINT_LENGTH]
                ELSE raw
  IN  (signed + dec_last) % Word

LongLength == GetBits(bits, PayloadAt, LengthBits)

\* decode_uint(): value | 1 << length
LongDiff ==
  GetBits(bits, PayloadAt + LengthBits, LongLength) + Weight[LongLength]

\* The price of the order the bits start with; 0 for the other types.
NextPrice ==
  CASE Code = ShortDiff -> ShortPrice
    [] Code = LongUp -> (dec_last + LongDiff) % Word
    [] Code = LongDown -> (dec_last - LongDiff) % Word
    [] OTHER -> 0

NextType ==
  IF Code \in {ShortDiff, LongUp, LongDown} THEN "Limit"
  ELSE CHOOSE type \in DOMAIN CodeOf : CodeOf[type] = Code

\* How many bits next() reads.
BitsRead ==
  PayloadAt - 1 + (CASE Code = ShortDiff -> SHORTINT_LENGTH
                     [] Code \in {LongUp, LongDown} -> LengthBits + LongLength
                     [] OTHER -> 0)

\* OrderDecoder::next
Receive ==
  /\ bits # <<>>
  /\ LET order == [dir |-> bits[1], type |-> NextType, price |-> NextPrice,
                   volume |-> GetBits(bits, 2, VolumeBits)]
     IN  /\ got' = Append(got, order)
         /\ dec_last' = LastAfter(order, dec_last)
  /\ bits' = SubSeq(bits, BitsRead + 1, Len(bits))
  /\ UNCHANGED <<sent, enc_last>>

CodecInit ==
  /\ sent = <<>> /\ got = <<>> /\ bits = <<>>
  /\ enc_last = 0 /\ dec_last = 0

CodecNext == Receive \/ \E order \in Orders : SendOrder(order)

CodecSpec == CodecInit /\ [][CodecNext]_codecVars

-----------------------------------------------------------------------------
(* Properties.                                                             *)

\* An order as its stock's thread sees it, on both traders: ten bits of
\* volume are all that passes, and of the price that of a Limit order.
AsReceived(order) ==
  [order EXCEPT !.volume = @ % Weight[VolumeBits],
                !.price = IF order.type = "Limit" THEN @ ELSE 0]

\* The decoder returns the orders that were sent, with every difference of
\* prices around the widths' limits, and stops exactly at the end of an order:
\* when it has returned as many as were sent no bit is left over
\* (codec.h:40-152).
RoundTrip ==
  /\ Len(got) <= Len(sent)
  /\ \A i \in DOMAIN got : got[i] = AsReceived(sent[i])
  /\ Len(got) = Len(sent) => bits = <<>>

=============================================================================
