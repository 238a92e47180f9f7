------------------------------ MODULE BitStream -----------------------------
(***************************************************************************)
(* One stock's bits on their way from an OBitStream to an IBitStream       *)
(* (include/bitstream.h).  The writer cuts the bits into numbered packets; *)
(* between the two the packets arrive in any order, and here even more     *)
(* than once, because the reader is written to discard repetitions; the    *)
(* reader puts them in order again.                                        *)
(*                                                                         *)
(* A bit is represented by its number in the stream, so that a reader that *)
(* mixes bits up is seen to.  uint32_t counters of packets do not wrap: a  *)
(* stock has a few dozen packets of 255 KB.                                *)
(***************************************************************************)
EXTENDS Integers, Sequences, FiniteSets

CONSTANTS
  NumBits,      \* bits the encoder puts
  max_num_bits  \* capacity of a packet

ASSUME BitAssumption == NumBits \in Nat /\ max_num_bits \in Nat \ {0}

VARIABLES
  wpc,      \* the encoder: "put", "destroy" after encoder.flush(), "done"
  put,      \* bits put so far
  wbuf,     \* OBitStream::buf; cursor is its length
  wseq,     \* OBitStream::seq
  transit,  \* packets on their way
  queue,    \* the PacketQueue the reader takes from
  packets,  \* IBitStream::packets
  rbuf,     \* IBitStream::buf; num_bits is its length
  rseq,     \* IBitStream::seq
  cursor,   \* IBitStream::cursor
  read,     \* the bits get_bit() has returned
  starts    \* history: the bits put before each packet

writer == <<wpc, put, wbuf, wseq, starts>>
reader == <<packets, rbuf, rseq, cursor, read>>
vars == <<writer, transit, queue, reader>>

\* struct Packet; num_bits is the length of data
Packet(seq, data) == [seq |-> seq, data |-> data]

-----------------------------------------------------------------------------
(* OBitStream                                                              *)

\* cursor >= max_num_bits
Full(buf) == Len(buf) >= max_num_bits

\* flush(): whatever the buffer holds is sent, be it nothing.
Send(buf) ==
  /\ transit' = transit \cup {Packet(wseq, buf)}
  /\ wseq' = wseq + 1
  /\ wbuf' = <<>>
  /\ starts' = Append(starts, put' - Len(buf))

\* put_bit(): a full buffer is flushed at once.
PutBit ==
  /\ wpc = "put"
  /\ put < NumBits
  /\ put' = put + 1
  /\ LET buf == Append(wbuf, put + 1)
     IN  IF Full(buf)
         THEN Send(buf)
         ELSE wbuf' = buf /\ UNCHANGED <<transit, wseq, starts>>
  /\ UNCHANGED <<wpc, queue, reader>>

\* encoder.flush() after the last order, and ~OBitStream when process_stock
\* returns.
Flush ==
  /\ \/ wpc = "put" /\ put = NumBits /\ wpc' = "destroy"
     \/ wpc = "destroy" /\ wpc' = "done"
  /\ UNCHANGED put
  /\ Send(wbuf)
  /\ UNCHANGED <<queue, reader>>

-----------------------------------------------------------------------------
(* What lies between.                                                      *)

\* A packet reaches the reader's queue; it may come again.
Arrive ==
  /\ \E p \in transit :
       /\ queue' = queue \cup {p}
       /\ transit' \in {transit, transit \ {p}}
  /\ UNCHANGED <<writer, reader>>

-----------------------------------------------------------------------------
(* IBitStream                                                              *)

\* get_bit() is called, because an order is not complete, and the buffer is
\* used up.
NeedsPacket ==
  /\ Len(read) < NumBits
  /\ cursor >= Len(rbuf)

\* packets.find(seq)
Found == {p \in packets : p.seq = rseq}

\* Mistake: the packet after the last one read is taken for a repetition.
OffByOne(p) == p.seq > rseq

\* Not one of the packets that were read already.
StillWanted(p) == p.seq >= rseq

\* fetch_packet(): one packet is taken from the queue and kept or discarded.
\* std::map keeps one packet per seq.
TakePacket ==
  /\ NeedsPacket
  /\ Found = {}
  /\ \E p \in queue :
       /\ \A q \in queue : p.seq <= q.seq
       /\ queue' = queue \ {p}
       /\ packets' = IF StillWanted(p)
                     THEN {q \in packets : q.seq # p.seq} \cup {p}
                     ELSE packets
  /\ UNCHANGED <<writer, transit, rbuf, rseq, cursor, read>>

\* Mistake: whatever has arrived is good enough.
AnyPacket == packets

\* The packets fetch_packet() may go on with.
Candidates == Found

\* fetch_packet(): the packet with the next number becomes the buffer.
LoadPacket ==
  /\ NeedsPacket
  /\ \E p \in Candidates :
       /\ packets' = packets \ {p}
       /\ rbuf' = p.data
  /\ rseq' = rseq + 1
  /\ cursor' = 0
  /\ UNCHANGED <<writer, transit, queue, read>>

\* get_bit()
GetBit ==
  /\ Len(read) < NumBits
  /\ cursor < Len(rbuf)
  /\ read' = Append(read, rbuf[cursor + 1])
  /\ cursor' = cursor + 1
  /\ UNCHANGED <<writer, transit, queue, packets, rbuf, rseq>>

Write == PutBit \/ Flush

Read == TakePacket \/ LoadPacket \/ GetBit

Init ==
  /\ wpc = "put"
  /\ put = 0
  /\ wbuf = <<>>
  /\ wseq = 0
  /\ transit = {}
  /\ queue = {}
  /\ packets = {}
  /\ rbuf = <<>>
  /\ rseq = 0
  /\ cursor = 0
  /\ read = <<>>
  /\ starts = <<>>

Next == Write \/ Arrive \/ Read

Spec == Init /\ [][Next]_vars

\* Both threads run, and no packet stays on its way for ever (what a lost one
\* does is seen in AllRead's condition: nothing can replace it).
FairSpec ==
  /\ Spec /\ WF_vars(Write) /\ WF_vars(Read)
  /\ \A n \in 0..(NumBits + 1) :
       WF_vars((\E p \in transit : p.seq = n /\ transit' = transit \ {p}) /\ Arrive)

-----------------------------------------------------------------------------
(* Properties.                                                             *)

Bits == Seq(1..NumBits)

PacketSet == [seq : Nat, data : Bits]

\* Types; the writer's buffer is never left full, the reader never runs past
\* its buffer.
TypeOK ==
  /\ wpc \in {"put", "destroy", "done"}
  /\ put \in 0..NumBits
  /\ wbuf \in Bits /\ Len(wbuf) < max_num_bits
  /\ wseq \in Nat
  /\ transit \subseteq PacketSet
  /\ queue \subseteq PacketSet
  /\ packets \subseteq PacketSet
  /\ rbuf \in Bits
  /\ rseq \in Nat
  /\ cursor \in 0..Len(rbuf)
  /\ read \in Bits
  /\ starts \in Seq(0..NumBits) /\ Len(starts) = wseq

\* The reader returns the bits in the order they were put, whatever order,
\* repetitions and empty packets they came in (bitstream.h:66-112).
ReadInOrder == \A i \in DOMAIN read : read[i] = i

\* The map holds one packet per number, and none that can no longer be used:
\* repetitions do not pile up (bitstream.h:72-76).
PendingUseful ==
  /\ \A p \in packets : p.seq >= rseq
  /\ \A p, q \in packets : p.seq = q.seq => p = q

\* If every packet arrives, every bit is read.
AllRead == <>(Len(read) = NumBits)
=============================================================================
