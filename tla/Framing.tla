------------------------------- MODULE Framing ------------------------------
(***************************************************************************)
(* One connection of Network, one way, byte by byte (src/network.cpp): the *)
(* key and the id, then a header and the data of packet after packet.      *)
(* read() and write() move as many bytes as they like, and the connection  *)
(* breaks between any two bytes.  The other way is the same code.          *)
(***************************************************************************)
EXTENDS Packets, Sequences

CONSTANTS
  NumBits,  \* Packet::num_bits; OBitStream's last packet has none
  Room      \* bytes a socket takes before write() blocks

\* What the connector sends first, the key and its id.
Hello == [key |-> 0, id |-> 0]

ASSUME FramingAssumption ==
  /\ NumBits \in [Packets -> Nat]
  /\ Room \in Nat \ {0}
  /\ \A p \in Packets : p.from = 0  \* trader 0 sends them
  /\ Hello \notin Packets

VARIABLES
  unsent,   \* packets that are still to be queued
  queue,    \* the PacketQueue the Sender drains
  link,     \* none, failed, open, reset, or closed: the sending process is
            \* gone and the rest of its bytes can still be read
  spc,      \* the connector and its Sender: connect, next, write, ended
  cur,      \* what it is writing: the hello or a packet
  written,  \* bytes of it that were written
  sock,     \* bytes on their way
  rpc,      \* the listener and its Receiver: accept, hello, read, ended
  got,      \* bytes that were read and not yet passed on
  out,      \* what was passed to the sink, as bytes
  lost      \* packets whose last byte a break took away

sender == <<unsent, queue, spc, cur, written>>
receiver == <<rpc, got, out>>
vars == <<sender, receiver, link, sock, lost>>

-----------------------------------------------------------------------------

\* Sizes in bytes; the fields of a PacketHeader are seq and num_bits, and the
\* hello, of key and id, is as long.
HEADER == 2

\* Mistake: the last bits are forgotten.
RoundedDown(n) == n \div 8

NumBytes(n) == (n + 7) \div 8

Total(x) == HEADER + IF x = Hello THEN 0 ELSE (NumBits[x] + 7) \div 8  \* data.size()

\* Byte i of what is sent for x.
Image(x) == [i \in 1..Total(x) |-> <<x, i>>]

Last(x) == <<x, Total(x)>>

\* write_exact and read_exact each do a header and the data apart.
Piece(done, total) == IF done < HEADER THEN HEADER ELSE total

BytesIn(s) == {s[i] : i \in DOMAIN s}

\* OBitStream::flush of some stock.
Flush ==
  /\ link # "closed"
  /\ \E p \in unsent : unsent' = unsent \ {p} /\ queue' = queue \cup {p}
  /\ UNCHANGED <<receiver, link, spc, cur, written, sock, lost>>

\* connect() succeeds; key and id come next.
Connect ==
  /\ link = "none"
  /\ link' = "open"
  /\ spc' = "write"
  /\ cur' = Hello
  /\ written' = 0
  /\ UNCHANGED <<unsent, queue, receiver, sock, lost>>

GiveUp ==
  /\ link = "none"
  /\ link' = "failed"
  /\ UNCHANGED <<sender, receiver, sock, lost>>

Rewound == 0

\* stream->next() and the guard.
Take ==
  /\ spc = "next" /\ link # "closed"
  /\ \E p \in Top(queue) : cur' = p /\ queue' = queue \ {p}
  /\ spc' = "write"
  /\ written' = Rewound
  /\ UNCHANGED <<unsent, receiver, link, sock, lost>>

\* write() takes some bytes of the piece.
WriteSome ==
  /\ spc = "write" /\ link = "open"
  /\ \E n \in 1..Piece(written, Total(cur)) - written :
       /\ Len(sock) + n <= Room
       /\ written' = written + n
       /\ sock' = sock \o SubSeq(Image(cur), written + 1, written + n)
  /\ UNCHANGED <<unsent, queue, receiver, link, spc, cur, lost>>

\* The kernel takes the bytes of a connection that is broken already.
WriteIntoVoid ==
  /\ spc = "write" /\ link = "reset"
  /\ \E n \in 1..Piece(written, Total(cur)) - written :
       /\ written' = written + n
       /\ lost' = IF written + n = Total(cur) /\ cur # Hello THEN lost \cup {cur} ELSE lost
  /\ UNCHANGED <<unsent, queue, receiver, link, spc, cur, sock>>

\* guard.reset(), or the connector spawns the Sender.
Written ==
  /\ spc = "write" /\ link # "closed"
  /\ written = Total(cur)
  /\ spc' = "next"
  /\ UNCHANGED <<unsent, queue, receiver, link, cur, written, sock, lost>>

MayFail == spc = "write" /\ link = "reset" /\ written < Total(cur)

\* write() < 0: the guard requeues the packet.  The connector has no guard,
\* and ends before there is a Sender.
WriteFails ==
  /\ MayFail
  /\ queue' = queue \cup ({cur} \ {Hello})
  /\ spc' = "ended"
  /\ UNCHANGED <<unsent, receiver, link, cur, written, sock, lost>>

\* The listener's accept(); a broken connection may still be in the backlog.
Accept ==
  /\ rpc = "accept" /\ link \in {"open", "reset", "closed"}
  /\ rpc' = "hello"
  /\ UNCHANGED <<sender, link, sock, got, out, lost>>

\* What the Receiver reads num_bits from.
Announced(b) == IF b \in {<<p, HEADER>> : p \in Packets} THEN NumBits[b[1]] ELSE 0

\* Where the read_exact in progress ends.
Wanted ==
  IF rpc = "hello" \/ Len(got) < HEADER THEN HEADER
  ELSE HEADER + NumBytes(Announced(got[HEADER]))

\* read() gives some bytes, none beyond those asked for.
ReadSome ==
  /\ rpc \in {"hello", "read"}
  /\ \E n \in 1..Len(sock) :
       /\ Len(got) + n <= Wanted
       /\ got' = got \o SubSeq(sock, 1, n)
       /\ sock' = SubSeq(sock, n + 1, Len(sock))
  /\ UNCHANGED <<sender, link, rpc, out, lost>>

\* The listener has key and id and spawns the Receiver.
Greeted ==
  /\ rpc = "hello"
  /\ Len(got) = HEADER
  /\ rpc' = "read"
  /\ got' = <<>>
  /\ UNCHANGED <<sender, link, sock, out, lost>>

\* Mistake: whatever is there is passed on.
AnyBytes == Len(got) >= HEADER

\* Mistake: read_exact waits for data where there are none.
SomeData == Len(got) > HEADER /\ Len(got) = Wanted

\* Both read_exact are over.
Complete == Len(got) >= HEADER /\ Len(got) = Wanted

\* sink->send(packet).
Deliver ==
  /\ rpc = "read"
  /\ Complete
  /\ out' = Append(out, got)
  /\ got' = <<>>
  /\ UNCHANGED <<sender, link, rpc, sock, lost>>

\* read() < 0: the thread ends with its half of a packet.  At an end of file
\* it reads nothing again and again: no step, and no way on.
ReadFails ==
  /\ rpc \in {"hello", "read"}
  /\ link = "reset" /\ sock = <<>>
  /\ Len(got) < Wanted
  /\ rpc' = "ended"
  /\ got' = <<>>
  /\ UNCHANGED <<sender, link, sock, out, lost>>

\* The connection is reset and loses the bytes from some point on, or the
\* sending process ends, and what it has written comes through.
Break ==
  /\ link = "open"
  /\ \/ /\ link' = "reset"
        /\ \E n \in 0..Len(sock) : sock' = SubSeq(sock, 1, n)
     \/ link' = "closed" /\ UNCHANGED sock
  /\ lost' = lost \cup {p \in Packets : Last(p) \in BytesIn(sock) \ BytesIn(sock')}
  /\ UNCHANGED <<sender, receiver>>

Init ==
  /\ unsent = Packets /\ queue = {}
  /\ link = "none"
  /\ spc = "connect" /\ cur = Hello /\ written = 0
  /\ rpc = "accept" /\ got = <<>> /\ out = <<>>
  /\ sock = <<>>
  /\ lost = {}

Next ==
  \/ Flush \/ Connect \/ GiveUp \/ Take \/ WriteSome \/ WriteIntoVoid \/ Written \/ WriteFails
  \/ Accept \/ ReadSome \/ Greeted \/ Deliver \/ ReadFails \/ Break

Spec == Init /\ [][Next]_vars

\* Threads run and calls come back.
Fairness ==
  /\ WF_vars(Take) /\ WF_vars(Written)
  /\ WF_vars(WriteSome \/ WriteIntoVoid \/ WriteFails)
  /\ WF_vars(Accept) /\ WF_vars(Greeted) /\ WF_vars(Deliver)
  /\ WF_vars(ReadSome \/ ReadFails)

FairSpec == Spec /\ Fairness

-----------------------------------------------------------------------------
(* Properties.                                                             *)

\* The sink is only ever given whole packets, byte for byte, however the
\* reads and writes fall and wherever the connection breaks: a half packet at
\* an end of file or an error goes nowhere (network.cpp:40, network.cpp:76).
WholePackets == \A i \in DOMAIN out : \E p \in Packets : out[i] = Image(p)

\* On a connection that holds, every packet that is queued arrives.
HeldArrives == \A p \in Packets : p \in queue ~> Image(p) \in BytesIn(out) \/ link # "open"

-----------------------------------------------------------------------------
(* The same connection in Network, as that of trader 0 to exchanger 2.     *)

Conn == [trader |-> 0, exchanger |-> 2, k |-> 1]

\* A queue of packets at trader 0, one at the exchanger, and nothing elsewhere.
Pools(q, r) ==
  [h \in {0, 1, 2} |-> [t \in {0, 1} |->
    IF h = 0 /\ t = 0 THEN q ELSE IF h = 2 /\ t = 0 THEN r ELSE {}]]

\* One value on one side of the connection.
OneSide(side, x, none) ==
  [c \in {Conn} |-> [s \in {"trader", "exchanger"} |-> IF s = side THEN x ELSE none]]

\* Packets are in a wire when their last byte is, in the order of those: the
\* k-th is the one whose last byte has the rank k.
Ends(b) == {i \in DOMAIN b : b[i] \in {Last(p) : p \in Packets}}

Rank(b, i) == Cardinality({j \in Ends(b) : j <= i})

Place(b, k) == CHOOSE i \in Ends(b) : Rank(b, i) = k

Whole(b) == [k \in 1..Cardinality(Ends(b)) |-> b[Place(b, k)][1]]

NetPool == Pools(queue, {p \in Packets : Image(p) \in BytesIn(out)})

NetLink == [c \in {Conn} |-> IF link \in {"reset", "closed"} THEN "broken" ELSE link]

NetUp ==
  [c \in {Conn} |-> IF spc = "connect" THEN {}
                    ELSE IF rpc \in {"accept", "hello"} THEN {"trader"} ELSE {"trader", "exchanger"}]

NetEnded == [c \in {Conn} |-> IF spc = "ended" /\ cur # Hello THEN {"trader"} ELSE {}]

NetHand ==
  OneSide("trader", IF spc = "write" /\ cur # Hello /\ written < Total(cur) THEN {cur} ELSE {}, {})

NetWire == OneSide("exchanger", Whole(got \o sock), <<>>)

Net == INSTANCE Network WITH
  Exchangers <- {2}, Connections <- {Conn},
  pool <- NetPool, link <- NetLink, up <- NetUp, ended <- NetEnded, hand <- NetHand, wire <- NetWire

\* Byte by byte the code does what Network does packet by packet: above all, a
\* packet that is put back has not come through and can not come through,
\* because its last byte was never sent (network.cpp:57).
ImplementsNetwork == Net!Spec
=============================================================================
