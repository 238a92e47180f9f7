---------------------------- MODULE FramingProofs ---------------------------
(***************************************************************************)
(* Proofs about Framing: that only whole packets are passed on, and that   *)
(* one connection, byte by byte, is what Network takes it for.             *)
(***************************************************************************)
EXTENDS Framing, SequenceTheorems, FiniteSetTheorems, WellFoundedInduction, TLAPS

\* What is sent over the connection.
Sources == Packets \cup {Hello}

Bytes == Sources \X Nat

\* The bytes that were written and not yet passed on.
Transit == got \o sock

-----------------------------------------------------------------------------
(* Bytes that follow one another.                                          *)

\* A byte of something that is sent.
IsByte(b, i) == \E x \in Sources : \E j \in 1..Total(x) : b[i] = <<x, j>>

\* A byte is followed by the next one of the same packet, the last byte of a
\* packet by the first one of another.
Follows(b, i) ==
  IF b[i] = Last(b[i][1]) THEN b[i + 1][2] = 1 ELSE b[i + 1] = <<b[i][1], b[i][2] + 1>>

\* Packet after packet, from the first byte of one on.
Run(b) ==
  /\ \A i \in 1..Len(b) : IsByte(b, i)
  /\ b # <<>> => b[1][2] = 1
  /\ \A i \in 1..Len(b) : i < Len(b) => Follows(b, i)

\* Bytes w + 1 to w + n of x are appended to b.
Grown(b, d, x, w, n) ==
  /\ Len(d) = Len(b) + n
  /\ \A i \in 1..Len(b) : d[i] = b[i]
  /\ \A k \in 1..n : d[Len(b) + k] = <<x, w + k>>

\* What is behind the first n bytes is cut off.
Cut(b, d) ==
  /\ Len(d) <= Len(b)
  /\ \A i \in 1..Len(d) : d[i] = b[i]

\* The first n bytes are taken away.
Dropped(b, d, n) ==
  /\ n <= Len(b)
  /\ Len(d) = Len(b) - n
  /\ \A i \in 1..Len(d) : d[i] = b[n + i]

\* Every set of numbers with an element has a least one: what an induction
\* over the bytes of a packet comes down to.
LEMMA Least ==
  ASSUME NEW T \in SUBSET Nat, T # {}
  PROVE  \E n \in T : \A m \in T : n <= m
<1>1. IsWellFoundedOn(OpToRel(<, Nat), Nat)
  BY NatLessThanWellFounded
<1>2. PICK x \in T : \A y \in T : ~(<<y, x>> \in OpToRel(<, Nat))
  BY <1>1, WFMin
<1>3. ASSUME NEW y \in T PROVE x <= y
  <2>1. CASE y < x
    <3>1. <<y, x>> \in {ss \in Nat \X Nat : ss[1] < ss[2]}
      BY <2>1
    <3> QED BY <3>1, <1>2 DEF OpToRel
  <2> QED BY <2>1
<1> QED BY <1>3

\* Whatever is sent has a header, so it is not empty.
LEMMA Sizes == \A x \in Sources : Total(x) \in Nat /\ Total(x) >= HEADER
BY FramingAssumption DEF FramingAssumption, Total, HEADER, Sources

\* The receiver computes the size from the number of bits as the sender did.
LEMMA SizeAnnounced == \A p \in Packets : HEADER + NumBytes(NumBits[p]) = Total(p)
BY FramingAssumption DEF FramingAssumption, Total, HEADER, NumBytes, Hello

\* What write() takes of an image are the bytes that come next.
LEMMA Slice ==
  ASSUME NEW x \in Sources, NEW w \in Nat, NEW n \in Nat, w + n <= Total(x)
  PROVE  LET s == SubSeq(Image(x), w + 1, w + n)
         IN  s \in Seq(Bytes) /\ Len(s) = n /\ \A k \in 1..n : s[k] = <<x, w + k>>
<1>1. Total(x) \in Nat
  BY Sizes
<1>2. Image(x) \in Seq(Bytes) /\ Len(Image(x)) = Total(x) /\ \A i \in 1..Total(x) : Image(x)[i] = <<x, i>>
  BY <1>1 DEF Image, Bytes
<1> QED BY <1>1, <1>2, SubSeqProperties

\* Appending the bytes that come next leaves a run of packets one, if they
\* continue what is there.
LEMMA RunGrown ==
  ASSUME NEW b \in Seq(Bytes), NEW d \in Seq(Bytes), NEW x \in Sources, NEW w \in Nat, NEW n \in Nat,
         Run(b), Grown(b, d, x, w, n), w + n <= Total(x),
         IF w = 0 THEN b # <<>> => b[Len(b)] = Last(b[Len(b)][1])
         ELSE b # <<>> /\ b[Len(b)] = <<x, w>>
  PROVE  Run(d)
<1>0. Total(x) \in Nat
  BY Sizes
<1>1. ASSUME NEW i \in 1..Len(d) PROVE IsByte(d, i)
  <2>1. CASE i <= Len(b)
    <3>1. IsByte(b, i) /\ d[i] = b[i]
      BY <2>1 DEF Run, Grown
    <3> QED BY <3>1 DEF IsByte
  <2>2. CASE i > Len(b)
    <3>0. i - Len(b) \in 1..n /\ i = Len(b) + (i - Len(b))
      BY <2>2 DEF Grown
    <3>1. PICK k \in 1..n : i = Len(b) + k
      BY <3>0
    <3>2. w + k \in 1..Total(x)
      BY <3>1, <1>0
    <3>3. d[i] = <<x, w + k>>
      BY <3>1 DEF Grown
    <3> QED BY <3>2, <3>3 DEF IsByte
  <2> QED BY <2>1, <2>2
<1>2. ASSUME d # <<>> PROVE d[1][2] = 1
  <2>1. CASE b # <<>>
    BY <2>1, Len(b) >= 1 DEF Run, Grown
  <2>2. CASE b = <<>>
    <3>1. w = 0 /\ n >= 1 /\ d[1] = <<x, 1>>
      BY <2>2, <1>2 DEF Grown
    <3> QED BY <3>1
  <2> QED BY <2>1, <2>2
<1>3. ASSUME NEW i \in 1..Len(d), i < Len(d) PROVE Follows(d, i)
  <2>1. CASE i < Len(b)
    <3>1. d[i] = b[i] /\ d[i + 1] = b[i + 1]
      BY <2>1 DEF Grown
    <3> QED BY <2>1, <3>1 DEF Run, Follows
  <2>2. CASE i = Len(b)
    <3>1. d[i] = b[i] /\ d[i + 1] = <<x, w + 1>> /\ b # <<>> /\ w + 1 <= Total(x)
      BY <1>0, <1>3, <2>2 DEF Grown
    <3>2. CASE w = 0
      BY <3>1, <3>2, <2>2 DEF Follows
    <3>3. CASE w # 0
      BY <3>1, <3>3, <2>2, <1>0 DEF Follows, Last
    <3> QED BY <3>2, <3>3
  <2>3. CASE i > Len(b)
    <3>0. i - Len(b) \in 1..n /\ i = Len(b) + (i - Len(b)) /\ i - Len(b) < n
      BY <2>3, <1>3 DEF Grown
    <3>1. PICK k \in 1..n : i = Len(b) + k /\ k < n
      BY <3>0
    <3>2. d[i] = <<x, w + k>> /\ d[i + 1] = <<x, w + (k + 1)>>
      <4>1. k + 1 \in 1..n /\ i + 1 = Len(b) + (k + 1)
        BY <3>1
      <4> QED BY <3>1, <4>1 DEF Grown
    <3>3. w + k < Total(x) /\ w + (k + 1) = (w + k) + 1
      BY <3>1, <1>0
    <3>4. d[i] # Last(x)
      BY <3>2, <3>3, <1>0 DEF Last
    <3> QED BY <3>2, <3>3, <3>4 DEF Follows
  <2> QED BY <2>1, <2>2, <2>3
<1> QED BY <1>1, <1>2, <1>3 DEF Run

\* So does cutting off its end.
LEMMA RunCut ==
  ASSUME NEW b \in Seq(Bytes), NEW d \in Seq(Bytes), Run(b), Cut(b, d)
  PROVE  Run(d)
<1>1. ASSUME NEW i \in 1..Len(d) PROVE IsByte(d, i)
  <2>1. i \in 1..Len(b) /\ d[i] = b[i]
    BY DEF Cut
  <2>2. IsByte(b, i)
    BY <2>1 DEF Run
  <2> QED BY <2>1, <2>2 DEF IsByte
<1>2. ASSUME d # <<>> PROVE d[1][2] = 1
  <2>1. Len(d) >= 1 /\ b # <<>>
    BY <1>2 DEF Cut
  <2> QED BY <2>1 DEF Run, Cut
<1>3. ASSUME NEW i \in 1..Len(d), i < Len(d) PROVE Follows(d, i)
  <2>1. d[i] = b[i] /\ d[i + 1] = b[i + 1] /\ i \in 1..Len(b) /\ i < Len(b)
    BY <1>3 DEF Cut
  <2> QED BY <2>1 DEF Run, Follows
<1> QED BY <1>1, <1>2, <1>3 DEF Run

\* And taking away its beginning up to the last byte of a packet.
LEMMA RunDropped ==
  ASSUME NEW b \in Seq(Bytes), NEW d \in Seq(Bytes), NEW n \in Nat, Run(b), Dropped(b, d, n),
         n = 0 \/ n = Len(b) \/ b[n] = Last(b[n][1])
  PROVE  Run(d)
<1>1. ASSUME NEW i \in 1..Len(d) PROVE IsByte(d, i)
  <2>1. n + i \in 1..Len(b) /\ d[i] = b[n + i]
    BY DEF Dropped
  <2>2. IsByte(b, n + i)
    BY <2>1 DEF Run
  <2> QED BY <2>1, <2>2 DEF IsByte
<1>2. ASSUME d # <<>> PROVE d[1][2] = 1
  <2>1. Len(d) >= 1 /\ b # <<>> /\ n < Len(b) /\ d[1] = b[n + 1]
    BY <1>2 DEF Dropped
  <2>2. CASE n = 0
    BY <2>1, <2>2 DEF Run
  <2>3. CASE n # 0
    BY <2>1, <2>3 DEF Run, Follows
  <2> QED BY <2>2, <2>3
<1>3. ASSUME NEW i \in 1..Len(d), i < Len(d) PROVE Follows(d, i)
  <2>1. n + i \in 1..Len(b) /\ n + i < Len(b) /\ i + 1 \in 1..Len(d) /\ n + (i + 1) = (n + i) + 1
    BY <1>3 DEF Dropped
  <2>2. d[i] = b[n + i] /\ d[i + 1] = b[n + (i + 1)]
    BY <2>1 DEF Dropped
  <2> QED BY <2>1, <2>2 DEF Run, Follows
<1> QED BY <1>1, <1>2, <1>3 DEF Run

\* The bytes of a run begin with those of one packet, in their order.
LEMMA FirstImage ==
  ASSUME NEW b \in Seq(Bytes), Run(b), b # <<>>
  PROVE  \A i \in 1..Len(b) : i <= Total(b[1][1]) => b[i] = <<b[1][1], i>>
<1> DEFINE x == b[1][1]
           Bad == {i \in 1..Len(b) : i <= Total(x) /\ b[i] # <<x, i>>}
<1>1. x \in Sources /\ b[1] = <<x, 1>>
  BY Len(b) >= 1 DEF Run, IsByte
<1>2. Total(x) \in Nat
  BY <1>1, Sizes
<1> HIDE DEF x
<1>3. ASSUME Bad # {} PROVE FALSE
  <2>1. Bad \in SUBSET Nat
    OBVIOUS
  <2>2. PICK n \in Bad : \A m \in Bad : n <= m
    BY <1>3, <2>1, Least
  <2>3. n # 1
    BY <2>2, <1>1
  <2>4. n - 1 \in 1..Len(b) /\ n - 1 < Len(b) /\ n - 1 < Total(x)
    BY <2>2, <2>3, <1>2
  <2>5. ~(n - 1 \in Bad)
    BY <2>2
  <2>6. b[n - 1] = <<x, n - 1>>
    BY <2>4, <2>5, <1>2
  <2>7. Follows(b, n - 1)
    BY <2>4 DEF Run
  <2>8. b[(n - 1) + 1] = <<x, (n - 1) + 1>>
    BY <2>4, <2>6, <2>7, <1>2 DEF Follows, Last
  <2> QED BY <2>2, <2>8
<1>4. \A i \in 1..Len(b) : i <= Total(x) => b[i] = <<x, i>>
  BY <1>3
<1> QED BY <1>4 DEF x
-----------------------------------------------------------------------------
(* The inductive invariant.                                                *)

Types ==
  /\ unsent \in SUBSET Packets
  /\ queue \in SUBSET Packets
  /\ link \in {"none", "failed", "open", "reset", "closed"}
  /\ spc \in {"connect", "next", "write", "ended"}
  /\ cur \in Sources
  /\ written \in 0..Total(cur)
  /\ sock \in Seq(Bytes)
  /\ rpc \in {"accept", "hello", "read", "ended"}
  /\ got \in Seq(Bytes)
  /\ out \in Seq(Seq(Bytes))
  /\ lost \in SUBSET Packets

\* Where the threads are when the connection is in which state.
Stages ==
  /\ spc = "connect" <=> link \in {"none", "failed"}
  /\ link \in {"none", "failed"} => got = <<>> /\ sock = <<>> /\ rpc = "accept"
  /\ spc = "next" => written = Total(cur)
  /\ link = "open" => spc # "ended"

\* The listener has not read all of the hello.
Ungreeted(r) == r \in {"accept", "hello"}

\* The hello comes first, and the Receiver sees none of it.
Greeting(b, r) ==
  /\ \A i \in 1..Len(b) : b[i][1] = Hello => i <= HEADER /\ Ungreeted(r)
  /\ b # <<>> /\ Ungreeted(r) => b[1][1] = Hello

\* While the connection is open, the next byte continues what is on its way:
\* a packet that was begun, or the end of one.
Tip(b, x, w) ==
  IF w \in 1..(Total(x) - 1) THEN b # <<>> /\ b[Len(b)] = <<x, w>>
  ELSE b # <<>> => b[Len(b)] = Last(b[Len(b)][1])

\* Nobody has read any of a hello that is not written yet.
Begun(b, x, w, r) ==
  /\ x = Hello /\ w < HEADER => Ungreeted(r) /\ Len(b) = w
  /\ b = <<>> /\ Ungreeted(r) => x = Hello /\ w = 0

Sound ==
  /\ Types
  /\ Stages
  /\ Run(Transit)
  /\ Greeting(Transit, rpc)
  /\ link = "open" => Tip(Transit, cur, written) /\ Begun(Transit, cur, written, rpc)
  /\ WholePackets

-----------------------------------------------------------------------------
(* What is read.                                                           *)

\* The bytes on their way are those that were read and then the others.
LEMMA TransitIs ==
  ASSUME Types
  PROVE  /\ Transit \in Seq(Bytes)
         /\ Len(Transit) = Len(got) + Len(sock)
         /\ \A i \in 1..Len(got) : Transit[i] = got[i]
         /\ \A i \in 1..Len(sock) : Transit[Len(got) + i] = sock[i]
BY ConcatProperties DEF Types, Transit

\* The hello takes a header and nothing else.
LEMMA HelloSize == Hello \in Sources /\ Total(Hello) = HEADER
BY DEF Sources, Total, HEADER

\* What was read is the beginning of something that is sent: of the hello in
\* the listener, of a packet in the Receiver.
LEMMA GotBegins ==
  ASSUME Sound, got # <<>>
  PROVE  \E x \in Sources :
           /\ x = Hello <=> Ungreeted(rpc)
           /\ \A i \in 1..Len(got) : i <= Total(x) => got[i] = <<x, i>>
<1> DEFINE x == Transit[1][1]
<1>1. Transit \in Seq(Bytes) /\ Transit # <<>> /\ Len(got) <= Len(Transit) /\ 1 \in 1..Len(Transit)
  BY TransitIs DEF Sound, Types
<1>2. x \in Sources /\ (x = Hello <=> Ungreeted(rpc))
  BY <1>1 DEF Sound, Run, IsByte, Greeting
<1>3. \A i \in 1..Len(Transit) : i <= Total(x) => Transit[i] = <<x, i>>
  BY <1>1, FirstImage DEF Sound
<1> HIDE DEF x
<1>4. \A i \in 1..Len(got) : i <= Total(x) => got[i] = <<x, i>>
  BY <1>1, <1>3, TransitIs DEF Sound, Types
<1> QED BY <1>2, <1>4

\* The key and the id are there once as many bytes are.
LEMMA GotHello ==
  ASSUME Sound, rpc = "hello", Len(got) = HEADER
  PROVE  got[HEADER] = Last(Hello)
<1>1. got # <<>>
  BY DEF HEADER, Sound, Types
<1>2. PICK x \in Sources : /\ x = Hello <=> Ungreeted(rpc)
                           /\ \A i \in 1..Len(got) : i <= Total(x) => got[i] = <<x, i>>
  BY <1>1, GotBegins
<1>3. x = Hello
  BY <1>2 DEF Ungreeted
<1> QED BY <1>2, <1>3, HelloSize DEF Last, HEADER

\* Once the Receiver has a header, it asks for what that packet has.
LEMMA GotHeader ==
  ASSUME Sound, rpc = "read", Len(got) >= HEADER
  PROVE  \E p \in Packets :
           Wanted = Total(p) /\ \A i \in 1..Len(got) : i <= Total(p) => got[i] = <<p, i>>
<1>1. got # <<>> /\ HEADER \in 1..Len(got)
  BY DEF HEADER, Sound, Types
<1>2. PICK p \in Sources : /\ p = Hello <=> Ungreeted(rpc)
                           /\ \A i \in 1..Len(got) : i <= Total(p) => got[i] = <<p, i>>
  BY <1>1, GotBegins
<1>3. p \in Packets
  BY <1>2 DEF Ungreeted, Sources
<1>4. got[HEADER] = <<p, HEADER>>
  BY <1>1, <1>2, Sizes
<1>5. Announced(got[HEADER]) = NumBits[p]
  BY <1>3, <1>4 DEF Announced
<1>6. Wanted = Total(p)
  BY <1>3, <1>5, SizeAnnounced DEF Wanted, Sound, Types, HEADER
<1> QED BY <1>2, <1>3, <1>6

\* What the Receiver passes on is all of one packet.
LEMMA GotPacket ==
  ASSUME Sound, rpc = "read", Complete
  PROVE  \E p \in Packets : got = Image(p) /\ got[Len(got)] = Last(p) /\ Len(got) >= HEADER
<1>1. PICK p \in Packets :
        Wanted = Total(p) /\ \A i \in 1..Len(got) : i <= Total(p) => got[i] = <<p, i>>
  BY GotHeader DEF Complete
<1>2. Len(got) = Total(p) /\ Total(p) \in Nat /\ Len(got) >= HEADER
  BY <1>1, Sizes DEF Complete, Sources
<1>3. got = Image(p)
  <2>1. got \in Seq(Bytes) /\ DOMAIN got = 1..Total(p) /\ got = [i \in DOMAIN got |-> got[i]]
    BY <1>2 DEF Sound, Types
  <2>2. \A i \in 1..Total(p) : got[i] = <<p, i>>
    BY <1>1, <1>2
  <2> QED BY <2>1, <2>2 DEF Image
<1>4. got[Len(got)] = Last(p)
  BY <1>1, <1>2 DEF Last, HEADER
<1> QED BY <1>2, <1>3, <1>4
-----------------------------------------------------------------------------
(* What each step does to the bytes on their way.                          *)

\* Concatenations of bytes may be regrouped.
LEMMA Regrouped == \A r, s, t \in Seq(Bytes) : (r \o s) \o t = r \o (s \o t)
BY ConcatAssociative

\* A write appends the bytes that come next.
LEMMA WriteGrows ==
  ASSUME Types, WriteSome
  PROVE  \E n \in Nat \ {0} :
           /\ n <= Piece(written, Total(cur)) - written
           /\ written + n <= Total(cur)
           /\ written' = written + n
           /\ sock' \in Seq(Bytes)
           /\ Grown(Transit, Transit', cur, written, n)
<1>1. PICK n \in 1..Piece(written, Total(cur)) - written :
        written' = written + n /\ sock' = sock \o SubSeq(Image(cur), written + 1, written + n)
  BY DEF WriteSome
<1>2. Total(cur) \in Nat /\ Total(cur) >= HEADER /\ written \in Nat
  BY Sizes DEF Types
<1>3. n \in Nat \ {0} /\ written + n <= Total(cur) /\ n <= Piece(written, Total(cur)) - written
  BY <1>2 DEF Piece, HEADER
<1> DEFINE s == SubSeq(Image(cur), written + 1, written + n)
<1>4. s \in Seq(Bytes) /\ Len(s) = n /\ \A k \in 1..n : s[k] = <<cur, written + k>>
  BY <1>2, <1>3, Slice DEF Types
<1>5. sock' = sock \o s /\ got' = got
  BY <1>1 DEF WriteSome, receiver
<1> HIDE DEF s
<1>6. sock \in Seq(Bytes) /\ got \in Seq(Bytes)
  BY DEF Types
<1>7. sock' \in Seq(Bytes)
  BY <1>4, <1>5, <1>6, ConcatProperties
<1>8. Transit' = Transit \o s
  <2>1. (got \o sock) \o s = got \o (sock \o s)
    BY <1>4, <1>6, Regrouped
  <2>2. Transit' = got' \o sock'
    BY DEF Transit
  <2> QED BY <2>1, <2>2, <1>5 DEF Transit
<1>9. Grown(Transit, Transit', cur, written, n)
  <2>1. /\ Len(Transit') = Len(Transit) + Len(s)
        /\ \A i \in 1..Len(Transit) : Transit'[i] = Transit[i]
        /\ \A k \in 1..Len(s) : Transit'[Len(Transit) + k] = s[k]
    <3>1. Transit \in Seq(Bytes) /\ s \in Seq(Bytes)
      BY <1>4, TransitIs
    <3> QED BY <3>1, <1>8, ConcatProperties
  <2> QED BY <2>1, <1>4 DEF Grown
<1> QED BY <1>1, <1>3, <1>7, <1>9

\* A read only moves bytes.
LEMMA ReadMoves ==
  ASSUME Types, ReadSome
  PROVE  Transit' = Transit /\ got' \in Seq(Bytes) /\ sock' \in Seq(Bytes)
<1>1. PICK n \in 1..Len(sock) : got' = got \o SubSeq(sock, 1, n) /\ sock' = SubSeq(sock, n + 1, Len(sock))
  BY DEF ReadSome
<1>2. sock \in Seq(Bytes) /\ got \in Seq(Bytes) /\ Len(sock) \in Nat
  BY DEF Types
<1> DEFINE s == SubSeq(sock, 1, n)
           t == SubSeq(sock, n + 1, Len(sock))
<1>3. s \in Seq(Bytes) /\ t \in Seq(Bytes)
  BY <1>2, SubSeqProperties
<1>4. s \o t = sock
  <2>1. s \o t = SubSeq(sock, 1, Len(sock))
    BY <1>2, ConcatAdjacentSubSeq
  <2> QED BY <2>1, <1>2, SubSeqProperties, SubSeqFull
<1>5. got' = got \o s /\ sock' = t
  BY <1>1
<1> HIDE DEF s, t
<1>6. Transit' = got \o (s \o t)
  <2>1. (got \o s) \o t = got \o (s \o t)
    BY <1>2, <1>3, Regrouped
  <2>2. Transit' = got' \o sock'
    BY DEF Transit
  <2> QED BY <2>1, <2>2, <1>5
<1> QED BY <1>2, <1>3, <1>4, <1>5, <1>6, ConcatProperties DEF Transit

\* The listener and the Receiver forget what they have read.
LEMMA GotDrops ==
  ASSUME Types, got' = <<>>, sock' = sock
  PROVE  Transit' \in Seq(Bytes) /\ Transit' = sock /\ Dropped(Transit, Transit', Len(got))
<1>1. Transit' = sock
  BY EmptySeq, ConcatEmptySeq DEF Types, Transit
<1> QED BY <1>1, TransitIs DEF Dropped, Types

\* A break cuts off an end of the bytes that were not read.
LEMMA BreakCuts ==
  ASSUME Types, Break
  PROVE  /\ Transit' \in Seq(Bytes) /\ sock' \in Seq(Bytes)
         /\ Cut(Transit, Transit')
         /\ Cut(sock, sock')
<1>1. Cut(sock, sock') /\ sock' \in Seq(Bytes)
  <2>1. CASE UNCHANGED sock
    BY <2>1 DEF Cut, Types
  <2>2. CASE \E n \in 0..Len(sock) : sock' = SubSeq(sock, 1, n)
    <3>1. PICK n \in 0..Len(sock) : sock' = SubSeq(sock, 1, n)
      BY <2>2
    <3> QED BY <3>1, SubSeqProperties DEF Cut, Types
  <2> QED BY <2>1, <2>2 DEF Break
<1>2. got' = got /\ got \in Seq(Bytes)
  BY DEF Break, receiver, Types
<1>3. /\ Transit' \in Seq(Bytes) /\ Len(Transit') = Len(got) + Len(sock')
      /\ \A i \in 1..Len(got) : Transit'[i] = got[i]
      /\ \A i \in 1..Len(sock') : Transit'[Len(got) + i] = sock'[i]
  BY <1>1, <1>2, ConcatProperties DEF Transit
<1>4. Cut(Transit, Transit')
  <2>1. Len(Transit') <= Len(Transit)
    BY <1>1, <1>3, TransitIs DEF Cut, Types
  <2>2. ASSUME NEW i \in 1..Len(Transit') PROVE Transit'[i] = Transit[i]
    <3>1. CASE i <= Len(got)
      BY <3>1, <1>3, TransitIs, <1>2
    <3>2. CASE i > Len(got)
      <4>1. i - Len(got) \in 1..Len(sock') /\ i = Len(got) + (i - Len(got))
        BY <3>2, <1>1, <1>2, <1>3
      <4>2. PICK k \in 1..Len(sock') : i = Len(got) + k
        BY <4>1
      <4>3. Transit'[i] = sock'[k] /\ k \in 1..Len(sock) /\ sock'[k] = sock[k]
        BY <4>2, <1>1, <1>3 DEF Cut, Types
      <4> QED BY <4>2, <4>3, TransitIs
    <3> QED BY <3>1, <3>2, <1>2
  <2> QED BY <2>1, <2>2 DEF Cut
<1> QED BY <1>1, <1>3, <1>4
-----------------------------------------------------------------------------
(* The invariant holds.                                                    *)

\* A record of the values the invariant reads, when nothing is done to the
\* bytes on their way or to what was passed on.
Still == Transit' = Transit /\ out' = out /\ got' \in Seq(Bytes) /\ sock' \in Seq(Bytes)

\* Actions that touch no byte are still.
LEMMA TouchesNone ==
  ASSUME Types, UNCHANGED <<got, sock, out>>
  PROVE  Still
BY DEF Still, Transit, Types

\* When no byte is moved, the invariant asks for no more than the states of the
\* threads and the sender's place.
LEMMA StillSound ==
  ASSUME Sound, Still, Types', Stages', rpc' = rpc,
         link' = "open" => Tip(Transit, cur', written') /\ Begun(Transit, cur', written', rpc)
  PROVE  Sound'
BY DEF Sound, Still, WholePackets

\* The invariant holds in the initial state.
LEMMA InitSound == Init => Sound
<1> SUFFICES ASSUME Init PROVE Sound
  OBVIOUS
<1>1. Transit = <<>>
  BY DEF Init, Transit
<1>2. Types
  BY HelloSize DEF Init, Types, HEADER
<1>3. Stages
  BY DEF Init, Stages
<1>4. Run(Transit) /\ Greeting(Transit, rpc)
  BY <1>1 DEF Run, Greeting
<1>5. WholePackets
  BY DEF Init, WholePackets
<1> QED BY <1>2, <1>3, <1>4, <1>5 DEF Sound, Init

\* A write appends what continues the bytes on their way.
LEMMA WriteSomeSound ==
  ASSUME Sound, WriteSome
  PROVE  Sound'
<1> DEFINE b == Transit
<1>1. Types /\ Stages /\ b \in Seq(Bytes) /\ Len(b) \in Nat
  BY TransitIs DEF Sound
<1>2. PICK n \in Nat \ {0} :
        /\ n <= Piece(written, Total(cur)) - written
        /\ written + n <= Total(cur)
        /\ written' = written + n
        /\ sock' \in Seq(Bytes)
        /\ Grown(Transit, Transit', cur, written, n)
  BY <1>1, WriteGrows
<1>3. /\ UNCHANGED <<unsent, queue, link, spc, cur, rpc, got, out, lost>>
      /\ spc = "write" /\ link = "open"
  BY DEF WriteSome, receiver
<1>4. cur \in Sources /\ Total(cur) \in Nat /\ written \in Nat /\ Total(cur) >= HEADER
  BY <1>1, Sizes DEF Types
<1>5. Types'
  BY <1>1, <1>2, <1>3, <1>4 DEF Types
<1>6. Stages'
  BY <1>1, <1>3 DEF Stages
<1>7. Transit' \in Seq(Bytes)
  BY <1>5, ConcatProperties DEF Types, Transit
<1>8. Tip(b, cur, written) /\ Begun(b, cur, written, rpc) /\ Run(b) /\ Greeting(b, rpc)
  BY <1>3 DEF Sound
<1> DEFINE d == Transit'
<1>9. /\ Len(d) = Len(b) + n
      /\ \A i \in 1..Len(b) : d[i] = b[i]
      /\ \A k \in 1..n : d[Len(b) + k] = <<cur, written + k>>
  BY <1>2 DEF Grown
<1>10. Run(d)
  <2>1. IF written = 0 THEN b # <<>> => b[Len(b)] = Last(b[Len(b)][1])
        ELSE b # <<>> /\ b[Len(b)] = <<cur, written>>
    BY <1>2, <1>4, <1>8 DEF Tip
  <2> QED BY <2>1, <1>1, <1>2, <1>4, <1>7, <1>8, RunGrown
<1>11. cur = Hello => Ungreeted(rpc) /\ Len(b) = written /\ written + n <= HEADER
  BY <1>2, <1>4, <1>8, HelloSize DEF Begun
<1> HIDE DEF b, d
<1>12. Greeting(d, rpc)
  <2>1. ASSUME NEW i \in 1..Len(d), d[i][1] = Hello PROVE i <= HEADER /\ Ungreeted(rpc)
    <3>1. CASE i <= Len(b)
      BY <2>1, <3>1, <1>1, <1>8, <1>9 DEF Greeting, b
    <3>2. CASE i > Len(b)
      <4>1. i - Len(b) \in 1..n /\ i = Len(b) + (i - Len(b))
        BY <3>2, <1>1, <1>9 DEF b
      <4>2. PICK k \in 1..n : i = Len(b) + k
        BY <4>1
      <4>3. d[Len(b) + k] = <<cur, written + k>>
        BY <1>9
      <4>4. cur = Hello
        BY <4>2, <4>3, <2>1
      <4> QED BY <4>2, <4>4, <1>11, <1>4, <1>1 DEF HEADER, b
    <3> QED BY <3>1, <3>2, <1>1 DEF b
  <2>2. ASSUME d # <<>>, Ungreeted(rpc) PROVE d[1][1] = Hello
    <3>1. CASE b # <<>>
      <4>1. 1 \in 1..Len(b)
        BY <3>1, <1>1 DEF b
      <4> QED BY <4>1, <3>1, <2>2, <1>8, <1>9 DEF Greeting
    <3>2. CASE b = <<>>
      <4>1. cur = Hello /\ written = 0
        BY <3>2, <2>2, <1>8 DEF Begun
      <4>2. d[0 + 1] = <<cur, written + 1>>
        BY <3>2, <1>9
      <4> QED BY <4>1, <4>2
    <3> QED BY <3>1, <3>2
  <2> QED BY <2>1, <2>2 DEF Greeting
<1>13. d # <<>> /\ d[Len(d)] = <<cur, written + n>>
  <2>1. n \in 1..n
    OBVIOUS
  <2>2. d[Len(b) + n] = <<cur, written + n>>
    BY <2>1, <1>9
  <2>3. Len(d) # 0
    BY <1>1, <1>9 DEF b
  <2> QED BY <2>2, <2>3, <1>9
<1>14. Tip(d, cur, written + n)
  BY <1>2, <1>4, <1>13 DEF Tip, Last
<1>15. Begun(d, cur, written + n, rpc)
  BY <1>1, <1>4, <1>9, <1>11, <1>13 DEF Begun, b
<1>16. Tip(Transit', cur', written') /\ Begun(Transit', cur', written', rpc') /\ Run(Transit')
       /\ Greeting(Transit', rpc')
  BY <1>2, <1>3, <1>10, <1>12, <1>14, <1>15 DEF d
<1>17. WholePackets'
  BY <1>3 DEF Sound, WholePackets
<1> QED BY <1>5, <1>6, <1>16, <1>17 DEF Sound

\* When a whole packet, or the hello, is taken out of the bytes on their way,
\* the others stay in order.
LEMMA DropSound ==
  ASSUME Sound, got' = <<>>, UNCHANGED <<unsent, queue, link, spc, cur, written, sock, lost>>,
         got # <<>>, got[Len(got)] = Last(got[Len(got)][1]),
         Len(got) >= HEADER, rpc' = "read", out' \in Seq(Seq(Bytes)), WholePackets',
         rpc = "read" \/ Len(got) = HEADER, rpc \in {"read", "hello"}
  PROVE  Sound'
<1> DEFINE b == Transit
           d == Transit'
           n == Len(got)
<1>1. Types /\ Stages /\ b \in Seq(Bytes) /\ Len(b) \in Nat /\ n \in Nat
  BY TransitIs DEF Sound, Types
<1>2. d \in Seq(Bytes) /\ Dropped(b, d, n) /\ Len(d) \in Nat
  BY <1>1, GotDrops
<1>3. b[n] = got[n] /\ n >= 1
  BY <1>1, TransitIs DEF Types
<1>4. Run(d)
  BY <1>1, <1>2, <1>3, RunDropped DEF Sound
<1>5. Types' /\ Stages'
  BY <1>1 DEF Types, Stages
<1>6. Greeting(b, rpc)
  BY DEF Sound
<1> HIDE DEF b, d
<1>7. Greeting(d, rpc')
  <2>1. ASSUME NEW i \in 1..Len(d) PROVE d[i][1] # Hello
    <3>1. d[i] = b[n + i] /\ n + i \in 1..Len(b) /\ n + i > HEADER
      BY <1>1, <1>2 DEF Dropped, HEADER
    <3>2. b[n + i][1] = Hello => n + i <= HEADER
      BY <3>1, <1>6 DEF Greeting
    <3> QED BY <3>1, <3>2, <1>1 DEF HEADER
  <2> QED BY <2>1 DEF Greeting, Ungreeted
<1>8. ASSUME link = "open" PROVE Tip(d, cur, written) /\ Begun(d, cur, written, "read")
  <2>1. Tip(b, cur, written) /\ Begun(b, cur, written, rpc)
    BY <1>8 DEF Sound, b
  <2>2. b # <<>> /\ Len(b) >= n
    BY <1>1, <1>2, <1>3 DEF Dropped
  <2>3. ~(cur = Hello /\ written < HEADER)
    BY <2>1, <2>2, <1>1 DEF Begun, Ungreeted, HEADER, Types
  <2>4. Begun(d, cur, written, "read")
    BY <2>3 DEF Begun, Ungreeted
  <2>5. d # <<>> => d[Len(d)] = b[Len(b)]
    BY <1>1, <1>2 DEF Dropped
  <2>6. CASE d # <<>>
    BY <2>1, <2>2, <2>4, <2>5, <2>6 DEF Tip
  <2>7. CASE d = <<>>
    <3>1. n = Len(b)
      BY <2>7, <1>1, <1>2 DEF Dropped
    <3>2. b[Len(b)] = Last(b[Len(b)][1])
      BY <3>1, <1>3
    <3>3. ~(written \in 1..(Total(cur) - 1))
      <4>1. ASSUME b[Len(b)] = <<cur, written>> PROVE written = Total(cur)
        BY <4>1, <3>2 DEF Last
      <4>2. Total(cur) \in Nat
        BY <1>1, Sizes DEF Types
      <4> QED BY <4>1, <4>2, <2>1 DEF Tip
    <3> QED BY <3>3, <2>4, <2>7 DEF Tip
  <2> QED BY <2>4, <2>6, <2>7
<1> QED BY <1>4, <1>5, <1>7, <1>8 DEF Sound, d

\* The listener has read all of the hello and none of what follows.
LEMMA GreetedSound ==
  ASSUME Sound, Greeted
  PROVE  Sound'
<1>0. got \in Seq(Bytes)
  BY DEF Sound, Types
<1>1. Len(got) = HEADER /\ got[HEADER] = Last(Hello) /\ got # <<>>
  BY <1>0, GotHello DEF Greeted, HEADER
<1>2. got[Len(got)] = Last(got[Len(got)][1])
  BY <1>1 DEF Last
<1>3. WholePackets' /\ out' \in Seq(Seq(Bytes))
  BY DEF Greeted, Sound, Types, WholePackets
<1> QED BY <1>1, <1>2, <1>3, DropSound DEF Greeted, sender, HEADER

\* The Receiver passes on one whole packet.
LEMMA DeliverSound ==
  ASSUME Sound, Deliver
  PROVE  Sound'
<1>1. PICK p \in Packets : got = Image(p) /\ got[Len(got)] = Last(p) /\ Len(got) >= HEADER
  BY GotPacket DEF Deliver
<1>2. got[Len(got)] = Last(got[Len(got)][1]) /\ got # <<>>
  BY <1>1 DEF Last, HEADER
<1>3. out' = Append(out, got) /\ out \in Seq(Seq(Bytes)) /\ got \in Seq(Bytes)
  BY DEF Deliver, Sound, Types
<1>4. out' \in Seq(Seq(Bytes))
  BY <1>3
<1>5. WholePackets'
  <2>1. /\ Len(out') = Len(out) + 1 /\ DOMAIN out' = 1..Len(out') /\ Len(out) \in Nat
        /\ \A i \in 1..Len(out) : out'[i] = out[i]
        /\ out'[Len(out) + 1] = got
    BY <1>3, <1>4, AppendProperties
  <2>2. ASSUME NEW i \in DOMAIN out' PROVE \E q \in Packets : out'[i] = Image(q)
    <3>1. CASE i = Len(out) + 1
      BY <3>1, <2>1, <1>1
    <3>2. CASE i # Len(out) + 1
      <4>1. i \in 1..Len(out) /\ i \in DOMAIN out
        BY <3>2, <2>1, <1>3
      <4>2. \E q \in Packets : out[i] = Image(q)
        BY <4>1 DEF Sound, WholePackets
      <4> QED BY <2>1, <4>1, <4>2
    <3> QED BY <3>1, <3>2
  <2> QED BY <2>2 DEF WholePackets
<1> QED BY <1>1, <1>2, <1>4, <1>5, DropSound DEF Deliver, sender

\* A break leaves the beginning of the bytes on their way.
LEMMA BreakSound ==
  ASSUME Sound, Break
  PROVE  Sound'
<1> DEFINE b == Transit
           d == Transit'
<1>1. Types /\ Stages /\ b \in Seq(Bytes) /\ Run(b) /\ Greeting(b, rpc)
  BY TransitIs DEF Sound
<1>2. d \in Seq(Bytes) /\ sock' \in Seq(Bytes) /\ Cut(b, d)
  BY <1>1, BreakCuts
<1>3. UNCHANGED <<unsent, queue, spc, cur, written, rpc, got, out>> /\ link = "open" /\ link' \in {"reset", "closed"}
  BY DEF Break, sender, receiver
<1>4. lost' \in SUBSET Packets
  BY <1>1 DEF Break, Types
<1>5. Types'
  BY <1>1, <1>2, <1>3, <1>4 DEF Types
<1>6. Stages'
  BY <1>1, <1>3 DEF Stages
<1>7. Run(d)
  BY <1>1, <1>2, RunCut
<1> HIDE DEF b, d
<1>8. Greeting(d, rpc)
  <2>1. ASSUME NEW i \in 1..Len(d) PROVE i \in 1..Len(b) /\ d[i] = b[i]
    BY <1>1, <1>2 DEF Cut
  <2>2. d # <<>> => 1 \in 1..Len(d) /\ b # <<>>
    BY <1>1, <1>2 DEF Cut
  <2> QED BY <2>1, <2>2, <1>1 DEF Greeting
<1>9. WholePackets'
  BY <1>3 DEF Sound, WholePackets
<1> QED BY <1>3, <1>5, <1>6, <1>7, <1>8, <1>9 DEF Sound, d

\* Every step keeps the invariant.
LEMMA NextSound == Sound /\ [Next]_vars => Sound'
<1> SUFFICES ASSUME Sound, [Next]_vars PROVE Sound'
  OBVIOUS
<1>0. /\ Types /\ Stages
      /\ link = "open" => Tip(Transit, cur, written) /\ Begun(Transit, cur, written, rpc)
      /\ cur \in Sources /\ Total(cur) \in Nat /\ Total(cur) >= HEADER
  BY Sizes DEF Sound, Types
<1>1. CASE Flush
  <2>1. Types' /\ Stages' /\ UNCHANGED <<got, sock, out, link, cur, written, rpc>>
    BY <1>0, <1>1 DEF Flush, Types, Stages, receiver
  <2> QED BY <1>0, <2>1, TouchesNone, StillSound
<1>2. CASE Connect
  <2>1. UNCHANGED <<got, sock, out, rpc>> /\ cur' = Hello /\ written' = 0
    BY <1>2 DEF Connect, receiver
  <2>2. Types' /\ Stages'
    BY <1>0, <1>2, HelloSize DEF Connect, Types, Stages, receiver, HEADER
  <2>3. Transit = <<>> /\ rpc = "accept"
    BY <1>0, <1>2 DEF Stages, Connect, Transit
  <2>4. Tip(Transit, Hello, 0) /\ Begun(Transit, Hello, 0, rpc)
    BY <2>3 DEF Tip, Begun, Ungreeted
  <2> QED BY <1>0, <2>1, <2>2, <2>4, TouchesNone, StillSound
<1>3. CASE GiveUp
  <2>1. Types' /\ Stages' /\ UNCHANGED <<got, sock, out, rpc>> /\ link' # "open"
    BY <1>0, <1>3 DEF GiveUp, Types, Stages, sender, receiver
  <2> QED BY <1>0, <2>1, TouchesNone, StillSound
<1>4. CASE Take
  <2>1. PICK p \in Top(queue) : cur' = p /\ queue' = queue \ {p}
    BY <1>4 DEF Take
  <2>2. UNCHANGED <<got, sock, out, rpc, link, unsent, lost>> /\ written' = 0 /\ spc' = "write" /\ spc = "next"
    BY <1>4 DEF Take, receiver, Rewound
  <2>3. p \in Packets /\ p \in Sources /\ p # Hello /\ Total(p) \in Nat
    BY <1>0, Sizes, FramingAssumption DEF FramingAssumption, Top, Types, Sources
  <2>4. Types' /\ Stages'
    BY <1>0, <2>1, <2>2, <2>3 DEF Types, Stages
  <2>5. ASSUME link = "open" PROVE Tip(Transit, p, 0) /\ Begun(Transit, p, 0, rpc)
    <3>1. written = Total(cur) /\ written # 0
      BY <1>0, <2>2 DEF Stages, HEADER
    <3>2. Tip(Transit, cur, written) /\ Begun(Transit, cur, written, rpc)
      BY <1>0, <2>5
    <3>3. Tip(Transit, p, 0)
      BY <1>0, <3>1, <3>2 DEF Tip
    <3> QED BY <2>3, <3>1, <3>2, <3>3 DEF Begun
  <2> QED BY <1>0, <2>1, <2>2, <2>4, <2>5, TouchesNone, StillSound
<1>5. CASE WriteSome
  BY <1>5, WriteSomeSound
<1>6. CASE WriteIntoVoid
  <2>1. PICK n \in 1..Piece(written, Total(cur)) - written : written' = written + n
    BY <1>6 DEF WriteIntoVoid
  <2>2. UNCHANGED <<got, sock, out, rpc, link, unsent, queue, spc, cur>> /\ link = "reset" /\ spc = "write"
    BY <1>6 DEF WriteIntoVoid, receiver
  <2>3. written' \in 0..Total(cur)
    BY <1>0, <2>1 DEF Piece, HEADER, Types
  <2>4. lost' \in SUBSET Packets
    BY <1>0, <1>6 DEF WriteIntoVoid, Types, Sources
  <2>5. Types' /\ Stages'
    BY <1>0, <2>2, <2>3, <2>4 DEF Types, Stages
  <2> QED BY <1>0, <2>2, <2>5, TouchesNone, StillSound
<1>7. CASE Written
  <2>1. Types' /\ Stages' /\ UNCHANGED <<got, sock, out, link, cur, written, rpc>>
    BY <1>0, <1>7 DEF Written, Types, Stages, receiver
  <2> QED BY <1>0, <2>1, TouchesNone, StillSound
<1>8. CASE WriteFails
  <2>1. UNCHANGED <<got, sock, out, link, rpc>> /\ link = "reset"
    BY <1>8 DEF WriteFails, MayFail, receiver
  <2>2. queue' \in SUBSET Packets
    BY <1>0, <1>8 DEF WriteFails, Types, Sources
  <2>3. Types' /\ Stages'
    BY <1>0, <1>8, <2>1, <2>2 DEF WriteFails, MayFail, Types, Stages
  <2> QED BY <1>0, <2>1, <2>3, TouchesNone, StillSound
<1>9. CASE Accept
  <2>1. UNCHANGED <<got, sock, out, link, cur, written>> /\ rpc' = "hello" /\ rpc = "accept"
    BY <1>9 DEF Accept, sender
  <2>2. Types' /\ Stages'
    BY <1>0, <1>9 DEF Accept, Types, Stages, sender
  <2>3. Transit' = Transit
    BY <2>1 DEF Transit
  <2>4. Greeting(Transit, rpc') /\ (link = "open" => Begun(Transit, cur, written, rpc'))
    BY <1>0, <2>1 DEF Greeting, Begun, Ungreeted, Sound
  <2>5. WholePackets'
    BY <2>1 DEF Sound, WholePackets
  <2>6. Run(Transit') /\ Greeting(Transit', rpc')
        /\ (link' = "open" => Tip(Transit', cur', written') /\ Begun(Transit', cur', written', rpc'))
    BY <1>0, <2>1, <2>3, <2>4 DEF Sound
  <2> QED BY <2>2, <2>5, <2>6 DEF Sound
<1>10. CASE ReadSome
  <2>1. UNCHANGED <<unsent, queue, spc, cur, written, link, rpc, out, lost>>
    BY <1>10 DEF ReadSome, sender
  <2>2. Still
    BY <1>0, <1>10, <2>1, ReadMoves DEF Still
  <2>3. Types'
    BY <1>0, <2>1, <2>2 DEF Types, Still
  <2>4. Stages'
    BY <1>0, <1>10, <2>1 DEF ReadSome, Stages
  <2> QED BY <1>0, <2>1, <2>2, <2>3, <2>4, StillSound
<1>11. CASE Greeted
  BY <1>11, GreetedSound
<1>12. CASE Deliver
  BY <1>12, DeliverSound
<1>13. CASE ReadFails
  <2>1. /\ UNCHANGED <<unsent, queue, spc, cur, written, link, out, lost, sock>>
        /\ rpc' = "ended" /\ got' = <<>> /\ sock = <<>> /\ link = "reset"
    BY <1>13 DEF ReadFails, sender
  <2>2. Types' /\ Stages'
    BY <1>0, <2>1 DEF Types, Stages
  <2>3. Transit' = <<>>
    BY <1>0, <2>1, GotDrops
  <2>4. Run(Transit') /\ Greeting(Transit', rpc')
    BY <2>3 DEF Run, Greeting
  <2>5. WholePackets'
    BY <2>1 DEF Sound, WholePackets
  <2> QED BY <2>1, <2>2, <2>4, <2>5 DEF Sound
<1>14. CASE Break
  BY <1>14, BreakSound
<1>15. CASE UNCHANGED vars
  <2>1. UNCHANGED <<got, sock, out, link, cur, written, rpc>> /\ Types' /\ Stages'
    BY <1>0, <1>15 DEF vars, sender, receiver, Types, Stages
  <2> QED BY <1>0, <2>1, TouchesNone, StillSound
<1> QED BY <1>1, <1>2, <1>3, <1>4, <1>5, <1>6, <1>7, <1>8, <1>9, <1>10, <1>11, <1>12, <1>13, <1>14, <1>15 DEF Next

\* The invariant always holds.
LEMMA AlwaysSound == Spec => []Sound
BY InitSound, NextSound, PTL DEF Spec

\* The sink is only ever given whole packets, byte for byte.
THEOREM OnlyWholePackets == Spec => []WholePackets
<1>1. Sound => WholePackets
  BY DEF Sound
<1> QED BY <1>1, AlwaysSound, PTL
-----------------------------------------------------------------------------
(* The packets whose last byte is on its way, and their order.             *)

\* d is the part of b from n + 1 on, or a beginning of that.
Section(b, d, n) ==
  /\ n + Len(d) <= Len(b)
  /\ \A i \in 1..Len(d) : d[i] = b[n + i]

\* Last bytes up to position i.
UpTo(b, i) == {j \in Ends(b) : j <= i}

LastBytes == {Last(p) : p \in Packets}

\* There are finitely many last bytes.
LEMMA EndsFinite ==
  ASSUME NEW b \in Seq(Bytes)
  PROVE  /\ IsFiniteSet(Ends(b)) /\ Cardinality(Ends(b)) \in Nat
         /\ Ends(b) \in SUBSET (1..Len(b)) /\ Ends(b) \in SUBSET (DOMAIN b) /\ Len(b) \in Nat
<1>1. Ends(b) \in SUBSET (1..Len(b)) /\ Ends(b) \in SUBSET (DOMAIN b) /\ Len(b) \in Nat
  BY DEF Ends
<1>2. IsFiniteSet(1..Len(b))
  BY <1>1, FS_Interval
<1> QED BY <1>1, <1>2, FS_Subset, FS_CardinalityType

\* So ranks are numbers.
LEMMA UpToFinite ==
  ASSUME NEW b \in Seq(Bytes), NEW i \in Int
  PROVE  IsFiniteSet(UpTo(b, i)) /\ Cardinality(UpTo(b, i)) \in Nat /\ Rank(b, i) = Cardinality(UpTo(b, i))
<1>1. UpTo(b, i) \in SUBSET Ends(b)
  BY DEF UpTo
<1> QED BY <1>1, EndsFinite, FS_Subset, FS_CardinalityType DEF Rank, UpTo

\* All last bytes are those up to the end, none is before the first byte.
LEMMA RankEnds ==
  ASSUME NEW b \in Seq(Bytes)
  PROVE  Rank(b, Len(b)) = Cardinality(Ends(b)) /\ Rank(b, 0) = 0
<1>1. UpTo(b, Len(b)) = Ends(b) /\ UpTo(b, 0) = {}
  BY DEF UpTo, Ends
<1> QED BY <1>1, UpToFinite, FS_EmptySet

\* A last byte counts itself, and more than any before it.
LEMMA RankGrows ==
  ASSUME NEW b \in Seq(Bytes), NEW i \in Ends(b)
  PROVE  /\ Rank(b, i) \in 1..Cardinality(Ends(b))
         /\ \A j \in Ends(b) : j < i => Rank(b, j) < Rank(b, i)
<1>0. i \in Int /\ i \in UpTo(b, i)
  BY EndsFinite DEF UpTo
<1>1. Rank(b, i) = Cardinality(UpTo(b, i)) /\ Rank(b, i) \in Nat /\ Cardinality(Ends(b)) \in Nat
  BY <1>0, EndsFinite, UpToFinite
<1>2. Rank(b, i) <= Cardinality(Ends(b))
  BY <1>0, <1>1, EndsFinite, FS_Subset DEF UpTo
<1>3. Rank(b, i) # 0
  BY <1>0, <1>1, UpToFinite, FS_EmptySet
<1>4. ASSUME NEW j \in Ends(b), j < i PROVE Rank(b, j) < Rank(b, i)
  <2>0. j \in Int /\ Ends(b) \in SUBSET Int
    BY EndsFinite
  <2>1. UpTo(b, j) \in SUBSET UpTo(b, i)
    BY <1>0, <2>0, <1>4 DEF UpTo
  <2>3. ~(i \in UpTo(b, j))
    BY <1>0, <2>0, <1>4 DEF UpTo
  <2>2. Cardinality(UpTo(b, j)) <= Cardinality(UpTo(b, i)) /\ Cardinality(UpTo(b, j)) # Cardinality(UpTo(b, i))
    BY <1>0, <2>0, <2>1, <2>3, UpToFinite, FS_Subset
  <2> QED BY <1>0, <2>0, <2>2, UpToFinite
<1> QED BY <1>1, <1>2, <1>3, <1>4

\* Two last bytes have different ranks.
LEMMA RankTells ==
  ASSUME NEW b \in Seq(Bytes), NEW i \in Ends(b), NEW j \in Ends(b), Rank(b, i) = Rank(b, j)
  PROVE  i = j
<1>1. i \in Int /\ j \in Int /\ Rank(b, i) \in Nat /\ Rank(b, j) \in Nat
  BY EndsFinite, RankGrows
<1>2. CASE i < j
  BY <1>1, <1>2, RankGrows
<1>3. CASE j < i
  BY <1>1, <1>3, RankGrows
<1> QED BY <1>1, <1>2, <1>3

\* Every number up to that of the last bytes is the rank of one: there are no
\* more ranks than last bytes, and no two have the same.
LEMMA RankReached ==
  ASSUME NEW b \in Seq(Bytes), NEW k \in 1..Cardinality(Ends(b))
  PROVE  \E i \in Ends(b) : Rank(b, i) = k
<1> DEFINE n == Cardinality(Ends(b))
           f == [i \in Ends(b) |-> Rank(b, i)]
<1>1. IsFiniteSet(Ends(b)) /\ n \in Nat
  BY EndsFinite
<1>2. f \in [Ends(b) -> 1..n]
  BY RankGrows
<1>3. f \in Injection(Ends(b), 1..n)
  BY <1>2, RankTells DEF Injection, IsInjective
<1>4. IsFiniteSet(1..n) /\ Cardinality(1..n) = n
  BY <1>1, FS_Interval
<1> HIDE DEF f
<1>5. f \in Surjection(Ends(b), 1..n)
  BY <1>3, <1>4, FS_Injection
<1>6. \E i \in Ends(b) : f[i] = k
  BY <1>5 DEF Surjection
<1> QED BY <1>6 DEF f

\* The place of a rank is that of the last byte which has it.
LEMMA PlaceIs ==
  ASSUME NEW b \in Seq(Bytes)
  PROVE  /\ \A k \in 1..Cardinality(Ends(b)) : Place(b, k) \in Ends(b) /\ Rank(b, Place(b, k)) = k
         /\ \A i \in Ends(b) : Place(b, Rank(b, i)) = i
<1>1. ASSUME NEW k \in 1..Cardinality(Ends(b)) PROVE Place(b, k) \in Ends(b) /\ Rank(b, Place(b, k)) = k
  BY RankReached DEF Place
<1>2. ASSUME NEW i \in Ends(b) PROVE Place(b, Rank(b, i)) = i
  <2>1. Rank(b, i) \in 1..Cardinality(Ends(b))
    BY RankGrows
  <2> QED BY <2>1, <1>1, RankTells
<1> QED BY <1>1, <1>2

\* The packets in the wire are those whose last byte is.
LEMMA WholeType ==
  ASSUME NEW b \in Seq(Bytes)
  PROVE  /\ Whole(b) \in Seq(Packets) /\ Len(Whole(b)) = Cardinality(Ends(b))
         /\ \A i \in Ends(b) : b[i][1] \in Packets /\ b[i] = Last(b[i][1])
         /\ \A p \in Packets : p \in Net!InWire(Whole(b)) <=> Last(p) \in BytesIn(b)
<1>1. ASSUME NEW i \in Ends(b) PROVE b[i][1] \in Packets /\ b[i] = Last(b[i][1])
  BY DEF Ends, Last
<1>2. Cardinality(Ends(b)) \in Nat /\ Ends(b) \in SUBSET (DOMAIN b)
  BY EndsFinite
<1>3. Whole(b) \in [1..Cardinality(Ends(b)) -> Packets]
  BY <1>1, PlaceIs DEF Whole
<1>4. Whole(b) \in Seq(Packets) /\ Len(Whole(b)) = Cardinality(Ends(b))
  BY <1>2, <1>3
<1>5. ASSUME NEW p \in Packets, p \in Net!InWire(Whole(b)) PROVE Last(p) \in BytesIn(b)
  <2>1. PICK k \in 1..Cardinality(Ends(b)) : p = Whole(b)[k]
    BY <1>3, <1>5 DEF Net!InWire
  <2>2. p = b[Place(b, k)][1] /\ Place(b, k) \in Ends(b)
    BY <2>1, PlaceIs DEF Whole
  <2> QED BY <2>2, <1>1, <1>2 DEF BytesIn
<1>6. ASSUME NEW p \in Packets, Last(p) \in BytesIn(b) PROVE p \in Net!InWire(Whole(b))
  <2>1. PICK i \in DOMAIN b : b[i] = Last(p)
    BY <1>6 DEF BytesIn
  <2>2. i \in Ends(b) /\ b[i][1] = p
    BY <2>1 DEF Ends, Last
  <2>3. Rank(b, i) \in 1..Cardinality(Ends(b)) /\ Place(b, Rank(b, i)) = i
    BY <2>2, RankGrows, PlaceIs
  <2>4. Whole(b)[Rank(b, i)] = p
    BY <2>2, <2>3 DEF Whole
  <2> QED BY <2>3, <2>4, <1>3 DEF Net!InWire
<1> QED BY <1>1, <1>4, <1>5, <1>6

\* The k-th of them is the one whose last byte has that rank.
LEMMA WholeAt ==
  ASSUME NEW b \in Seq(Bytes), NEW k \in 1..Len(Whole(b))
  PROVE  Whole(b)[k] = b[Place(b, k)][1]
<1>1. k \in 1..Cardinality(Ends(b))
  BY WholeType
<1> QED BY <1>1 DEF Whole

\* The last bytes of a part are those of the whole in its place.
LEMMA SectionEnds ==
  ASSUME NEW b \in Seq(Bytes), NEW d \in Seq(Bytes), NEW n \in Nat, Section(b, d, n)
  PROVE  \A i \in 1..Len(d) : i \in Ends(d) <=> n + i \in Ends(b)
<1>1. ASSUME NEW i \in 1..Len(d) PROVE i \in Ends(d) <=> n + i \in Ends(b)
  <2>1. d[i] = b[n + i] /\ n + i \in DOMAIN b /\ i \in DOMAIN d
    BY DEF Section
  <2> QED BY <2>1 DEF Ends
<1> QED BY <1>1

\* In a part, a last byte comes earlier by the number of those that are left
\* out before it.
LEMMA SectionRank ==
  ASSUME NEW b \in Seq(Bytes), NEW d \in Seq(Bytes), NEW n \in Nat, Section(b, d, n),
         NEW i \in 0..Len(d)
  PROVE  Rank(b, n + i) = Rank(b, n) + Rank(d, i)
<1> DEFINE S == UpTo(d, i)
           T == {j \in Ends(b) : n < j /\ j <= n + i}
           f == [j \in S |-> n + j]
<1>0. Len(d) \in Nat /\ Len(b) \in Nat /\ Ends(d) \in SUBSET (1..Len(d)) /\ Ends(b) \in SUBSET (1..Len(b))
  BY EndsFinite
<1>1. f \in [S -> T]
  BY <1>0, SectionEnds DEF UpTo
<1>2. \A x, y \in S : f[x] = f[y] => x = y
  BY <1>0 DEF UpTo
<1>3. ASSUME NEW y \in T PROVE \E x \in S : f[x] = y
  <2>1. y - n \in 1..Len(d) /\ n + (y - n) = y /\ y - n <= i
    BY <1>0
  <2>2. y - n \in Ends(d)
    BY <2>1, SectionEnds
  <2>3. y - n \in S
    BY <2>1, <2>2 DEF UpTo
  <2> QED BY <2>1, <2>3
<1>4. f \in Bijection(S, T)
  BY <1>1, <1>2, <1>3 DEF Bijection, Injection, Surjection, IsInjective
<1>5. IsFiniteSet(S) /\ Rank(d, i) = Cardinality(S) /\ Cardinality(S) \in Nat
  BY UpToFinite
<1>6. IsFiniteSet(T) /\ Cardinality(T) = Cardinality(S)
  BY <1>4, <1>5, FS_Bijection DEF ExistsBijection
<1>7. IsFiniteSet(UpTo(b, n)) /\ Rank(b, n) = Cardinality(UpTo(b, n)) /\ Cardinality(UpTo(b, n)) \in Nat
  BY UpToFinite
<1>8. UpTo(b, n + i) = UpTo(b, n) \cup T /\ UpTo(b, n) \cap T = {}
  BY <1>0 DEF UpTo
<1>9. Rank(b, n + i) = Cardinality(UpTo(b, n + i))
  BY UpToFinite
<1> HIDE DEF S, T, f
<1>10. Cardinality(UpTo(b, n) \cup T) = Cardinality(UpTo(b, n)) + Cardinality(T) - Cardinality({})
  BY <1>6, <1>7, <1>8, FS_Union
<1>11. Cardinality({}) = 0
  BY FS_EmptySet
<1>12. Cardinality(UpTo(b, n + i)) = Cardinality(UpTo(b, n) \cup T)
  BY <1>8
<1> QED BY <1>5, <1>6, <1>7, <1>9, <1>10, <1>11, <1>12

\* So a part of the bytes has a part of the packets.
LEMMA SectionWhole ==
  ASSUME NEW b \in Seq(Bytes), NEW d \in Seq(Bytes), NEW n \in Nat, Section(b, d, n)
  PROVE  /\ Rank(b, n + Len(d)) = Rank(b, n) + Len(Whole(d))
         /\ \A k \in 1..Len(Whole(d)) : Whole(d)[k] = Whole(b)[Rank(b, n) + k]
<1>1. Len(d) \in Nat /\ n \in Int /\ Rank(b, n) \in Nat /\ Len(Whole(d)) = Cardinality(Ends(d))
      /\ Ends(d) \in SUBSET (1..Len(d))
  BY EndsFinite, UpToFinite, WholeType
<1>2. Rank(b, n + Len(d)) = Rank(b, n) + Len(Whole(d))
  BY <1>1, SectionRank, RankEnds
<1>3. ASSUME NEW k \in 1..Len(Whole(d)) PROVE Whole(d)[k] = Whole(b)[Rank(b, n) + k]
  <2> DEFINE i == Place(d, k)
  <2>1. i \in Ends(d) /\ Rank(d, i) = k /\ i \in 1..Len(d) /\ i \in 0..Len(d)
    BY <1>1, PlaceIs
  <2>2. n + i \in Ends(b) /\ Rank(b, n + i) = Rank(b, n) + k /\ d[i] = b[n + i]
    <3>1. d[i] = b[n + i]
      BY <2>1 DEF Section
    <3>2. n + i \in Ends(b)
      BY <2>1, SectionEnds
    <3>3. Rank(b, n + i) = Rank(b, n) + Rank(d, i)
      BY <2>1, SectionRank
    <3> QED BY <2>1, <3>1, <3>2, <3>3
  <2>3. Rank(b, n) + k \in 1..Cardinality(Ends(b)) /\ Place(b, Rank(b, n) + k) = n + i
    BY <2>2, RankGrows, PlaceIs
  <2> QED BY <1>1, <2>2, <2>3 DEF Whole
<1> QED BY <1>2, <1>3
\* A part without the last bytes of any other packet has the same packets.
LEMMA WholeSame ==
  ASSUME NEW b \in Seq(Bytes), NEW d \in Seq(Bytes), NEW n \in Nat, Section(b, d, n),
         \A i \in Ends(b) : n < i /\ i <= n + Len(d)
  PROVE  Whole(d) = Whole(b)
<1>1. n \in Int /\ n + Len(d) \in Int /\ Ends(b) \in SUBSET Int
  BY EndsFinite
<1>2. UpTo(b, n) = {} /\ UpTo(b, n + Len(d)) = Ends(b)
  BY <1>1 DEF UpTo
<1>3. Rank(b, n) = 0 /\ Rank(b, n + Len(d)) = Cardinality(Ends(b))
  BY <1>1, <1>2, UpToFinite, FS_EmptySet
<1>4. /\ Whole(d) \in Seq(Packets) /\ Whole(b) \in Seq(Packets)
      /\ Len(Whole(d)) = Len(Whole(b)) /\ Len(Whole(b)) \in Nat
  BY <1>3, SectionWhole, WholeType
<1>5. \A k \in 1..Len(Whole(d)) : Whole(d)[k] = Whole(b)[k]
  BY <1>3, SectionWhole
<1> QED BY <1>4, <1>5

\* A last byte at the end is a packet at the end.
LEMMA WholeAppended ==
  ASSUME NEW b \in Seq(Bytes), NEW d \in Seq(Bytes), NEW p \in Packets, Section(d, b, 0),
         Len(b) < Len(d), d[Len(d)] = Last(p),
         \A i \in Ends(d) : i <= Len(b) \/ i = Len(d)
  PROVE  Whole(d) = Append(Whole(b), p)
<1>1. Len(b) \in Nat /\ Len(d) \in Nat /\ Ends(d) \in SUBSET (1..Len(d))
  BY EndsFinite
<1>2. Len(d) \in Ends(d) /\ d[Len(d)][1] = p
  <2>1. Len(d) \in DOMAIN d
    BY <1>1
  <2>2. Last(p) \in LastBytes /\ Last(p)[1] = p
    BY DEF LastBytes, Last
  <2> QED BY <2>1, <2>2 DEF Ends, LastBytes
<1>3. Ends(d) = UpTo(d, Len(b)) \cup {Len(d)} /\ ~(Len(d) \in UpTo(d, Len(b)))
  BY <1>1, <1>2 DEF UpTo
<1>4. IsFiniteSet(UpTo(d, Len(b))) /\ Rank(d, Len(b)) = Cardinality(UpTo(d, Len(b)))
  BY <1>1, UpToFinite
<1>5. Cardinality(Ends(d)) = Rank(d, Len(b)) + 1
  BY <1>3, <1>4, FS_AddElement
<1>6. Len(Whole(b)) = Rank(d, Len(b)) /\ \A k \in 1..Len(Whole(b)) : Whole(b)[k] = Whole(d)[k]
  <2>1. /\ Rank(d, 0 + Len(b)) = Rank(d, 0) + Len(Whole(b))
        /\ \A k \in 1..Len(Whole(b)) : Whole(b)[k] = Whole(d)[Rank(d, 0) + k]
    BY SectionWhole
  <2>2. Len(Whole(b)) \in Nat
    BY WholeType
  <2> QED BY <2>1, <2>2, <1>1, RankEnds
<1>7. Whole(d) \in Seq(Packets) /\ Whole(b) \in Seq(Packets) /\ Len(Whole(d)) = Len(Whole(b)) + 1
      /\ Len(Whole(b)) \in Nat
  BY <1>5, <1>6, WholeType
<1>8. Rank(d, Len(d)) = Len(Whole(d)) /\ Place(d, Len(Whole(d))) = Len(d)
  BY <1>2, RankEnds, WholeType, PlaceIs
<1>9. Whole(d)[Len(Whole(d))] = p
  <2>1. Len(Whole(d)) \in 1..Len(Whole(d))
    BY <1>7
  <2> QED BY <2>1, <1>2, <1>8, WholeAt
<1> DEFINE w == Whole(b)
           v == Whole(d)
<1>10. v \in Seq(Packets) /\ w \in Seq(Packets) /\ Len(v) = Len(w) + 1 /\ v[Len(w) + 1] = p
       /\ \A k \in 1..Len(w) : w[k] = v[k]
  BY <1>6, <1>7, <1>9
<1> HIDE DEF v, w
<1>11. v = Append(w, p)
  BY <1>10
<1> QED BY <1>11 DEF v, w

\* What is behind the only last byte among the first n has the other packets.
LEMMA WholeBeheaded ==
  ASSUME NEW b \in Seq(Bytes), NEW d \in Seq(Bytes), NEW n \in Nat, Section(b, d, n),
         n + Len(d) = Len(b), n \in Ends(b), \A i \in Ends(b) : n <= i
  PROVE  Whole(b) # <<>> /\ Head(Whole(b)) = b[n][1] /\ Whole(d) = Tail(Whole(b))
<1>1. Len(b) \in Nat /\ Len(d) \in Nat /\ n \in Int /\ Ends(b) \in SUBSET (1..Len(b))
  BY EndsFinite
<1>2. UpTo(b, n) = {n}
  BY <1>1 DEF UpTo
<1>3. Rank(b, n) = 1
  BY <1>1, <1>2, UpToFinite, FS_Singleton
<1>4. Place(b, 1) = n
  BY <1>3, PlaceIs
<1>5. /\ Cardinality(Ends(b)) = 1 + Len(Whole(d))
      /\ \A k \in 1..Len(Whole(d)) : Whole(d)[k] = Whole(b)[1 + k]
  <2>1. /\ Rank(b, n + Len(d)) = Rank(b, n) + Len(Whole(d))
        /\ \A k \in 1..Len(Whole(d)) : Whole(d)[k] = Whole(b)[Rank(b, n) + k]
    BY SectionWhole
  <2> QED BY <2>1, <1>3, RankEnds
<1>6. /\ Whole(d) \in Seq(Packets) /\ Whole(b) \in Seq(Packets) /\ Len(Whole(d)) \in Nat
      /\ Len(Whole(b)) = 1 + Len(Whole(d))
  BY <1>5, WholeType
<1>7. Whole(b)[1] = b[n][1]
  <2>1. 1 \in 1..Len(Whole(b))
    BY <1>6
  <2> QED BY <2>1, <1>4, WholeAt
<1> DEFINE w == Whole(b)
           v == Whole(d)
<1>8. /\ v \in Seq(Packets) /\ w \in Seq(Packets) /\ Len(w) = 1 + Len(v) /\ Len(v) \in Nat
      /\ \A k \in 1..Len(v) : v[k] = w[1 + k]
  BY <1>5, <1>6
<1> HIDE DEF v, w
<1>9. w # <<>> /\ v = Tail(w) /\ Head(w) = w[1]
  BY <1>8
<1> QED BY <1>7, <1>9 DEF v, w

\* What is left of the bytes has the first of the packets.
LEMMA WholeCut ==
  ASSUME NEW b \in Seq(Bytes), NEW d \in Seq(Bytes), Cut(b, d)
  PROVE  \E m \in 0..Len(Whole(b)) : Whole(d) = SubSeq(Whole(b), 1, m)
<1>1. Section(b, d, 0) /\ Len(b) \in Nat /\ Len(d) \in Nat
  BY EndsFinite DEF Section, Cut
<1>2. /\ Rank(b, Len(d)) = Len(Whole(d))
      /\ \A k \in 1..Len(Whole(d)) : Whole(d)[k] = Whole(b)[k]
  <2>1. /\ Rank(b, 0 + Len(d)) = Rank(b, 0) + Len(Whole(d))
        /\ \A k \in 1..Len(Whole(d)) : Whole(d)[k] = Whole(b)[Rank(b, 0) + k]
    BY <1>1, SectionWhole
  <2>2. Len(Whole(d)) \in Nat
    BY WholeType
  <2> QED BY <2>1, <2>2, <1>1, RankEnds
<1>3. Len(Whole(d)) <= Len(Whole(b))
  <2>1. UpTo(b, Len(d)) \in SUBSET Ends(b)
    BY DEF UpTo
  <2>2. Cardinality(UpTo(b, Len(d))) <= Cardinality(Ends(b))
    BY <2>1, EndsFinite, FS_Subset
  <2>3. Rank(b, Len(d)) = Cardinality(UpTo(b, Len(d)))
    BY <1>1, UpToFinite
  <2> QED BY <2>2, <2>3, <1>2, WholeType
<1>4. Whole(d) \in Seq(Packets) /\ Whole(b) \in Seq(Packets) /\ Len(Whole(d)) \in Nat /\ Len(Whole(b)) \in Nat
  BY WholeType
<1> DEFINE w == Whole(b)
           v == Whole(d)
<1>5. /\ v \in Seq(Packets) /\ w \in Seq(Packets) /\ Len(v) \in 0..Len(w)
      /\ \A k \in 1..Len(v) : v[k] = w[k]
  BY <1>2, <1>3, <1>4
<1> HIDE DEF v, w
<1>6. v = SubSeq(w, 1, Len(v))
  <2>1. /\ SubSeq(w, 1, Len(v)) \in Seq(Packets) /\ Len(SubSeq(w, 1, Len(v))) = Len(v)
        /\ \A k \in 1..Len(v) : SubSeq(w, 1, Len(v))[k] = w[k]
    BY <1>5, SubSeqProperties
  <2> QED BY <2>1, <1>5
<1> QED BY <1>5, <1>6 DEF v, w
-----------------------------------------------------------------------------
(* No packet is on its way twice.                                          *)

OnlyOnce(b) == \A i, j \in Ends(b) : b[i] = b[j] => i = j

\* What is still to be written, as a whole or in part, has not been written.
NotAgain(b, x, w, todo) ==
  /\ x \notin todo
  /\ \A i \in Ends(b) : b[i][1] \notin todo /\ (w < Total(x) => b[i][1] # x)

Once ==
  /\ OnlyOnce(Transit)
  /\ link \in {"none", "open"} => unsent \cap queue = {}
  /\ link = "open" => NotAgain(Transit, cur, written, unsent \cup queue)

\* Where nothing is on its way, nothing is twice.
LEMMA NoneOnce ==
  /\ Ends(<<>>) = {}
  /\ OnlyOnce(<<>>)
  /\ \A x, w, todo : x \notin todo => NotAgain(<<>>, x, w, todo)
BY DEF Ends, OnlyOnce, NotAgain

\* Nor in a part of what was there.
LEMMA SectionOnce ==
  ASSUME NEW b \in Seq(Bytes), NEW d \in Seq(Bytes), NEW n \in Nat, Section(b, d, n)
  PROVE  /\ OnlyOnce(b) => OnlyOnce(d)
         /\ \A x, w, todo : NotAgain(b, x, w, todo) => NotAgain(d, x, w, todo)
<1>1. ASSUME NEW i \in Ends(d) PROVE i \in Int /\ n + i \in Ends(b) /\ d[i] = b[n + i]
  <2>1. i \in 1..Len(d)
    BY EndsFinite
  <2> QED BY <2>1, SectionEnds DEF Section
<1>2. ASSUME OnlyOnce(b) PROVE OnlyOnce(d)
  <2>1. ASSUME NEW i \in Ends(d), NEW j \in Ends(d), d[i] = d[j] PROVE i = j
    <3>1. n + i = n + j
      BY <1>1, <1>2, <2>1 DEF OnlyOnce
    <3> QED BY <1>1, <3>1
  <2> QED BY <2>1 DEF OnlyOnce
<1>3. ASSUME NEW x, NEW w, NEW todo, NotAgain(b, x, w, todo) PROVE NotAgain(d, x, w, todo)
  BY <1>1, <1>3 DEF NotAgain
<1> QED BY <1>2, <1>3

\* The last bytes after a write: those before it, and the end of the packet if
\* it was reached.
LEMMA GrownEnds ==
  ASSUME NEW b \in Seq(Bytes), NEW d \in Seq(Bytes), NEW x \in Sources, NEW w \in Nat, NEW n \in Nat,
         Grown(b, d, x, w, n), w + n <= Total(x), NEW i \in Ends(d)
  PROVE  \/ i \in Ends(b) /\ d[i] = b[i]
         \/ x \in Packets /\ w + n = Total(x) /\ i = Len(d) /\ d[i] = Last(x)
<1>1. i \in 1..Len(d) /\ d[i] \in LastBytes /\ Len(b) \in Nat /\ Total(x) \in Nat
  BY EndsFinite, Sizes DEF Ends, LastBytes
<1>2. CASE i <= Len(b)
  <2>1. d[i] = b[i] /\ i \in DOMAIN b
    BY <1>1, <1>2 DEF Grown
  <2> QED BY <1>1, <2>1 DEF Ends, LastBytes
<1>3. CASE i > Len(b)
  <2>1. i - Len(b) \in 1..n /\ i = Len(b) + (i - Len(b))
    BY <1>1, <1>3 DEF Grown
  <2>2. PICK k \in 1..n : i = Len(b) + k
    BY <2>1
  <2>3. d[Len(b) + k] = <<x, w + k>>
    BY DEF Grown
  <2>4. PICK p \in Packets : d[i] = <<p, Total(p)>>
    BY <1>1 DEF LastBytes, Last
  <2>5. x = p /\ w + k = Total(x)
    BY <2>2, <2>3, <2>4
  <2>6. k = n
    BY <1>1, <2>5
  <2> QED BY <2>2, <2>4, <2>5, <2>6 DEF Grown, Last
<1> QED BY <1>1, <1>2, <1>3

\* What was written before a write is a part of what is after it.
LEMMA GrownSection ==
  ASSUME NEW b \in Seq(Bytes), NEW d \in Seq(Bytes), NEW x, NEW w, NEW n \in Nat, Grown(b, d, x, w, n)
  PROVE  Section(d, b, 0)
BY DEF Grown, Section

\* So a write of what was not written leaves every packet there once.
LEMMA GrownOnce ==
  ASSUME NEW b \in Seq(Bytes), NEW d \in Seq(Bytes), NEW x \in Sources, NEW w \in Nat, NEW n \in Nat \ {0},
         NEW todo, Grown(b, d, x, w, n), w + n <= Total(x), OnlyOnce(b), NotAgain(b, x, w, todo)
  PROVE  OnlyOnce(d) /\ NotAgain(d, x, w + n, todo)
<1>1. Total(x) \in Nat /\ w < Total(x)
  BY Sizes
<1>2. ASSUME NEW i \in Ends(b) PROVE b[i] # Last(x)
  BY <1>1 DEF NotAgain, Last
<1>3. OnlyOnce(d)
  <2>1. ASSUME NEW i \in Ends(d), NEW j \in Ends(d), d[i] = d[j] PROVE i = j
    <3>1. \/ i \in Ends(b) /\ d[i] = b[i]
          \/ i = Len(d) /\ d[i] = Last(x)
      BY GrownEnds
    <3>2. \/ j \in Ends(b) /\ d[j] = b[j]
          \/ j = Len(d) /\ d[j] = Last(x)
      BY GrownEnds
    <3> QED BY <2>1, <3>1, <3>2, <1>2 DEF OnlyOnce
  <2> QED BY <2>1 DEF OnlyOnce
<1>4. ASSUME NEW i \in Ends(d) PROVE d[i][1] \notin todo /\ (w + n < Total(x) => d[i][1] # x)
  <2>1. \/ i \in Ends(b) /\ d[i] = b[i]
        \/ w + n = Total(x) /\ i = Len(d) /\ d[i] = Last(x)
    BY GrownEnds
  <2> QED BY <1>1, <2>1 DEF NotAgain, Last
<1> QED BY <1>3, <1>4 DEF NotAgain

\* It holds in the initial state.
LEMMA InitOnce == Init => Once
<1> SUFFICES ASSUME Init PROVE Once
  OBVIOUS
<1>1. Transit = <<>>
  BY DEF Init, Transit
<1> QED BY <1>1, NoneOnce DEF Init, Once

\* Every step keeps it.
LEMMA NextOnce == Sound /\ Once /\ [Next]_vars => Once'
<1> SUFFICES ASSUME Sound, Once, [Next]_vars PROVE Once'
  OBVIOUS
<1>0. Types /\ Stages /\ Transit \in Seq(Bytes) /\ OnlyOnce(Transit) /\ got \in Seq(Bytes) /\ Len(got) \in Nat
  BY TransitIs DEF Sound, Once, Types
<1>1. CASE Flush
  <2>1. Transit' = Transit /\ link' = link /\ cur' = cur /\ written' = written
    BY <1>1 DEF Flush, Transit, receiver
  <2>2. unsent' \cup queue' = unsent \cup queue /\ (unsent \cap queue = {} => unsent' \cap queue' = {})
    BY <1>1 DEF Flush
  <2> QED BY <2>1, <2>2 DEF Once
<1>2. CASE Connect
  <2>1. Transit' = Transit /\ link = "none" /\ cur' = Hello /\ unsent' = unsent /\ queue' = queue
    BY <1>2 DEF Connect, Transit, receiver
  <2>2. Transit = <<>>
    BY <1>0, <2>1 DEF Stages, Transit
  <2>3. Hello \notin unsent \cup queue
    BY <1>0, FramingAssumption DEF FramingAssumption, Types
  <2> QED BY <2>1, <2>2, <2>3, NoneOnce DEF Once
<1>3. CASE GiveUp
  BY <1>3 DEF GiveUp, Once, Transit, sender, receiver
<1>4. CASE Take
  <2>1. PICK p \in Top(queue) : cur' = p /\ queue' = queue \ {p}
    BY <1>4 DEF Take
  <2>2. Transit' = Transit /\ link' = link /\ written' = 0 /\ unsent' = unsent
    BY <1>4 DEF Take, Transit, receiver, Rewound
  <2>3. p \in queue
    BY DEF Top
  <2>4. ASSUME link = "open" PROVE NotAgain(Transit, p, 0, unsent' \cup queue') /\ unsent' \cap queue' = {}
    BY <2>1, <2>2, <2>3, <2>4 DEF Once, NotAgain
  <2>5. link # "none"
    BY <1>0, <1>4 DEF Stages, Take
  <2> QED BY <2>1, <2>2, <2>4, <2>5 DEF Once
<1>5. CASE WriteSome
  <2>1. PICK n \in Nat \ {0} :
          /\ written + n <= Total(cur)
          /\ written' = written + n
          /\ sock' \in Seq(Bytes)
          /\ Grown(Transit, Transit', cur, written, n)
    BY <1>0, <1>5, WriteGrows
  <2>2. UNCHANGED <<unsent, queue, link, cur, got>> /\ link = "open"
    BY <1>5 DEF WriteSome, receiver
  <2>3. Transit' \in Seq(Bytes) /\ cur \in Sources /\ written \in Nat
    BY <1>0, <2>1, <2>2, Sizes, ConcatProperties DEF Transit, Types
  <2>4. NotAgain(Transit, cur, written, unsent \cup queue)
    BY <2>2 DEF Once
  <2>5. OnlyOnce(Transit') /\ NotAgain(Transit', cur, written + n, unsent \cup queue)
    BY <1>0, <2>1, <2>3, <2>4, GrownOnce
  <2> QED BY <2>1, <2>2, <2>5 DEF Once
<1>6. CASE WriteIntoVoid
  BY <1>6 DEF WriteIntoVoid, Once, Transit, receiver
<1>7. CASE Written
  BY <1>7 DEF Written, Once, Transit, receiver
<1>8. CASE WriteFails
  BY <1>8 DEF WriteFails, MayFail, Once, Transit, receiver
<1>9. CASE Accept
  BY <1>9 DEF Accept, Once, Transit, sender
<1>10. CASE ReadSome
  <2>1. Transit' = Transit /\ UNCHANGED <<unsent, queue, link, cur, written>>
    BY <1>0, <1>10, ReadMoves DEF ReadSome, sender
  <2> QED BY <2>1 DEF Once
<1>11. CASE Greeted \/ Deliver \/ ReadFails
  <2>1. got' = <<>> /\ sock' = sock /\ UNCHANGED <<unsent, queue, link, cur, written>>
    BY <1>11 DEF Greeted, Deliver, ReadFails, sender
  <2>2. Transit' \in Seq(Bytes) /\ Dropped(Transit, Transit', Len(got))
    BY <1>0, <2>1, GotDrops
  <2>3. Section(Transit, Transit', Len(got))
    BY <1>0, <2>2 DEF Section, Dropped
  <2> QED BY <1>0, <2>1, <2>2, <2>3, SectionOnce DEF Once
<1>12. CASE Break
  <2>1. Transit' \in Seq(Bytes) /\ Cut(Transit, Transit') /\ link' \notin {"none", "open"}
    BY <1>0, <1>12, BreakCuts DEF Break
  <2>2. Section(Transit, Transit', 0)
    BY <1>0, <2>1 DEF Section, Cut
  <2> QED BY <1>0, <2>1, <2>2, SectionOnce DEF Once
<1>13. CASE UNCHANGED vars
  BY <1>13 DEF vars, sender, receiver, Once, Transit
<1> QED BY <1>1, <1>2, <1>3, <1>4, <1>5, <1>6, <1>7, <1>8, <1>9, <1>10, <1>11, <1>12, <1>13 DEF Next
-----------------------------------------------------------------------------
(* Every step is one of Network's, or none.                                *)

Delivered == {p \in Packets : Image(p) \in BytesIn(out)}

\* What the Sender holds and has not written to the end.
InHand == IF spc = "write" /\ cur # Hello /\ written < Total(cur) THEN {cur} ELSE {}

\* f with another queue at host h.
WithQueue(f, h, x) == [f EXCEPT ![h][0] = x]

\* A change of one queue.
LEMMA PoolsAt ==
  ASSUME NEW q, NEW r, NEW x
  PROVE  /\ Pools(q, r)[0][0] = q /\ Pools(q, r)[2][0] = r
         /\ WithQueue(Pools(q, r), 0, x) = Pools(x, r)
         /\ WithQueue(Pools(q, r), 2, x) = Pools(q, x)
<1> USE DEF WithQueue
<1>1. Pools(q, r)[0][0] = q /\ Pools(q, r)[2][0] = r
  BY DEF Pools
<1>2. WithQueue(Pools(q, r), 0, x) = Pools(x, r)
  <2>1. [Pools(q, r)[0] EXCEPT ![0] = x] = Pools(x, r)[0]
    BY DEF Pools
  <2>2. [Pools(q, r) EXCEPT ![0] = Pools(x, r)[0]] = Pools(x, r)
    BY DEF Pools
  <2> QED BY <2>1, <2>2
<1>3. WithQueue(Pools(q, r), 2, x) = Pools(q, x)
  <2>1. [Pools(q, r)[2] EXCEPT ![0] = x] = Pools(q, x)[2]
    <3> DEFINE row(y) == [t \in {0, 1} |-> IF t = 0 THEN y ELSE {}]
    <3>1. Pools(q, r)[2] = row(r) /\ Pools(q, x)[2] = row(x)
      BY DEF Pools
    <3>2. [row(r) EXCEPT ![0] = x] = row(x)
      OBVIOUS
    <3> QED BY <3>1, <3>2
  <2>2. [Pools(q, r) EXCEPT ![2] = Pools(q, x)[2]] = Pools(q, x)
    BY DEF Pools
  <2> QED BY <2>1, <2>2
<1> QED BY <1>1, <1>2, <1>3

\* What is at either side of the connection.
LEMMA Sides ==
  \A x, none :
    /\ OneSide("trader", x, none)[Conn]["trader"] = x
    /\ OneSide("exchanger", x, none)[Conn]["exchanger"] = x
    /\ OneSide("exchanger", x, none)[Conn]["trader"] = none
BY DEF OneSide

\* What Network sees of the connection.
LEMMA NetSees ==
  /\ NetPool = Pools(queue, Delivered)
  /\ NetHand = OneSide("trader", InHand, {})
  /\ NetWire = OneSide("exchanger", Whole(Transit), <<>>)
BY DEF NetPool, NetHand, NetWire, Delivered, InHand, Transit

\* The two queues, and what becomes of them when one changes.
LEMMA NetQueues ==
  /\ NetPool[0][0] = queue
  /\ NetPool[2][0] = Delivered
  /\ \A x : WithQueue(NetPool, 0, x) = Pools(x, Delivered)
  /\ \A x : WithQueue(NetPool, 2, x) = Pools(queue, x)
BY NetSees, PoolsAt

\* The connection as Network has it: the trader's Sender drains the trader's
\* queue and the exchanger's Receiver fills the exchanger's.
LEMMA NetConn ==
  /\ Net!Host(Conn, "trader") = 0 /\ Net!Source(Conn, "trader") = 0
  /\ Net!Host(Conn, "exchanger") = 2 /\ Net!Sink(Conn, "exchanger") = 0
  /\ Net!Other("trader") = "exchanger"
BY DEF Conn, Net!Host, Net!Source, Net!Sink, Net!Other

\* The initial states are initial there.
LEMMA InitNet == Init => Net!Init
<1> SUFFICES ASSUME Init PROVE Net!Init
  OBVIOUS
<1>1. Whole(Transit) = <<>> /\ Transit = <<>>
  <2>1. Transit = <<>> /\ Transit \in Seq(Bytes)
    BY DEF Init, Transit
  <2>2. Len(Whole(Transit)) = 0 /\ Whole(Transit) \in Seq(Packets)
    BY <2>1, NoneOnce, WholeType, FS_EmptySet
  <2> QED BY <2>1, <2>2
<1>2. Delivered = {} /\ queue = {} /\ InHand = {}
  BY DEF Init, Delivered, InHand, BytesIn
<1>3. NetPool = [h \in Net!Hosts |-> [t \in Net!Traders |-> {}]]
  BY <1>2, NetSees DEF Pools, Net!Hosts, Net!Traders
<1>4. NetHand = [c \in {Conn} |-> [s \in Net!Sides |-> {}]]
  BY <1>2, NetSees DEF OneSide, Net!Sides
<1>5. NetWire = [c \in {Conn} |-> [s \in Net!Sides |-> <<>>]]
  BY <1>1, NetSees DEF OneSide, Net!Sides
<1>6. NetLink = [c \in {Conn} |-> "none"] /\ NetUp = [c \in {Conn} |-> {}] /\ NetEnded = [c \in {Conn} |-> {}]
  BY DEF Init, NetLink, NetUp, NetEnded
<1> QED BY <1>3, <1>4, <1>5, <1>6 DEF Net!Init, Init

\* Steps at the trader's queue and of the connector.
LEMMA NetFlush ==
  ASSUME Sound, Flush
  PROVE  Net!Flush(0)
<1>1. PICK p \in unsent : unsent' = unsent \ {p} /\ queue' = queue \cup {p}
  BY DEF Flush
<1>2. p.from = 0
  BY FramingAssumption DEF FramingAssumption, Sound, Types
<1>3. UNCHANGED <<rpc, got, out, link, spc, cur, written, sock, lost>>
  BY DEF Flush, receiver
<1>4. NetPool' = Pools(queue \cup {p}, Delivered)
  BY <1>1, <1>3 DEF NetPool, Delivered
<1>5. NetPool' = WithQueue(NetPool, 0, NetPool[0][0] \cup {p})
  BY <1>4, NetQueues
<1>6. UNCHANGED <<NetLink, NetUp, NetEnded, NetHand, NetWire, lost>>
  BY <1>3 DEF NetLink, NetUp, NetEnded, NetHand, NetWire
<1> QED BY <1>1, <1>2, <1>5, <1>6 DEF Net!Flush, WithQueue

\* Connecting is the network's Connect: nothing is on its way yet.
LEMMA NetConnect ==
  ASSUME Sound, Connect
  PROVE  Net!Connect(Conn)
<1>1. /\ UNCHANGED <<unsent, queue, rpc, got, out, sock, lost>>
      /\ link = "none" /\ link' = "open" /\ spc' = "write" /\ cur' = Hello
  BY DEF Connect, receiver
<1>2. spc = "connect" /\ rpc = "accept"
  BY <1>1 DEF Sound, Stages
<1>3. UNCHANGED <<NetPool, NetWire, NetEnded, NetHand>>
  BY <1>1, <1>2 DEF NetPool, NetWire, NetEnded, NetHand
<1>4. NetLink[Conn] = "none" /\ NetLink' = [NetLink EXCEPT ![Conn] = "open"]
  BY <1>1 DEF NetLink
<1>5. NetUp' = [NetUp EXCEPT ![Conn] = {"trader"}]
  BY <1>1, <1>2 DEF NetUp
<1> QED BY <1>1, <1>3, <1>4, <1>5 DEF Net!Connect

\* Giving up is the network's GiveUp.
LEMMA NetGiveUp ==
  ASSUME GiveUp
  PROVE  Net!GiveUp(Conn)
<1>1. UNCHANGED <<unsent, queue, spc, cur, written, rpc, got, out, sock, lost>>
      /\ link = "none" /\ link' = "failed"
  BY DEF GiveUp, sender, receiver
<1>2. UNCHANGED <<NetPool, NetUp, NetWire, NetEnded, NetHand>>
  BY <1>1 DEF NetPool, NetUp, NetWire, NetEnded, NetHand
<1>3. NetLink[Conn] = "none" /\ NetLink' = [NetLink EXCEPT ![Conn] = "failed"]
  BY <1>1 DEF NetLink
<1> QED BY <1>1, <1>2, <1>3 DEF Net!GiveUp

\* The Sender takes a packet, which then is in its hand.
LEMMA NetTake ==
  ASSUME Sound, Take
  PROVE  Net!Take(Conn, "trader")
<1>1. PICK p \in Top(queue) : cur' = p /\ queue' = queue \ {p}
  BY DEF Take
<1>2. /\ UNCHANGED <<rpc, got, out, unsent, link, sock, lost>>
      /\ written' = 0 /\ spc' = "write" /\ spc = "next"
  BY DEF Take, receiver, Rewound
<1>3. p \in Packets /\ p # Hello /\ 0 < Total(p)
  BY Sizes, FramingAssumption DEF FramingAssumption, Top, Sound, Types, Sources, HEADER
<1>4. NetPool[0][0] = queue /\ NetPool' = WithQueue(NetPool, 0, NetPool[0][0] \ {p})
  <2>1. NetPool' = Pools(queue \ {p}, Delivered)
    BY <1>1, <1>2 DEF NetPool, Delivered
  <2> QED BY <2>1, NetQueues
<1>5. NetHand[Conn]["trader"] = {} /\ NetHand' = [NetHand EXCEPT ![Conn]["trader"] = {p}]
  <2>1. InHand = {} /\ InHand' = {p}
    BY <1>1, <1>2, <1>3 DEF InHand
  <2>2. NetHand' = OneSide("trader", {p}, {})
    BY <2>1, NetSees DEF NetHand, InHand
  <2>3. NetHand = OneSide("trader", {}, {})
    BY <2>1, NetSees
  <2> HIDE DEF NetHand
  <2>4. OneSide("trader", {}, {})[Conn]["trader"] = {}
    BY Sides
  <2>5. [OneSide("trader", {}, {}) EXCEPT ![Conn]["trader"] = {p}] = OneSide("trader", {p}, {})
    BY DEF OneSide
  <2> QED BY <2>2, <2>3, <2>4, <2>5
<1>6. UNCHANGED <<NetLink, NetUp, NetEnded, NetWire>>
  BY <1>2 DEF NetLink, NetUp, NetEnded, NetWire
<1>7. "trader" \in Net!Running(Conn)
  BY <1>2 DEF Net!Running, NetUp, NetEnded
<1> QED BY <1>1, <1>2, <1>4, <1>5, <1>6, <1>7, NetConn DEF Net!Take, Top, Net!Top, WithQueue
\* The last byte of a packet puts it into the wire, and out of the hand.
LEMMA NetWriteSome ==
  ASSUME Sound, WriteSome
  PROVE  Net!Write(Conn, "trader") \/ UNCHANGED Net!vars
<1>1. PICK n \in Nat \ {0} :
        /\ n <= Piece(written, Total(cur)) - written
        /\ written + n <= Total(cur)
        /\ written' = written + n
        /\ sock' \in Seq(Bytes)
        /\ Grown(Transit, Transit', cur, written, n)
  BY WriteGrows DEF Sound
<1>2. UNCHANGED <<unsent, queue, link, spc, cur, rpc, got, out, lost>> /\ link = "open" /\ spc = "write"
  BY DEF WriteSome, receiver
<1>3. /\ Transit \in Seq(Bytes) /\ Transit' \in Seq(Bytes)
      /\ cur \in Sources /\ written \in Nat /\ Total(cur) \in Nat /\ written < Total(cur)
      /\ Len(Transit) \in Nat
  BY <1>1, <1>2, TransitIs, Sizes, ConcatProperties DEF Transit, Types, Sound
<1>4. /\ Section(Transit', Transit, 0) /\ Len(Transit') = Len(Transit) + n
      /\ Transit'[Len(Transit')] = <<cur, written + n>>
  <2>1. n \in 1..n
    OBVIOUS
  <2> QED BY <1>1, <1>3, <2>1, GrownSection DEF Grown
<1>5. UNCHANGED <<NetPool, NetLink, NetUp, NetEnded, lost, unsent>>
  BY <1>2 DEF NetPool, NetLink, NetUp, NetEnded
<1>6. NetWire' = OneSide("exchanger", Whole(Transit'), <<>>)
  BY DEF NetWire, Transit
<1>7. CASE cur # Hello /\ written + n = Total(cur)
  <2>1. cur \in Packets /\ Transit'[Len(Transit')] = Last(cur)
    BY <1>3, <1>4, <1>7 DEF Sources, Last
  <2>2. \A i \in Ends(Transit') : i <= Len(Transit) \/ i = Len(Transit')
    <3>1. ASSUME NEW i \in Ends(Transit') PROVE i <= Len(Transit) \/ i = Len(Transit')
      <4>1. i \in Ends(Transit) \/ i = Len(Transit')
        BY <1>1, <1>3, GrownEnds
      <4> QED BY <4>1, <1>3, EndsFinite
    <3> QED BY <3>1
  <2>3. Whole(Transit') = Append(Whole(Transit), cur)
    <3>1. Len(Transit) < Len(Transit')
      BY <1>3, <1>4
    <3> QED BY <1>3, <1>4, <2>1, <2>2, <3>1, WholeAppended
  <2>4. InHand = {cur} /\ InHand' = {}
    BY <1>1, <1>2, <1>3, <1>7 DEF InHand
  <2>5. NetHand = OneSide("trader", {cur}, {}) /\ NetHand' = OneSide("trader", {}, {})
    BY <2>4, NetSees DEF NetHand, InHand
  <2>6. NetHand[Conn]["trader"] = {cur} /\ NetHand' = [NetHand EXCEPT ![Conn]["trader"] = {}]
    <3> HIDE DEF NetHand
    <3>1. OneSide("trader", {cur}, {})[Conn]["trader"] = {cur}
      BY Sides
    <3>2. [OneSide("trader", {cur}, {}) EXCEPT ![Conn]["trader"] = {}] = OneSide("trader", {}, {})
      BY DEF OneSide
    <3> QED BY <2>5, <3>1, <3>2
  <2> DEFINE w == Whole(Transit)
  <2>7. NetWire = OneSide("exchanger", w, <<>>) /\ NetWire' = OneSide("exchanger", Append(w, cur), <<>>)
    BY <1>6, <2>3, NetSees
  <2> HIDE DEF w
  <2>8. NetWire' = [NetWire EXCEPT ![Conn]["exchanger"] = Append(NetWire[Conn]["exchanger"], cur)]
    <3> HIDE DEF NetWire
    <3>1. OneSide("exchanger", w, <<>>)[Conn]["exchanger"] = w
      BY Sides
    <3>2. [OneSide("exchanger", w, <<>>) EXCEPT ![Conn]["exchanger"] = Append(w, cur)]
            = OneSide("exchanger", Append(w, cur), <<>>)
      BY DEF OneSide
    <3> QED BY <2>7, <3>1, <3>2
  <2>9. NetLink[Conn] = "open"
    BY <1>2 DEF NetLink
  <2> QED BY <1>5, <2>6, <2>8, <2>9, NetConn DEF Net!Write, Net!AfterWrite
<1>8. CASE ~(cur # Hello /\ written + n = Total(cur))
  <2>1. \A i \in Ends(Transit') : 0 < i /\ i <= 0 + Len(Transit)
    <3>1. ASSUME NEW i \in Ends(Transit') PROVE 0 < i /\ i <= 0 + Len(Transit)
      <4>1. cur \in Packets => cur # Hello
        BY FramingAssumption DEF FramingAssumption
      <4>2. i \in Ends(Transit)
        BY <1>1, <1>3, <1>8, <4>1, GrownEnds
      <4> QED BY <4>2, <1>3, EndsFinite
    <3> QED BY <3>1
  <2>2. Whole(Transit) = Whole(Transit')
    BY <1>3, <1>4, <2>1, WholeSame
  <2>3. NetWire' = NetWire
    BY <1>6, <2>2, NetSees
  <2>4. InHand' = InHand
    <3>1. cur # Hello => written + n < Total(cur)
      <4>1. cur # Hello => written + n # Total(cur)
        BY <1>8
      <4>2. written + n <= Total(cur) /\ written + n \in Nat
        BY <1>1, <1>3
      <4> QED BY <4>1, <4>2, <1>3
    <3> QED BY <1>1, <1>2, <1>3, <3>1 DEF InHand
  <2>5. NetHand' = NetHand
    BY <2>4 DEF NetHand, InHand
  <2> QED BY <1>5, <2>3, <2>5 DEF Net!vars
<1> QED BY <1>7, <1>8

\* The last byte of a packet that goes nowhere loses it.
LEMMA NetWriteIntoVoid ==
  ASSUME Sound, WriteIntoVoid
  PROVE  Net!WriteIntoVoid(Conn, "trader") \/ UNCHANGED Net!vars
<1>1. PICK n \in 1..Piece(written, Total(cur)) - written :
        /\ written' = written + n
        /\ lost' = IF written + n = Total(cur) /\ cur # Hello THEN lost \cup {cur} ELSE lost
  BY DEF WriteIntoVoid
<1>2. UNCHANGED <<unsent, queue, link, spc, cur, rpc, got, out, sock>> /\ link = "reset" /\ spc = "write"
  BY DEF WriteIntoVoid, receiver
<1>3. cur \in Sources /\ Total(cur) \in Nat /\ Total(cur) >= HEADER /\ written \in Nat
  BY Sizes DEF Sound, Types
<1>4. n \in Nat \ {0} /\ written + n <= Total(cur) /\ written < Total(cur)
  BY <1>3 DEF Piece, HEADER
<1>5. UNCHANGED <<NetPool, NetLink, NetUp, NetEnded, NetWire, unsent>>
  BY <1>2 DEF NetPool, NetLink, NetUp, NetEnded, NetWire
<1>6. CASE cur # Hello /\ written + n = Total(cur)
  <2>1. InHand = {cur} /\ InHand' = {}
    BY <1>1, <1>2, <1>3, <1>4, <1>6 DEF InHand
  <2>2. NetHand = OneSide("trader", {cur}, {}) /\ NetHand' = OneSide("trader", {}, {})
    BY <2>1, NetSees DEF NetHand, InHand
  <2>3. NetHand[Conn]["trader"] = {cur} /\ NetHand' = [NetHand EXCEPT ![Conn]["trader"] = {}]
    <3>1. OneSide("trader", {cur}, {})[Conn]["trader"] = {cur}
      BY Sides
    <3>2. [OneSide("trader", {cur}, {}) EXCEPT ![Conn]["trader"] = {}] = OneSide("trader", {}, {})
      BY DEF OneSide
    <3> QED BY <2>2, <3>1, <3>2
  <2>4. NetLink[Conn] = "broken"
    BY <1>2 DEF NetLink
  <2>5. lost' = lost \cup {cur}
    BY <1>1, <1>6
  <2> QED BY <1>5, <2>3, <2>4, <2>5 DEF Net!WriteIntoVoid
<1>7. CASE ~(cur # Hello /\ written + n = Total(cur))
  <2>1. InHand' = InHand /\ lost' = lost
    BY <1>1, <1>2, <1>3, <1>4, <1>7 DEF InHand
  <2>2. NetHand' = NetHand
    BY <2>1 DEF NetHand, InHand
  <2> QED BY <1>5, <2>1, <2>2 DEF Net!vars
<1> QED BY <1>6, <1>7

\* A packet that is put back is one whose last byte was not written.
LEMMA NetWriteFails ==
  ASSUME Sound, WriteFails
  PROVE  Net!WriteFails(Conn, "trader") \/ UNCHANGED Net!vars
<1>1. /\ UNCHANGED <<unsent, link, cur, written, rpc, got, out, sock, lost>>
      /\ spc = "write" /\ spc' = "ended" /\ link = "reset" /\ written < Total(cur)
      /\ queue' = queue \cup ({cur} \ {Hello})
  BY DEF WriteFails, MayFail, receiver
<1>2. UNCHANGED <<NetLink, NetUp, NetWire>> /\ NetLink[Conn] = "broken"
  BY <1>1 DEF NetLink, NetUp, NetWire
<1>3. CASE cur # Hello
  <2>1. InHand = {cur} /\ InHand' = {} /\ queue' = queue \cup {cur}
    BY <1>1, <1>3 DEF InHand
  <2>2. NetHand = OneSide("trader", {cur}, {}) /\ NetHand' = OneSide("trader", {}, {})
    BY <2>1, NetSees DEF NetHand, InHand
  <2>3. NetHand[Conn]["trader"] = {cur} /\ NetHand' = [NetHand EXCEPT ![Conn]["trader"] = {}]
    <3>1. OneSide("trader", {cur}, {})[Conn]["trader"] = {cur}
      BY Sides
    <3>2. [OneSide("trader", {cur}, {}) EXCEPT ![Conn]["trader"] = {}] = OneSide("trader", {}, {})
      BY DEF OneSide
    <3> QED BY <2>2, <3>1, <3>2
  <2>4. NetPool' = WithQueue(NetPool, 0, NetPool[0][0] \cup {cur})
    <3>1. NetPool' = Pools(queue \cup {cur}, Delivered)
      BY <1>1, <2>1 DEF NetPool, Delivered
    <3> QED BY <3>1, NetQueues
  <2>5. NetEnded' = [NetEnded EXCEPT ![Conn] = NetEnded[Conn] \cup {"trader"}]
    BY <1>1, <1>3 DEF NetEnded
  <2> QED BY <1>1, <1>2, <2>3, <2>4, <2>5, NetConn DEF Net!WriteFails, Net!Requeued, WithQueue
<1>4. CASE cur = Hello
  <2>1. UNCHANGED <<NetPool, NetEnded, NetHand>>
    <3>1. queue' = queue
      BY <1>1, <1>4
    <3> QED BY <1>1, <1>4, <3>1 DEF NetPool, NetEnded, NetHand
  <2> QED BY <1>1, <1>2, <2>1 DEF Net!vars
<1> QED BY <1>3, <1>4
\* The listener has read key and id: the Receiver and the Sender are there.
LEMMA NetAccept ==
  ASSUME Sound, UNCHANGED <<unsent, queue, link, spc, cur, written, out, lost>>,
         NetWire' = NetWire, rpc = "hello", rpc' \in {"read", "ended"}
  PROVE  Net!Accept(Conn)
<1>1. spc # "connect" /\ link \in {"open", "reset", "closed"}
  BY DEF Sound, Types, Stages
<1>2. UNCHANGED <<NetPool, NetLink, NetEnded, NetHand>>
  BY DEF NetPool, NetLink, NetEnded, NetHand
<1>3. NetUp[Conn] = {"trader"} /\ NetUp' = [NetUp EXCEPT ![Conn] = Net!Sides]
  BY <1>1 DEF NetUp, Net!Sides
<1>4. NetLink[Conn] \in {"open", "broken"}
  BY <1>1 DEF NetLink
<1> QED BY <1>2, <1>3, <1>4 DEF Net!Accept

\* Reading the last byte of the greeting is the network's Accept: the greeting
\* is no packet, so none leaves the wire.
LEMMA NetGreeted ==
  ASSUME Sound, Greeted
  PROVE  Net!Accept(Conn)
<1>1. /\ UNCHANGED <<unsent, queue, spc, cur, written, link, sock, out, lost>>
      /\ rpc = "hello" /\ rpc' = "read" /\ got' = <<>> /\ Len(got) = HEADER
  BY DEF Greeted, sender
<1>2. /\ Transit \in Seq(Bytes) /\ Transit' \in Seq(Bytes) /\ Run(Transit) /\ Greeting(Transit, rpc)
      /\ Dropped(Transit, Transit', HEADER) /\ Len(Transit) \in Nat /\ Len(Transit') \in Nat
  BY <1>1, GotDrops, TransitIs DEF Sound
<1>3. Section(Transit, Transit', HEADER) /\ HEADER + Len(Transit') = Len(Transit) /\ HEADER <= Len(Transit)
  BY <1>2 DEF Section, Dropped, HEADER
<1>4. ASSUME NEW i \in Ends(Transit) PROVE HEADER < i /\ i <= HEADER + Len(Transit')
  <2>1. i \in 1..Len(Transit) /\ Transit[i] \in LastBytes
    BY EndsFinite, <1>2 DEF Ends, LastBytes
  <2>2. ASSUME i <= HEADER PROVE FALSE
    <3>1. Transit # <<>> /\ Transit[1][1] = Hello
      BY <1>1, <1>2, <1>3 DEF Greeting, Ungreeted, HEADER
    <3>2. Transit[i] = <<Hello, i>>
      BY <1>2, <2>1, <2>2, <3>1, FirstImage, HelloSize
    <3> QED BY <2>1, <3>2, FramingAssumption DEF FramingAssumption, LastBytes, Last
  <2> QED BY <1>2, <1>3, <2>1, <2>2 DEF HEADER
<1>5. Whole(Transit') = Whole(Transit)
  BY <1>2, <1>3, <1>4, WholeSame DEF HEADER
<1>6. NetWire' = NetWire
  BY <1>5 DEF NetWire, Transit
<1> QED BY <1>1, <1>6, NetAccept

\* What ends in the middle of a packet was not in the wire.
LEMMA NetReadFails ==
  ASSUME Sound, ReadFails
  PROVE  Net!Accept(Conn) \/ UNCHANGED Net!vars
<1>1. /\ UNCHANGED <<unsent, queue, spc, cur, written, link, sock, out, lost>>
      /\ rpc \in {"hello", "read"} /\ rpc' = "ended" /\ got' = <<>> /\ sock = <<>> /\ Len(got) < Wanted
  BY DEF ReadFails, sender
<1>2. /\ Transit \in Seq(Bytes) /\ got \in Seq(Bytes) /\ Transit = got /\ Transit' = <<>>
  BY <1>1, GotDrops, ConcatEmptySeq, TransitIs DEF Sound, Types, Transit
<1>3. Ends(got) = {}
  <2>1. ASSUME NEW i \in Ends(got) PROVE FALSE
    <3>1. i \in 1..Len(got) /\ got[i] \in LastBytes /\ got # <<>> /\ Len(got) \in Nat
      BY EndsFinite, <1>2 DEF Ends, LastBytes
    <3>2. PICK x \in Sources : /\ x = Hello <=> Ungreeted(rpc)
                               /\ \A k \in 1..Len(got) : k <= Total(x) => got[k] = <<x, k>>
      BY <3>1, GotBegins
    <3>3. Total(x) \in Nat /\ Total(x) >= HEADER
      BY Sizes
    <3>4. Len(got) < Total(x)
      <4>1. CASE Len(got) < HEADER
        BY <3>1, <3>3, <4>1 DEF HEADER
      <4>2. CASE Len(got) >= HEADER
        <5>1. rpc = "read"
          BY <1>1, <3>1, <4>2 DEF Wanted, HEADER
        <5>2. PICK p \in Packets :
                Wanted = Total(p) /\ \A k \in 1..Len(got) : k <= Total(p) => got[k] = <<p, k>>
          BY <4>2, <5>1, GotHeader
        <5>3. 1 \in 1..Len(got) /\ 1 <= Total(p) /\ 1 <= Total(x)
          BY <3>1, <3>3, <4>2, Sizes DEF HEADER, Sources
        <5>4. x = p
          BY <3>2, <5>2, <5>3
        <5> QED BY <1>1, <5>2, <5>4
      <4> QED BY <3>1, <4>1, <4>2 DEF HEADER
    <3>5. got[i] = <<x, i>> /\ i < Total(x)
      BY <3>1, <3>2, <3>3, <3>4
    <3>6. PICK q \in Packets : got[i] = <<q, Total(q)>>
      BY <3>1 DEF LastBytes, Last
    <3> QED BY <3>3, <3>5, <3>6
  <2> QED BY <2>1
<1>4. Whole(Transit) = <<>> /\ Whole(Transit') = <<>>
  <2>1. \A b \in Seq(Bytes) : Ends(b) = {} => Whole(b) = <<>>
    <3>1. ASSUME NEW b \in Seq(Bytes), Ends(b) = {} PROVE Whole(b) = <<>>
      <4>1. Whole(b) \in Seq(Packets) /\ Len(Whole(b)) = 0
        BY <3>1, WholeType, FS_EmptySet
      <4> QED BY <4>1
    <3> QED BY <3>1
  <2>2. <<>> \in Seq(Bytes)
    OBVIOUS
  <2> QED BY <1>2, <1>3, <2>1, <2>2, NoneOnce
<1>5. NetWire' = NetWire
  BY <1>4 DEF NetWire, Transit
<1>6. CASE rpc = "hello"
  BY <1>1, <1>5, <1>6, NetAccept
<1>7. CASE rpc = "read"
  <2>1. UNCHANGED <<NetPool, NetLink, NetUp, NetEnded, NetHand>>
    BY <1>1, <1>7 DEF NetPool, NetLink, NetUp, NetEnded, NetHand
  <2> QED BY <1>1, <1>5, <2>1 DEF Net!vars
<1> QED BY <1>1, <1>6, <1>7

\* What the Receiver passes on is the first packet in the wire.
LEMMA NetDeliver ==
  ASSUME Sound, Deliver
  PROVE  Net!Receive(Conn, "exchanger")
<1>1. /\ UNCHANGED <<unsent, queue, spc, cur, written, link, sock, lost, rpc>>
      /\ rpc = "read" /\ got' = <<>> /\ out' = Append(out, got)
  BY DEF Deliver, sender
<1>2. PICK p \in Packets : got = Image(p) /\ got[Len(got)] = Last(p) /\ Len(got) >= HEADER
  BY GotPacket DEF Deliver
<1>3. /\ Types /\ Transit \in Seq(Bytes) /\ Transit' \in Seq(Bytes) /\ Len(got) \in Nat
      /\ Dropped(Transit, Transit', Len(got)) /\ Len(Transit) \in Nat /\ Len(Transit') \in Nat
      /\ got \in Seq(Bytes) /\ out \in Seq(Seq(Bytes))
  BY <1>1, GotDrops, TransitIs DEF Sound, Types
<1>4. Section(Transit, Transit', Len(got)) /\ Len(got) + Len(Transit') = Len(Transit)
      /\ Len(got) \in 1..Len(Transit)
  BY <1>2, <1>3 DEF Section, Dropped, HEADER
<1>5. Transit[Len(got)] = Last(p) /\ Len(got) \in Ends(Transit)
  <2>1. Transit[Len(got)] = got[Len(got)]
    BY <1>3, <1>4, TransitIs
  <2> QED BY <1>2, <1>3, <1>4, <2>1 DEF Ends
<1>6. ASSUME NEW i \in Ends(Transit) PROVE Len(got) <= i
  <2>1. i \in 1..Len(Transit) /\ Transit[i] \in LastBytes
    BY EndsFinite, <1>3 DEF Ends, LastBytes
  <2>2. PICK q \in Packets : Transit[i] = <<q, Total(q)>>
    BY <2>1 DEF LastBytes, Last
  <2>3. ASSUME i < Len(got) PROVE FALSE
    <3>1. Transit[i] = got[i] /\ got[i] = <<p, i>> /\ Len(got) = Total(p)
      <4>1. Total(p) \in Nat
        BY Sizes DEF Sources
      <4>2. DOMAIN got = 1..Total(p) /\ DOMAIN got = 1..Len(got)
        <5>1. DOMAIN Image(p) = 1..Total(p)
          BY DEF Image
        <5> QED BY <1>2, <1>3, <5>1
      <4>3. Len(got) = Total(p) /\ i \in 1..Len(got)
        BY <4>1, <4>2, <1>3, <2>1, <2>3
      <4>4. got[i] = <<p, i>>
        BY <1>2, <4>3 DEF Image
      <4> QED BY <1>3, <4>3, <4>4, TransitIs
    <3> QED BY <2>1, <2>2, <2>3, <3>1, <1>3
  <2> QED BY <2>1, <2>3, <1>3
<1> DEFINE w == Whole(Transit)
<1>7. w # <<>> /\ Head(w) = p /\ Whole(Transit') = Tail(w)
  <2>1. Transit[Len(got)][1] = p
    BY <1>5 DEF Last
  <2> QED BY <1>3, <1>4, <1>5, <1>6, <2>1, WholeBeheaded
<1>8. NetWire = OneSide("exchanger", w, <<>>) /\ NetWire' = OneSide("exchanger", Tail(w), <<>>)
  BY <1>7, NetSees DEF NetWire, Transit
<1>9. Delivered' = Delivered \cup {p}
  <2>1. BytesIn(out') = BytesIn(out) \cup {got}
    <3>1. /\ DOMAIN out = 1..Len(out) /\ DOMAIN out' = 1..(Len(out) + 1) /\ Len(out) \in Nat
          /\ \A i \in 1..Len(out) : out'[i] = out[i]
          /\ out'[Len(out) + 1] = got
      BY <1>1, <1>3
    <3> HIDE DEF w
    <3>2. ASSUME NEW y \in BytesIn(out') PROVE y \in BytesIn(out) \cup {got}
      <4>1. PICK i \in 1..(Len(out) + 1) : y = out'[i]
        BY <3>1 DEF BytesIn
      <4>2. CASE i = Len(out) + 1
        BY <3>1, <4>1, <4>2
      <4>3. CASE i # Len(out) + 1
        <5>1. i \in 1..Len(out)
          BY <3>1, <4>3
        <5> QED BY <3>1, <4>1, <5>1 DEF BytesIn
      <4> QED BY <4>2, <4>3
    <3>3. ASSUME NEW y \in BytesIn(out) PROVE y \in BytesIn(out')
      <4>1. PICK i \in 1..Len(out) : y = out[i]
        BY <3>1 DEF BytesIn
      <4>2. i \in DOMAIN out' /\ out'[i] = y
        BY <3>1, <4>1
      <4> QED BY <4>2 DEF BytesIn
    <3>4. got \in BytesIn(out')
      <4>1. Len(out) + 1 \in DOMAIN out'
        BY <3>1
      <4> QED BY <3>1, <4>1 DEF BytesIn
    <3> QED BY <3>2, <3>3, <3>4
  <2>2. ASSUME NEW q \in Packets, Image(q) = got PROVE q = p
    <3>1. Total(q) \in Nat /\ Total(q) >= HEADER /\ Total(p) \in Nat /\ Total(p) >= HEADER
      BY Sizes DEF Sources
    <3>2. Image(q)[1] = <<q, 1>> /\ Image(p)[1] = <<p, 1>>
      BY <3>1 DEF Image, HEADER
    <3> QED BY <1>2, <2>2, <3>2
  <2> QED BY <1>2, <2>1, <2>2 DEF Delivered
<1> HIDE DEF w
<1>10. NetPool' = WithQueue(NetPool, 2, NetPool[2][0] \cup {p})
  <2>1. NetPool' = Pools(queue, Delivered \cup {p})
    BY <1>1, <1>9, NetSees DEF NetPool, Delivered
  <2> QED BY <2>1, NetQueues
<1>11. NetWire[Conn]["exchanger"] = w /\ NetWire' = [NetWire EXCEPT ![Conn]["exchanger"] = Tail(NetWire[Conn]["exchanger"])]
  <2>1. OneSide("exchanger", w, <<>>)[Conn]["exchanger"] = w
    BY Sides
  <2>2. [OneSide("exchanger", w, <<>>) EXCEPT ![Conn]["exchanger"] = Tail(w)] = OneSide("exchanger", Tail(w), <<>>)
    BY DEF OneSide
  <2> HIDE DEF NetWire
  <2> QED BY <1>8, <2>1, <2>2
<1>12. UNCHANGED <<NetLink, NetUp, NetEnded, NetHand>>
  BY <1>1 DEF NetLink, NetUp, NetEnded, NetHand
<1>13. "exchanger" \in NetUp[Conn]
  <2>1. spc # "connect"
    BY <1>1 DEF Sound, Stages
  <2> QED BY <1>1, <2>1 DEF NetUp
<1> QED BY <1>1, <1>7, <1>10, <1>11, <1>12, <1>13, NetConn DEF Net!Receive, WithQueue
\* A break loses the packets whose last byte it takes away, and only those.
LEMMA NetBreak ==
  ASSUME Sound, Once, Break
  PROVE  Net!Break(Conn)
<1> DEFINE b == Transit
           d == Transit'
           w == Whole(b)
           v == Whole(d)
<1>1. /\ UNCHANGED <<unsent, queue, spc, cur, written, rpc, got, out>>
      /\ link = "open" /\ link' \in {"reset", "closed"}
      /\ lost' = lost \cup {p \in Packets : Last(p) \in BytesIn(sock) \ BytesIn(sock')}
  BY DEF Break, sender, receiver
<1>2. /\ Types /\ b \in Seq(Bytes) /\ d \in Seq(Bytes) /\ Cut(b, d) /\ Cut(sock, sock')
      /\ sock \in Seq(Bytes) /\ sock' \in Seq(Bytes) /\ got \in Seq(Bytes)
      /\ Len(b) \in Nat /\ Len(d) \in Nat /\ Len(got) \in Nat /\ Len(sock) \in Nat /\ Len(sock') \in Nat
  BY TransitIs, BreakCuts DEF Sound, Types
<1>3. /\ Len(b) = Len(got) + Len(sock) /\ Len(d) = Len(got) + Len(sock')
      /\ \A i \in 1..Len(sock) : b[Len(got) + i] = sock[i]
      /\ \A i \in 1..Len(sock') : d[Len(got) + i] = sock'[i]
  BY <1>1, <1>2, TransitIs, ConcatProperties DEF Transit
<1>4. PICK m \in 0..Len(w) : v = SubSeq(w, 1, m)
  BY <1>2, WholeCut
<1>5. \A p \in Packets : p \in Net!InWire(w) <=> Last(p) \in BytesIn(b)
  BY <1>2, WholeType
<1>6. \A p \in Packets : p \in Net!InWire(v) <=> Last(p) \in BytesIn(d)
  BY <1>2, WholeType
<1> HIDE DEF b, d
<1>7. ASSUME NEW p \in Packets
      PROVE  Last(p) \in BytesIn(sock) \ BytesIn(sock') <=> p \in Net!InWire(w) \ Net!InWire(v)
  <2>1. ASSUME Last(p) \in BytesIn(sock), Last(p) \notin BytesIn(sock')
        PROVE  Last(p) \in BytesIn(b) /\ Last(p) \notin BytesIn(d)
    <3>1. PICK k \in 1..Len(sock) : sock[k] = Last(p)
      BY <1>2, <2>1 DEF BytesIn
    <3>2. b[Len(got) + k] = Last(p) /\ Len(got) + k \in DOMAIN b
      BY <1>2, <1>3, <3>1
    <3>3. Len(got) + k \in Ends(b)
      BY <3>2 DEF Ends
    <3>4. ASSUME Last(p) \in BytesIn(d) PROVE FALSE
      <4>0. DOMAIN d = 1..Len(d)
        BY <1>2
      <4>1. PICK j \in 1..Len(d) : d[j] = Last(p)
        BY <4>0, <3>4 DEF BytesIn
      <4>2. b[j] = Last(p) /\ j \in DOMAIN b
        BY <1>2, <4>1 DEF Cut
      <4>3. j \in Ends(b)
        BY <4>2 DEF Ends
      <4>4. j = Len(got) + k
        BY <3>2, <3>3, <4>2, <4>3 DEF Once, OnlyOnce, b
      <4>5. k \in 1..Len(sock')
        BY <1>2, <1>3, <4>1, <4>4
      <4>6. sock'[k] = Last(p)
        BY <1>3, <4>1, <4>4, <4>5
      <4> QED BY <1>2, <2>1, <4>5, <4>6 DEF BytesIn
    <3> QED BY <3>2, <3>4 DEF BytesIn
  <2>2. ASSUME Last(p) \in BytesIn(b), Last(p) \notin BytesIn(d)
        PROVE  Last(p) \in BytesIn(sock) /\ Last(p) \notin BytesIn(sock')
    <3>1. PICK i \in 1..Len(b) : b[i] = Last(p)
      BY <1>2, <2>2 DEF BytesIn
    <3>2. i > Len(d)
      <4>1. ASSUME i \in 1..Len(d) PROVE FALSE
        <5>1. d[i] = Last(p) /\ i \in DOMAIN d
          BY <1>2, <3>1, <4>1 DEF Cut
        <5> QED BY <5>1, <2>2 DEF BytesIn
      <4> QED BY <1>2, <4>1
    <3>3. i - Len(got) \in 1..Len(sock) /\ i = Len(got) + (i - Len(got))
      BY <1>2, <1>3, <3>1, <3>2
    <3>4. PICK k \in 1..Len(sock) : i = Len(got) + k
      BY <3>3
    <3>5. sock[k] = Last(p)
      BY <1>3, <3>1, <3>4
    <3>6. ASSUME Last(p) \in BytesIn(sock') PROVE FALSE
      <4>1. PICK j \in 1..Len(sock') : sock'[j] = Last(p)
        BY <1>2, <3>6 DEF BytesIn
      <4>2. d[Len(got) + j] = Last(p)
        BY <1>3, <4>1
      <4>3. Len(got) + j \in 1..Len(d) /\ DOMAIN d = 1..Len(d)
        BY <1>2, <1>3
      <4> QED BY <4>2, <4>3, <2>2 DEF BytesIn
    <3> QED BY <1>2, <3>5, <3>6 DEF BytesIn
  <2> QED BY <1>5, <1>6, <2>1, <2>2
<1>8. w \in Seq(Packets) /\ v \in Seq(Packets)
  BY <1>2, WholeType
<1>9. NetWire = OneSide("exchanger", w, <<>>) /\ NetWire' = OneSide("exchanger", v, <<>>)
  BY NetSees DEF NetWire, Transit, b, d
<1> HIDE DEF w, v
<1> DEFINE kept == [s \in Net!Sides |-> SubSeq(NetWire[Conn][s], 1, IF s = "trader" THEN 0 ELSE m)]
<1>10. /\ NetWire[Conn]["trader"] = <<>> /\ NetWire[Conn]["exchanger"] = w
  BY <1>9, Sides
<1>11. kept["trader"] = <<>> /\ kept["exchanger"] = v /\ kept = [s \in Net!Sides |-> IF s = "exchanger" THEN v ELSE <<>>]
  <2>1. SubSeq(<<>>, 1, 0) = <<>>
    OBVIOUS
  <2> QED BY <1>4, <1>10, <2>1 DEF Net!Sides
<1>12. NetWire' = [NetWire EXCEPT ![Conn] = kept]
  <2> HIDE DEF kept
  <2> QED BY <1>9, <1>11 DEF OneSide, Net!Sides
<1>13. UNION {Net!InWire(NetWire[Conn][s]) \ Net!InWire(kept[s]) : s \in Net!Sides}
         = Net!InWire(w) \ Net!InWire(v)
  <2>1. Net!InWire(<<>>) = {}
    BY DEF Net!InWire
  <2> HIDE DEF kept
  <2> QED BY <1>10, <1>11, <2>1 DEF Net!Sides
<1>14. Net!InWire(w) \in SUBSET Packets
  BY <1>8 DEF Net!InWire
<1>15. lost' = lost \cup UNION {Net!InWire(NetWire[Conn][s]) \ Net!InWire(kept[s]) : s \in Net!Sides}
  <2> HIDE DEF kept
  <2>1. {p \in Packets : Last(p) \in BytesIn(sock) \ BytesIn(sock')} = Net!InWire(w) \ Net!InWire(v)
    BY <1>7, <1>14
  <2> QED BY <1>1, <1>13, <2>1
<1>16. NetLink[Conn] = "open" /\ NetLink' = [NetLink EXCEPT ![Conn] = "broken"]
  BY <1>1 DEF NetLink
<1>17. UNCHANGED <<unsent, NetPool, NetUp, NetEnded, NetHand>>
  BY <1>1 DEF NetPool, NetUp, NetEnded, NetHand
<1>18. 0 \in 0..Len(NetWire[Conn]["trader"]) /\ m \in 0..Len(NetWire[Conn]["exchanger"])
  BY <1>4, <1>10
<1> QED BY <1>12, <1>15, <1>16, <1>17, <1>18 DEF Net!Break

\* Every step of the bytes is one of the packets, or none.
LEMMA NextNet ==
  Sound /\ Sound' /\ Once /\ [Next]_vars => [Net!Next]_(Net!vars)
<1> SUFFICES ASSUME Sound, Sound', Once, [Next]_vars PROVE Net!Next \/ UNCHANGED Net!vars
  OBVIOUS
<1> USE DEF Net!Sides, Net!Traders
<1>1. CASE Flush
  BY <1>1, NetFlush DEF Net!Next
<1>2. CASE Connect
  BY <1>2, NetConnect DEF Net!Next
<1>3. CASE GiveUp
  BY <1>3, NetGiveUp DEF Net!Next
<1>4. CASE Take
  BY <1>4, NetTake DEF Net!Next
<1>5. CASE WriteSome
  BY <1>5, NetWriteSome DEF Net!Next
<1>6. CASE WriteIntoVoid
  BY <1>6, NetWriteIntoVoid DEF Net!Next
<1>7. CASE Written
  <2>1. /\ UNCHANGED <<unsent, queue, link, cur, written, rpc, got, out, sock, lost>>
        /\ spc = "write" /\ spc' = "next" /\ written = Total(cur)
    BY <1>7 DEF Written, receiver
  <2>2. Total(cur) \in Nat
    BY Sizes DEF Sound, Types
  <2>3. UNCHANGED <<NetPool, NetLink, NetUp, NetEnded, NetWire>>
    BY <2>1 DEF NetPool, NetLink, NetUp, NetEnded, NetWire
  <2>4. InHand' = InHand
    BY <2>1, <2>2 DEF InHand
  <2>5. NetHand' = NetHand
    BY <2>4 DEF NetHand, InHand
  <2> QED BY <2>1, <2>3, <2>5 DEF Net!vars
<1>8. CASE WriteFails
  BY <1>8, NetWriteFails DEF Net!Next
<1>9. CASE Accept
  <2>1. /\ UNCHANGED <<unsent, queue, link, spc, cur, written, got, out, sock, lost>>
        /\ rpc = "accept" /\ rpc' = "hello"
    BY <1>9 DEF Accept, sender
  <2> QED BY <2>1 DEF Net!vars, NetPool, NetLink, NetUp, NetEnded, NetHand, NetWire
<1>10. CASE ReadSome
  <2>1. UNCHANGED <<unsent, queue, spc, cur, written, link, rpc, out, lost>> /\ Transit' = Transit
    BY <1>10, ReadMoves DEF ReadSome, sender, Sound
  <2>2. NetWire' = NetWire
    BY <2>1 DEF NetWire, Transit
  <2> QED BY <2>1, <2>2 DEF Net!vars, NetPool, NetLink, NetUp, NetEnded, NetHand
<1>11. CASE Greeted
  BY <1>11, NetGreeted DEF Net!Next
<1>12. CASE Deliver
  BY <1>12, NetDeliver DEF Net!Next
<1>13. CASE ReadFails
  BY <1>13, NetReadFails DEF Net!Next
<1>14. CASE Break
  BY <1>14, NetBreak DEF Net!Next
<1>15. CASE UNCHANGED vars
  BY <1>15 DEF vars, sender, receiver, Net!vars, NetPool, NetLink, NetUp, NetEnded, NetHand, NetWire
<1> QED BY <1>1, <1>2, <1>3, <1>4, <1>5, <1>6, <1>7, <1>8, <1>9, <1>10, <1>11, <1>12, <1>13, <1>14, <1>15 DEF Next

\* Byte by byte the code does what Network does packet by packet, whatever the
\* packets and their sizes: a packet that is put back has not come through and
\* can not, a break loses what it counts, and nothing else gets lost.
THEOREM FramingImplementsNetwork == Spec => ImplementsNetwork
<1>1. Init => Net!Init
  BY InitNet
<1>2. Init => Once
  BY InitOnce
<1>3. Sound /\ Once /\ [Next]_vars => Once'
  BY NextOnce
<1>4. Sound /\ Sound' /\ Once /\ [Next]_vars => [Net!Next]_(Net!vars)
  BY NextNet
<1> QED BY <1>1, <1>2, <1>3, <1>4, AlwaysSound, PTL DEF Spec, ImplementsNetwork, Net!Spec
=============================================================================
