---------------------------- MODULE NetworkProofs ---------------------------
(***************************************************************************)
(* Proofs about Network, for any set of connections and packets: no trader *)
(* is ever sent its own packets, each packet is in one place, and to the   *)
(* traders the network is a PacketChannel.  And about Ports, where its     *)
(* connections come from, for any configuration and any number of moves:   *)
(* the tables of ports agree, no connector is turned away, and what was    *)
(* started to listen for a connector is not used up by another one.        *)
(***************************************************************************)
EXTENDS Network, Ports, SequenceTheorems, FiniteSetTheorems, TLAPS

-----------------------------------------------------------------------------
(* Ports: the tables.                                                      *)

Move ==
  {m \in [t : Connecting, a : Nat, b : Nat, c : Nat \cup {NoWord}, d : Nat \cup {NoWord}] :
     m.c = NoWord <=> m.d = NoWord}

ConnectorStates == {"trying", "queued", "hanging", "served", "failed", "broken", "reset"}

ListenerStates == {"starting", "open", "stuck", "failed", "ended"}

AConnector ==
  [t : Connecting, port : Nat, own : Nat, tries : Nat, state : ConnectorStates, at : Nat]

AListener == [port : Nat, state : ListenerStates]

PortTypes ==
  /\ started \in SUBSET (Connecting \cup {exchanger})
  /\ eport \in [Ends -> Nat] /\ xport \in [Ends -> Nat] /\ own \in [Ends -> Nat]
  /\ fresh \in SUBSET NewPorts
  /\ esay \in SUBSET Move /\ tsay \in SUBSET Move
  /\ listeners \in Seq(AListener) /\ connectors \in Seq(AConnector)

\* Moves that one of the two operators has yet to type.
Pending == esay \cup tsay

\* A port is in one slot, whichever of the tables one looks at, and no slot
\* has a port that is still to be given out.
Unique ==
  /\ \A x, y \in Ends : x # y => eport[x] # eport[y] /\ xport[x] # xport[y] /\ eport[x] # xport[y]
  /\ \A x \in Ends : eport[x] \notin fresh /\ xport[x] \notin fresh

\* The move is about the slot: who has not typed it has the old port there,
\* who has typed it the new one, which is in no other slot.
About(m, x) ==
  /\ x[1] = m.t
  /\ eport[x] = (IF m \in esay THEN m.a ELSE m.b)
  /\ xport[x] = (IF m \in tsay THEN m.a ELSE m.b)
  /\ m \in tsay /\ m.c # NoWord => own[x] = m.c
  /\ \A y \in Ends : y # x => m.b # eport[y] /\ m.b # xport[y]
  /\ \A y \in Ends : y # x /\ y[1] = m.t => xport[y] = eport[y]

\* Every pending move is about a slot, and no two are in each other's way.
Agreed ==
  /\ \A m \in Pending : exchanger \in started /\ m.t \in started /\ m.b \notin fresh
  /\ \A m \in Pending : \E x \in Ends : About(m, x)
  /\ \A m, n \in Pending : m # n => m.t # n.t /\ m.b # n.b

TablesInv == PortTypes /\ Unique /\ Agreed /\ TablesAgree

\* Sequence r is q and after it the n elements of f.
Lengthens(r, q, n, f) ==
  /\ \A i \in DOMAIN q : i \in DOMAIN r /\ r[i] = q[i]
  /\ \A i \in DOMAIN r \ DOMAIN q : i - Len(q) \in 1..n /\ r[i] = f[i - Len(q)]
  /\ \A k \in 1..n : Len(q) + k \in DOMAIN r /\ r[Len(q) + k] = f[k]

\* What two sequences joined are.
LEMMA JoinedSeq ==
  ASSUME NEW T, NEW q \in Seq(T), NEW n \in Nat, NEW f \in [1..n -> T], NEW r, r = q \o f
  PROVE  r \in Seq(T) /\ Lengthens(r, q, n, f)
<1>1. f \in Seq(T) /\ Len(f) = n
  OBVIOUS
<1> QED BY <1>1 DEF Lengthens

\* A function on the indices of a sequence is one.
LEMMA SeqOf ==
  ASSUME NEW T, NEW n \in Nat, NEW f \in [1..n -> T]
  PROVE  f \in Seq(T) /\ Len(f) = n
OBVIOUS

\* A sequence in which one element is replaced.
LEMMA ReplacedSeq ==
  ASSUME NEW T, NEW q \in Seq(T), NEW i \in DOMAIN q, NEW x \in T
  PROVE  /\ [q EXCEPT ![i] = x] \in Seq(T)
         /\ DOMAIN [q EXCEPT ![i] = x] = DOMAIN q
         /\ [q EXCEPT ![i] = x][i] = x
         /\ \A j \in DOMAIN q : j # i => [q EXCEPT ![i] = x][j] = q[j]
OBVIOUS

\* What there is to start with.
LEMMA InitTables == PortsInit => TablesInv
<1> SUFFICES ASSUME PortsInit PROVE TablesInv
  OBVIOUS
<1>1. PortTypes
  BY PortsAssumption DEF PortsInit, PortTypes
<1>2. Unique /\ Agreed /\ TablesAgree
  BY PortsAssumption DEF PortsInit, Unique, Agreed, Pending, TablesAgree
<1> QED BY <1>1, <1>2 DEF TablesInv

\* Every end belongs to a trader that connects, and no trader is the exchanger.
LEMMA TraderIsNot ==
  \A t \in Connecting : t # exchanger /\ \A x \in Ends : x[1] \in Connecting /\ x[1] \in Nat /\ x[2] \in Nat
BY PortsAssumption DEF Connecting, exchanger

\* The ends of a set in order are all of them, each once.
LEMMA SequencedEnds ==
  ASSUME NEW E \in SUBSET Ends, NEW f \in InOrder(E)
  PROVE  /\ Cardinality(E) \in Nat /\ f \in [1..Cardinality(E) -> E]
         /\ \A x \in E : \E i \in DOMAIN f : f[i] = x
         /\ \A i, j \in DOMAIN f : i # j => f[i] # f[j]
<1>1. IsFiniteSet(E) /\ Cardinality(E) \in Nat
  BY PortsAssumption, FS_Subset, FS_CardinalityType
<1>2. f \in [1..Cardinality(E) -> E] /\ DOMAIN f = 1..Cardinality(E)
  BY DEF InOrder
<1>3. ASSUME NEW i \in DOMAIN f, NEW j \in DOMAIN f, i # j PROVE f[i] # f[j]
  <2>0. f[i] \in Nat \X Nat /\ f[j] \in Nat \X Nat
    BY <1>2, PortsAssumption
  <2>1. /\ f[i][1] \in Nat /\ f[j][1] \in Nat /\ f[i][2] \in Nat /\ f[j][2] \in Nat
    BY <2>0
  <2>2. i < j \/ j < i
    BY <1>1, <1>2, <1>3
  <2>3. f[i][1] < f[j][1] \/ f[i][2] < f[j][2] \/ f[j][1] < f[i][1] \/ f[j][2] < f[i][2]
    BY <2>2 DEF InOrder
  <2> QED BY <2>1, <2>3
<1> QED BY <1>1, <1>2, <1>3 DEF InOrder

\* Where the tables and what is agreed stay.
LEMMA TablesKept ==
  ASSUME TablesInv, UNCHANGED <<tables, said>>, PortTypes', started \subseteq started'
  PROVE  TablesInv'
<1>1. UNCHANGED <<eport, xport, own, fresh, esay, tsay>>
  BY DEF tables, said
<1>2. \A m, x : About(m, x)' = About(m, x)
  BY <1>1 DEF About
<1>3. Unique' /\ TablesAgree'
  BY <1>1 DEF TablesInv, Unique, TablesAgree
<1>4. Agreed'
  BY <1>1, <1>2 DEF TablesInv, Agreed, Pending
<1> QED BY <1>3, <1>4 DEF TablesInv

\* The exchanger starts: no table changes.
LEMMA ExchangerStartsTables ==
  ASSUME TablesInv, ExchangerStarts
  PROVE  TablesInv'
<1>1. PortTypes /\ UNCHANGED <<tables, said, connectors>> /\ started' = started \cup {exchanger}
  BY DEF ExchangerStarts, TablesInv
<1>2. PICK ends \in InOrder(Ends) : listeners' = [i \in DOMAIN ends |-> Listener(eport[ends[i]])]
  BY DEF ExchangerStarts
<1>3. /\ Cardinality(Ends) \in Nat /\ DOMAIN ends = 1..Cardinality(Ends)
      /\ \A i \in DOMAIN ends : ends[i] \in Ends
  BY SequencedEnds
<1>4. listeners' \in [1..Cardinality(Ends) -> AListener]
  BY <1>1, <1>2, <1>3 DEF PortTypes, AListener, ListenerStates, Listener
<1>5. listeners' \in Seq(AListener)
  BY <1>3, <1>4, SeqOf
<1>6. PortTypes'
  BY <1>1, <1>5 DEF PortTypes, tables, said
<1> QED BY <1>1, <1>6, TablesKept

\* A trader starts: no table changes.
LEMMA TraderStartsTables ==
  ASSUME TablesInv, NEW t \in Connecting, TraderStarts(t)
  PROVE  TablesInv'
<1> DEFINE mine == {x \in Ends : x[1] = t}
<1>1. PortTypes /\ UNCHANGED <<tables, said, listeners>> /\ started' = started \cup {t}
  BY DEF TraderStarts, TablesInv
<1>2. PICK ends \in InOrder(mine) :
        connectors' = connectors \o [i \in DOMAIN ends |-> Connector(t, xport[ends[i]], own[ends[i]])]
  BY DEF TraderStarts
<1>3. /\ Cardinality(mine) \in Nat /\ DOMAIN ends = 1..Cardinality(mine)
      /\ \A i \in DOMAIN ends : ends[i] \in Ends
  BY SequencedEnds
<1> HIDE DEF mine
<1>4. [i \in DOMAIN ends |-> Connector(t, xport[ends[i]], own[ends[i]])]
        \in [1..Cardinality(mine) -> AConnector]
  BY <1>1, <1>3 DEF PortTypes, AConnector, Connector, ConnectorStates
<1>5. connectors' \in Seq(AConnector)
  BY <1>1, <1>2, <1>3, <1>4, JoinedSeq DEF PortTypes
<1>6. PortTypes'
  BY <1>1, <1>5 DEF PortTypes, tables, said
<1> QED BY <1>1, <1>6, TablesKept

\* An attempt puts its connector at a listener that is to accept it, or makes
\* it hang or try again or give up, as it does when its bind() fails.
LEMMA AttemptEffect ==
  ASSUME PortTypes, NEW i \in DOMAIN connectors, Attempt(i) \/ BindFails(i)
  PROVE  /\ UNCHANGED <<started, tables, said, listeners>>
         /\ connectors[i].state = "trying"
         /\ \E c \in AConnector :
              /\ connectors' = [connectors EXCEPT ![i] = c]
              /\ c.port = connectors[i].port
              /\ \/ /\ c.state = "queued" /\ c.at \in DOMAIN listeners
                    /\ listeners[c.at].state = "open" /\ listeners[c.at].port = c.port
                 \/ c.state \in {"hanging", "trying", "failed"} /\ c.at = connectors[i].at
<1> DEFINE c == connectors[i]
<1>1. c \in AConnector
  BY DEF PortTypes
<1>2. \/ \E l \in DOMAIN listeners : /\ listeners[l].state = "open" /\ listeners[l].port = c.port
                                     /\ connectors' = [connectors EXCEPT ![i] = [c EXCEPT !.state = "queued", !.at = l]]
      \/ \E n \in {c.tries, c.tries + 1}, s \in {"hanging", "trying", "failed"} :
           connectors' = [connectors EXCEPT ![i] = [c EXCEPT !.tries = n, !.state = s]]
  <2>1. CASE BindFails(i)
    <3>1. connectors' = [connectors EXCEPT ![i] = [c EXCEPT !.tries = c.tries, !.state = "failed"]]
      BY <1>1, <2>1 DEF BindFails, AConnector
    <3> QED BY <3>1
  <2>2. CASE Attempt(i)
    <3>1. CASE \E s \in {"trying", "failed"} :
                 connectors' = [connectors EXCEPT ![i] = [c EXCEPT !.tries = c.tries + 1, !.state = s]]
      BY <3>1
    <3>2. CASE \E l \in DOMAIN listeners :
                 /\ listeners[l].port = c.port /\ listeners[l].state \in {"open", "stuck"}
                 /\ connectors' = [connectors EXCEPT ![i] =
                      IF listeners[l].state = "open" THEN [c EXCEPT !.state = "queued", !.at = l]
                                                     ELSE [c EXCEPT !.state = "hanging"]]
      <4>1. PICK l \in DOMAIN listeners :
                 /\ listeners[l].port = c.port /\ listeners[l].state \in {"open", "stuck"}
                 /\ connectors' = [connectors EXCEPT ![i] =
                      IF listeners[l].state = "open" THEN [c EXCEPT !.state = "queued", !.at = l]
                                                     ELSE [c EXCEPT !.state = "hanging"]]
        BY <3>2
      <4>2. CASE listeners[l].state = "open"
        BY <4>1, <4>2
      <4>3. CASE listeners[l].state # "open"
        <5>1. [c EXCEPT !.state = "hanging"] = [c EXCEPT !.tries = c.tries, !.state = "hanging"]
          BY <1>1 DEF AConnector
        <5>2. connectors' = [connectors EXCEPT ![i] = [c EXCEPT !.tries = c.tries, !.state = "hanging"]]
          BY <4>1, <4>3, <5>1
        <5> QED BY <5>2
      <4> QED BY <4>2, <4>3
    <3> QED BY <2>2, <3>1, <3>2 DEF Attempt, Counted
  <2> QED BY <2>1, <2>2
<1>3. DOMAIN listeners \subseteq Nat
  BY DEF PortTypes
<1>4. ASSUME NEW l \in DOMAIN listeners
      PROVE  LET d == [c EXCEPT !.state = "queued", !.at = l]
             IN  d \in AConnector /\ d.port = c.port /\ d.state = "queued" /\ d.at = l
  BY <1>1, <1>3 DEF AConnector, ConnectorStates
<1>5. ASSUME NEW n \in Nat, NEW s \in {"hanging", "trying", "failed"}
      PROVE  LET d == [c EXCEPT !.tries = n, !.state = s]
             IN  d \in AConnector /\ d.port = c.port /\ d.state = s /\ d.at = c.at
  BY <1>1 DEF AConnector, ConnectorStates
<1>6. {c.tries, c.tries + 1} \subseteq Nat
  BY <1>1 DEF AConnector
<1>7. UNCHANGED <<started, tables, said, listeners>> /\ c.state = "trying"
  BY DEF Attempt, BindFails
<1> HIDE DEF c
<1>8. CASE \E l \in DOMAIN listeners :
             /\ listeners[l].state = "open" /\ listeners[l].port = c.port
             /\ connectors' = [connectors EXCEPT ![i] = [c EXCEPT !.state = "queued", !.at = l]]
  <2>1. PICK l \in DOMAIN listeners :
             /\ listeners[l].state = "open" /\ listeners[l].port = c.port
             /\ connectors' = [connectors EXCEPT ![i] = [c EXCEPT !.state = "queued", !.at = l]]
    BY <1>8
  <2> DEFINE d == [c EXCEPT !.state = "queued", !.at = l]
  <2>2. d \in AConnector /\ d.port = c.port /\ d.state = "queued" /\ d.at = l
    BY <1>4
  <2>3. connectors' = [connectors EXCEPT ![i] = d]
    BY <2>1
  <2> HIDE DEF d
  <2> QED BY <1>7, <2>1, <2>2, <2>3 DEF c
<1>9. CASE \E n \in {c.tries, c.tries + 1}, s \in {"hanging", "trying", "failed"} :
             connectors' = [connectors EXCEPT ![i] = [c EXCEPT !.tries = n, !.state = s]]
  <2>1. PICK n \in {c.tries, c.tries + 1}, s \in {"hanging", "trying", "failed"} :
          connectors' = [connectors EXCEPT ![i] = [c EXCEPT !.tries = n, !.state = s]]
    BY <1>9
  <2> DEFINE d == [c EXCEPT !.tries = n, !.state = s]
  <2>2. d \in AConnector /\ d.port = c.port /\ d.state = s /\ d.at = c.at
    BY <1>5, <1>6
  <2>3. connectors' = [connectors EXCEPT ![i] = d]
    BY <2>1
  <2> HIDE DEF d
  <2>4. d.state \in {"hanging", "trying", "failed"} /\ d.port = c.port /\ d.at = c.at /\ d \in AConnector
    BY <2>2
  <2> QED BY <1>7, <2>3, <2>4 DEF c
<1> QED BY <1>2, <1>8, <1>9 DEF c

\* A break leaves a connector that was connected where it is.
LEMMA BreakOffEffect ==
  ASSUME PortTypes, NEW i \in DOMAIN connectors, BreakOff(i)
  PROVE  /\ UNCHANGED <<started, tables, said, listeners>>
         /\ connectors[i].state \in {"queued", "hanging", "served"}
         /\ \E c \in AConnector :
              /\ connectors' = [connectors EXCEPT ![i] = c]
              /\ c.port = connectors[i].port /\ c.state = "broken" /\ c.at = connectors[i].at
<1> DEFINE d == [connectors[i] EXCEPT !.state = "broken"]
<1>1. connectors[i] \in AConnector
  BY DEF PortTypes
<1>2. d \in AConnector /\ d.port = connectors[i].port /\ d.state = "broken" /\ d.at = connectors[i].at
  BY <1>1 DEF AConnector, ConnectorStates
<1> QED BY <1>2 DEF BreakOff

\* A connector tries, or its connection breaks: no table changes.
LEMMA AttemptTables ==
  ASSUME TablesInv, NEW i \in DOMAIN connectors, BindFails(i) \/ Attempt(i) \/ BreakOff(i)
  PROVE  TablesInv'
<1>1. PortTypes /\ UNCHANGED <<started, tables, said, listeners>>
  BY DEF BindFails, Attempt, BreakOff, TablesInv
<1>2. PICK c \in AConnector : connectors' = [connectors EXCEPT ![i] = c]
  BY <1>1, AttemptEffect, BreakOffEffect
<1>3. connectors' \in Seq(AConnector)
  BY <1>1, <1>2, ReplacedSeq DEF PortTypes
<1>4. PortTypes'
  BY <1>1, <1>3 DEF PortTypes, tables, said
<1> QED BY <1>1, <1>4, TablesKept

\* A listener changes its state and nothing else.
LEMMA ListenerEffect ==
  ASSUME PortTypes, NEW l \in DOMAIN listeners, NEW s \in ListenerStates,
         listeners' = [listeners EXCEPT ![l].state = s]
  PROVE  /\ listeners' \in Seq(AListener) /\ DOMAIN listeners' = DOMAIN listeners
         /\ \A k \in DOMAIN listeners : /\ listeners'[k].port = listeners[k].port
                                        /\ k # l => listeners'[k] = listeners[k]
         /\ listeners'[l].state = s
<1> DEFINE d == [listeners[l] EXCEPT !.state = s]
<1>1. listeners \in Seq(AListener) /\ listeners[l] \in AListener
  BY DEF PortTypes
<1>2. d \in AListener /\ d.port = listeners[l].port /\ d.state = s
  BY <1>1 DEF AListener
<1>3. listeners' = [listeners EXCEPT ![l] = d]
  OBVIOUS
<1> HIDE DEF d
<1> QED BY <1>1, <1>2, <1>3, ReplacedSeq

\* A listener is done with the connectors at it: they leave.
LEMMA LeavesEffect ==
  ASSUME PortTypes, NEW l \in DOMAIN listeners, NEW s \in ListenerStates, NEW i,
         NEW now \in ConnectorStates, NEW left \in ConnectorStates, Leaves(l, s, i, now, left)
  PROVE  /\ connectors' \in Seq(AConnector) /\ DOMAIN connectors' = DOMAIN connectors
         /\ \A j \in DOMAIN connectors :
              /\ connectors[j].at # l => connectors'[j] = connectors[j]
              /\ connectors'[j].port = connectors[j].port
              /\ connectors[j].at = l =>
                   connectors'[j].at = 0 /\ connectors'[j].state = (IF j = i THEN now ELSE left)
<1>1. connectors' = [j \in DOMAIN connectors |->
        IF connectors[j].at # l THEN connectors[j]
        ELSE [connectors[j] EXCEPT !.at = 0, !.state = IF j = i THEN now ELSE left]]
  BY DEF Leaves
<1>2. ASSUME NEW j \in DOMAIN connectors
      PROVE  /\ connectors'[j] \in AConnector
             /\ connectors[j].at # l => connectors'[j] = connectors[j]
             /\ connectors'[j].port = connectors[j].port
             /\ connectors[j].at = l =>
                  connectors'[j].at = 0 /\ connectors'[j].state = (IF j = i THEN now ELSE left)
  <2>1. connectors[j] \in AConnector
    BY DEF PortTypes
  <2>2. PICK z \in ConnectorStates : z = IF j = i THEN now ELSE left
    OBVIOUS
  <2>3. connectors'[j] = IF connectors[j].at # l THEN connectors[j]
                         ELSE [connectors[j] EXCEPT !.at = 0, !.state = z]
    BY <1>1, <2>2
  <2>4. CASE connectors[j].at # l
    BY <2>1, <2>3, <2>4
  <2>5. CASE connectors[j].at = l
    <3> DEFINE d == [connectors[j] EXCEPT !.at = 0, !.state = z]
    <3>1. d \in AConnector /\ d.port = connectors[j].port /\ d.at = 0 /\ d.state = z
      BY <2>1 DEF AConnector
    <3>2. connectors'[j] = d
      BY <2>3, <2>5
    <3> HIDE DEF d
    <3> QED BY <2>2, <2>5, <3>1, <3>2
  <2> QED BY <2>4, <2>5
<1>3. DOMAIN connectors' = DOMAIN connectors /\ connectors' = [j \in DOMAIN connectors |-> connectors'[j]]
  BY <1>1
<1>4. DOMAIN connectors = 1..Len(connectors) /\ Len(connectors) \in Nat
  BY DEF PortTypes
<1>5. connectors' \in [1..Len(connectors) -> AConnector]
  BY <1>2, <1>3, <1>4
<1>6. connectors' \in Seq(AConnector)
  BY <1>4, <1>5, SeqOf
<1> QED BY <1>2, <1>3, <1>6

\* A listener serves a connector, or the end of its file for ever.
LEMMA ServeEffect ==
  ASSUME NEW l, Serve(l)
  PROVE  \E i \in DOMAIN connectors, s \in {"ended", "stuck"}, now \in {"served", "broken"},
            left \in {"reset", "hanging"} :
           connectors[i].at = l /\ Leaves(l, s, i, now, left)
BY DEF Serve

\* A listener starts, fails or serves: no table changes.
LEMMA ServeTables ==
  ASSUME TablesInv, NEW l \in DOMAIN listeners, Listen(l) \/ AcceptFails(l) \/ Serve(l)
  PROVE  TablesInv'
<1>1. PortTypes /\ UNCHANGED <<started, tables, said>>
  BY DEF Listen, AcceptFails, Serve, TablesInv
<1>2. listeners' \in Seq(AListener) /\ connectors' \in Seq(AConnector)
  <2>1. ASSUME NEW s \in ListenerStates, NEW i, NEW now \in ConnectorStates, NEW left \in ConnectorStates,
               Leaves(l, s, i, now, left)
        PROVE  listeners' \in Seq(AListener) /\ connectors' \in Seq(AConnector)
    <3>1. listeners' = [listeners EXCEPT ![l].state = s]
      BY <2>1 DEF Leaves
    <3> QED BY <1>1, <2>1, <3>1, ListenerEffect, LeavesEffect
  <2>2. CASE Listen(l)
    <3>1. PICK s \in ListenerStates : listeners' = [listeners EXCEPT ![l].state = s]
      BY <2>2 DEF Listen, ListenerStates
    <3>2. connectors' = connectors
      BY <2>2 DEF Listen
    <3> QED BY <1>1, <3>1, <3>2, ListenerEffect DEF PortTypes
  <2>3. CASE AcceptFails(l)
    BY <2>1, <2>3 DEF AcceptFails, ListenerStates, ConnectorStates
  <2>4. CASE Serve(l)
    BY <2>1, <2>4, ServeEffect DEF ListenerStates, ConnectorStates
  <2> QED BY <2>2, <2>3, <2>4
<1>3. PortTypes'
  BY <1>1, <1>2 DEF PortTypes, tables, said
<1> QED BY <1>1, <1>3, TablesKept

\* A move is agreed: it is about its slot, and no other is about that trader.
LEMMA AgreeTables ==
  ASSUME TablesInv, Agree
  PROVE  TablesInv'
<1>1. PICK x \in Ends, b \in fresh \cup {eport[y] : y \in Ends}, d \in NewOwn \cup {NoWord} :
        /\ {exchanger, x[1]} \subseteq started
        /\ \A m \in Pending : m.t # x[1]
        /\ b \in fresh \/ b = eport[x]
        /\ LET m == [t |-> x[1], a |-> eport[x], b |-> b, c |-> IF d = NoWord THEN d ELSE own[x], d |-> d]
           IN  esay' = esay \cup {m} /\ tsay' = tsay \cup {m}
        /\ fresh' = fresh \ {b}
  BY DEF Agree, Pending
<1>0. PICK m : m = [t |-> x[1], a |-> eport[x], b |-> b,
                    c |-> IF d = NoWord THEN d ELSE own[x], d |-> d]
  OBVIOUS
<1>2. UNCHANGED <<started, eport, xport, own, listeners, connectors>>
  BY DEF Agree, tables
<1>3. PortTypes /\ Unique /\ Agreed /\ TablesAgree
  BY DEF TablesInv
<1>4. /\ b \in Nat /\ eport[x] \in Nat /\ own[x] \in Nat /\ x[1] \in Connecting
      /\ d \in Nat \cup {NoWord} /\ NoWord \notin Nat
  BY <1>1, <1>3, PortsAssumption, TraderIsNot DEF PortTypes, Connecting, NoWord
<1>5. /\ m \in Move /\ m.t = x[1] /\ m.a = eport[x] /\ m.b = b
      /\ m.c # NoWord => own[x] = m.c
  BY <1>0, <1>4 DEF Move
<1>6. esay' = esay \cup {m} /\ tsay' = tsay \cup {m} /\ Pending' = Pending \cup {m}
  BY <1>0, <1>1 DEF Pending
<1>7. PortTypes'
  BY <1>1, <1>2, <1>3, <1>5, <1>6 DEF PortTypes
<1>8. Unique'
  BY <1>1, <1>2, <1>3 DEF Unique
<1>9. TablesAgree'
  BY <1>2, <1>3, <1>6 DEF TablesAgree
<1>10. \A n \in Pending : n # m /\ n.t # m.t /\ n.b # b
  <2>1. ASSUME NEW n \in Pending PROVE n.b # b
    <3>1. PICK y \in Ends : About(n, y)
      BY <1>3 DEF Agreed
    <3>2. y # x /\ n.b # eport[x]
      BY <1>1, <3>1 DEF About
    <3>3. n.b \notin fresh
      BY <1>3 DEF Agreed
    <3> QED BY <1>1, <3>2, <3>3
  <2> QED BY <1>1, <1>5, <2>1
<1>11. \A n \in Pending, y \in Ends : About(n, y) => About(n, y)'
  BY <1>2, <1>6, <1>10 DEF About
<1>12. About(m, x)'
  <2>1. \A y \in Ends : y[1] = m.t => xport[y] = eport[y]
    BY <1>1, <1>3, <1>5 DEF TablesAgree, Pending
  <2>2. \A y \in Ends : y # x => b # eport[y] /\ b # xport[y]
    BY <1>1, <1>3 DEF Unique
  <2>3. xport[x] = eport[x]
    BY <1>5, <2>1
  <2> QED BY <1>2, <1>5, <1>6, <2>1, <2>2, <2>3 DEF About
<1>13. Agreed'
  <2>1. exchanger \in started /\ m.t \in started /\ m.b \notin fresh'
    BY <1>1, <1>5
  <2>2. \A n \in Pending : exchanger \in started /\ n.t \in started /\ n.b \notin fresh'
    BY <1>1, <1>3 DEF Agreed
  <2>3. \A n \in Pending : \E y \in Ends : About(n, y)'
    BY <1>3, <1>11 DEF Agreed
  <2>4. \A n, o \in Pending : n # o => n.t # o.t /\ n.b # o.b
    BY <1>3 DEF Agreed
  <2> QED BY <1>2, <1>5, <1>6, <1>10, <1>12, <2>1, <2>2, <2>3, <2>4 DEF Agreed
<1> QED BY <1>7, <1>8, <1>9, <1>13 DEF TablesInv

\* The slots with the port of a move are one slot.
LEMMA OneSlot ==
  ASSUME TablesInv, NEW m \in Pending, NEW x \in Ends, About(m, x)
  PROVE  /\ m \in esay => Slots(m.a) = {x}
         /\ m \in tsay => Match(m) = {x}
<1>1. \A y \in Ends : y # x => eport[x] # eport[y] /\ xport[x] # xport[y]
  BY DEF TablesInv, Unique
<1> QED BY <1>1 DEF About, Slots, Match

\* The exchanger's operator types a move: the one slot of port A gets port B.
LEMMA ExchangerSetsTables ==
  ASSUME TablesInv, NEW m \in esay, ExchangerSets(m)
  PROVE  TablesInv'
<1>1. PortTypes /\ Unique /\ Agreed /\ TablesAgree /\ m \in Move /\ m \in Pending
  BY DEF TablesInv, PortTypes, Pending
<1>2. PICK x \in Ends : About(m, x)
  BY <1>1 DEF Agreed
<1>3. Slots(m.a) = {x}
  BY <1>1, <1>2, OneSlot
<1>4. eport' = [eport EXCEPT ![x] = m.b]
  BY <1>1, <1>3 DEF ExchangerSets, PortTypes
<1>5. /\ listeners' = listeners \o [i \in 1..Cardinality({x}) |-> Listener(m.b)]
      /\ UNCHANGED <<started, xport, own, fresh, tsay, connectors>> /\ esay' = esay \ {m}
  BY <1>3 DEF ExchangerSets
<1>6. m.b \in Nat /\ Cardinality({x}) \in Nat
  BY <1>1, FS_Singleton DEF Move
<1>7. listeners' \in Seq(AListener)
  <2>1. [i \in 1..Cardinality({x}) |-> Listener(m.b)] \in [1..Cardinality({x}) -> AListener]
    BY <1>6 DEF AListener, ListenerStates, Listener
  <2> QED BY <1>1, <1>5, <1>6, <2>1, JoinedSeq DEF PortTypes
<1>8. PortTypes'
  BY <1>1, <1>4, <1>5, <1>6, <1>7 DEF PortTypes
<1>9. eport'[x] = m.b /\ \A y \in Ends : y # x => eport'[y] = eport[y]
  BY <1>1, <1>4 DEF PortTypes
<1>10. Unique'
  BY <1>1, <1>2, <1>5, <1>9 DEF Unique, Agreed, About
<1>11. \A n \in Pending : n # m => n.t # m.t /\ n.b # m.b
  BY <1>1 DEF Agreed
<1>12. Pending' = IF m \in tsay THEN Pending ELSE Pending \ {m}
  BY <1>5 DEF Pending
<1>13. ASSUME NEW n \in Pending', NEW y \in Ends, About(n, y) PROVE About(n, y)'
  <2>1. CASE n = m
    <3>1. y = x
      <4>1. eport[y] = m.a /\ eport[x] = m.a
        BY <1>2, <1>13, <2>1 DEF About
      <4> QED BY <1>1, <4>1 DEF Unique
    <3>2. m \notin esay'
      BY <1>5
    <3> QED BY <1>5, <1>9, <1>13, <2>1, <3>1, <3>2 DEF About
  <2>2. CASE n # m
    <3>1. y # x /\ n.b # m.b /\ (n \in esay' <=> n \in esay) /\ n.t # x[1]
      BY <1>2, <1>5, <1>11, <1>12, <1>13, <2>2 DEF About
    <3> QED BY <1>5, <1>9, <1>13, <3>1 DEF About
  <2> QED BY <2>1, <2>2
<1>14. Agreed'
  <2>1. \A n \in Pending' : n \in Pending
    BY <1>12
  <2> QED BY <1>1, <1>5, <1>13, <2>1 DEF Agreed
<1>15. TablesAgree'
  <2>1. ASSUME NEW y \in Ends, \A n \in Pending' : n.t # y[1] PROVE xport'[y] = eport'[y]
    <3>1. CASE y = x
      <4>1. m \notin tsay
        BY <1>2, <1>5, <2>1, <3>1 DEF About, Pending
      <4> QED BY <1>2, <1>5, <1>9, <3>1, <4>1 DEF About
    <3>2. CASE y # x /\ y[1] = m.t
      BY <1>2, <1>5, <1>9, <3>2 DEF About
    <3>3. CASE y[1] # m.t
      <4>1. \A n \in Pending : n.t # y[1]
        BY <1>12, <2>1, <3>3
      <4> QED BY <1>1, <1>2, <1>5, <1>9, <3>3, <4>1 DEF TablesAgree, About, Pending
    <3> QED BY <1>2, <3>1, <3>2, <3>3
  <2> QED BY <2>1 DEF TablesAgree, Pending
<1> QED BY <1>8, <1>10, <1>14, <1>15 DEF TablesInv

\* A set command of a trader is refused, or done as it was agreed.
LEMMA TraderSetsEffect ==
  ASSUME TablesInv, NEW m \in tsay, NEW c, c = m.c \/ m.c # NoWord, TraderSets(m, c),
         NEW x \in Ends, About(m, x)
  PROVE  /\ UNCHANGED <<started, eport, fresh, esay, listeners>>
         /\ \/ UNCHANGED <<xport, own, tsay, connectors>>
            \/ /\ tsay' = tsay \ {m}
               /\ xport' = [xport EXCEPT ![x] = m.b]
               /\ own' \in [Ends -> Nat] /\ \A y \in Ends : y # x => own'[y] = own[y]
               /\ connectors' = connectors \o [i \in 1..1 |-> Connector(m.t, m.b, own'[x])]
<1> DEFINE done == IF c = NoWord THEN Match(m)
                   ELSE {y \in Match(m) : \A z \in Match(m) : z[2] <= y[2] => own[z] = c}
<1>1. PortTypes /\ m \in Move /\ m \in Pending
  BY DEF TablesInv, PortTypes, Pending
<1>2. Match(m) = {x}
  BY <1>1, OneSlot
<1>3. /\ tsay' = IF done = Match(m) THEN tsay \ {m} ELSE tsay
      /\ own' = [y \in Ends |-> IF y \in done THEN OwnPort(m, c, y) ELSE own[y]]
      /\ xport' = [y \in Ends |-> IF y \in done THEN m.b ELSE xport[y]]
      /\ \E ends \in InOrder(done) :
           connectors' = connectors \o [i \in DOMAIN ends |-> Connector(m.t, m.b, own'[ends[i]])]
      /\ UNCHANGED <<started, eport, fresh, esay, listeners>>
  BY DEF TraderSets, AtOnce
<1>4. PICK ends \in InOrder(done) :
        connectors' = connectors \o [i \in DOMAIN ends |-> Connector(m.t, m.b, own'[ends[i]])]
  BY <1>3
<1>5. done = {} \/ done = {x}
  BY <1>2
<1> HIDE DEF done
<1>6. done \in SUBSET Ends
  BY <1>5
<1>7. /\ DOMAIN ends = 1..Cardinality(done)
      /\ \A i \in DOMAIN ends : ends[i] \in done
  BY <1>6, SequencedEnds
<1>8. CASE done = {}
  <2>1. Cardinality(done) = 0
    BY <1>8, FS_EmptySet
  <2>2. DOMAIN ends = {}
    BY <1>7, <2>1
  <2>3. connectors' = connectors
    <3>1. [i \in DOMAIN ends |-> Connector(m.t, m.b, own'[ends[i]])] = <<>>
      BY <2>2
    <3> QED BY <1>1, <1>4, <3>1 DEF PortTypes
  <2>4. own' = own /\ xport' = xport
    BY <1>1, <1>3, <1>8 DEF PortTypes
  <2> QED BY <1>2, <1>3, <1>8, <2>3, <2>4
<1>9. CASE done = {x}
  <2>1. Cardinality(done) = 1
    BY <1>9, FS_Singleton
  <2>2. DOMAIN ends = 1..1 /\ \A i \in 1..1 : ends[i] = x
    BY <1>7, <1>9, <2>1
  <2>3. connectors' = connectors \o [i \in 1..1 |-> Connector(m.t, m.b, own'[x])]
    BY <1>4, <2>2
  <2>4. xport' = [xport EXCEPT ![x] = m.b] /\ tsay' = tsay \ {m}
    BY <1>1, <1>2, <1>3, <1>9 DEF PortTypes
  <2>5. OwnPort(m, c, x) \in Nat
    <3>1. own[x] \in Nat /\ m.d \in Nat \cup {NoWord}
      BY <1>1 DEF PortTypes, Move
    <3>2. c # NoWord => m.d # NoWord
      BY <1>1 DEF Move
    <3> QED BY <3>1, <3>2 DEF OwnPort
  <2>6. own' \in [Ends -> Nat] /\ \A y \in Ends : y # x => own'[y] = own[y]
    BY <1>1, <1>3, <1>9, <2>5 DEF PortTypes
  <2> QED BY <1>3, <2>3, <2>4, <2>6
<1> QED BY <1>5, <1>8, <1>9

\* A trader's operator types a move, rightly or with a typing error.
LEMMA TraderSetsTables ==
  ASSUME TablesInv, NEW m \in tsay, NEW c, c = m.c \/ m.c # NoWord, TraderSets(m, c)
  PROVE  TablesInv'
<1>1. PortTypes /\ Unique /\ Agreed /\ TablesAgree /\ m \in Move /\ m \in Pending
  BY DEF TablesInv, PortTypes, Pending
<1>2. PICK x \in Ends : About(m, x)
  BY <1>1 DEF Agreed
<1>3. UNCHANGED <<started, eport, fresh, esay, listeners>>
  BY <1>2, TraderSetsEffect
<1>4. CASE UNCHANGED <<xport, own, tsay, connectors>>
  <2>1. UNCHANGED <<fresh, esay, tsay, eport, xport, own>> /\ PortTypes'
    BY <1>1, <1>3, <1>4 DEF PortTypes
  <2>2. \A n, y : About(n, y)' = About(n, y)
    BY <2>1 DEF About
  <2>3. Unique' /\ TablesAgree'
    BY <1>1, <2>1 DEF Unique, TablesAgree
  <2>4. Agreed'
    BY <1>1, <1>3, <2>1, <2>2 DEF Agreed, Pending
  <2> QED BY <2>1, <2>3, <2>4 DEF TablesInv
<1>5. CASE /\ tsay' = tsay \ {m}
           /\ xport' = [xport EXCEPT ![x] = m.b]
           /\ own' \in [Ends -> Nat] /\ \A y \in Ends : y # x => own'[y] = own[y]
           /\ connectors' = connectors \o [i \in 1..1 |-> Connector(m.t, m.b, own'[x])]
  <2>1. m.b \in Nat /\ m.t \in Connecting
    BY <1>1 DEF Move
  <2>2. connectors' \in Seq(AConnector)
    <3>1. [i \in 1..1 |-> Connector(m.t, m.b, own'[x])] \in [1..1 -> AConnector]
      BY <1>5, <2>1 DEF AConnector, Connector, ConnectorStates
    <3> QED BY <1>1, <1>5, <3>1, JoinedSeq DEF PortTypes
  <2>3. PortTypes'
    BY <1>1, <1>3, <1>5, <2>1, <2>2 DEF PortTypes
  <2>4. xport'[x] = m.b /\ \A y \in Ends : y # x => xport'[y] = xport[y] /\ own'[y] = own[y]
    BY <1>1, <1>5 DEF PortTypes
  <2>5. Unique'
    BY <1>1, <1>2, <1>3, <2>4 DEF Unique, Agreed, About
  <2>6. \A n \in Pending : n # m => n.t # m.t /\ n.b # m.b
    BY <1>1 DEF Agreed
  <2>7. Pending' = IF m \in esay THEN Pending ELSE Pending \ {m}
    BY <1>3, <1>5 DEF Pending
  <2>8. ASSUME NEW n \in Pending', NEW y \in Ends, About(n, y) PROVE About(n, y)'
    <3>1. CASE n = m
      <4>1. y = x
        <5>1. xport[y] = m.a /\ xport[x] = m.a
          BY <1>2, <2>8, <3>1 DEF About
        <5> QED BY <1>1, <5>1 DEF Unique
      <4>2. m \notin tsay'
        BY <1>5
      <4> QED BY <1>3, <2>4, <2>8, <3>1, <4>1, <4>2 DEF About
    <3>2. CASE n # m
      <4>1. y # x /\ n.b # m.b /\ (n \in tsay' <=> n \in tsay) /\ n.t # x[1]
        BY <1>2, <1>5, <2>6, <2>7, <2>8, <3>2 DEF About
      <4> QED BY <1>3, <2>4, <2>8, <4>1 DEF About
    <3> QED BY <3>1, <3>2
  <2>9. Agreed'
    <3>1. \A n \in Pending' : n \in Pending
      BY <2>7
    <3> QED BY <1>1, <1>3, <2>8, <3>1 DEF Agreed
  <2>10. TablesAgree'
    <3>1. ASSUME NEW y \in Ends, \A n \in Pending' : n.t # y[1] PROVE xport'[y] = eport'[y]
      <4>1. CASE y = x
        <5>1. m \notin esay
          BY <1>2, <1>3, <3>1, <4>1 DEF About, Pending
        <5> QED BY <1>2, <1>3, <2>4, <4>1, <5>1 DEF About
      <4>2. CASE y # x /\ y[1] = m.t
        BY <1>2, <1>3, <2>4, <4>2 DEF About
      <4>3. CASE y[1] # m.t
        <5>1. \A n \in Pending : n.t # y[1]
          BY <2>7, <3>1, <4>3
        <5> QED BY <1>1, <1>2, <1>3, <2>4, <4>3, <5>1 DEF TablesAgree, About, Pending
      <4> QED BY <1>2, <4>1, <4>2, <4>3
    <3> QED BY <3>1 DEF TablesAgree, Pending
  <2> QED BY <2>3, <2>5, <2>9, <2>10 DEF TablesInv
<1> QED BY <1>2, <1>4, <1>5, TraderSetsEffect

\* Every step keeps the tables in order.
LEMMA NextTables == TablesInv /\ [PortsNext]_portVars => TablesInv'
<1> SUFFICES ASSUME TablesInv, [PortsNext]_portVars PROVE TablesInv'
  OBVIOUS
<1>1. CASE ExchangerStarts \/ Agree
  BY <1>1, ExchangerStartsTables, AgreeTables
<1>2. CASE \E t \in Connecting : TraderStarts(t)
  BY <1>2, TraderStartsTables
<1>3. CASE \E m \in esay : ExchangerSets(m)
  BY <1>3, ExchangerSetsTables
<1>4. CASE \E m \in tsay : \E c \in {m.c} \cup (IF m.c = NoWord THEN {} ELSE {0}) : TraderSets(m, c)
  BY <1>4, TraderSetsTables
<1>5. CASE \E i \in DOMAIN connectors : BindFails(i) \/ Attempt(i) \/ BreakOff(i)
  BY <1>5, AttemptTables
<1>6. CASE \E l \in DOMAIN listeners : Listen(l) \/ AcceptFails(l) \/ Serve(l)
  BY <1>6, ServeTables
<1>7. CASE UNCHANGED portVars
  <2>1. PortTypes' /\ UNCHANGED <<tables, said, started>>
    BY <1>7 DEF portVars, TablesInv, PortTypes, tables, said
  <2> QED BY <2>1, TablesKept
<1> QED BY <1>1, <1>2, <1>3, <1>4, <1>5, <1>6, <1>7 DEF PortsNext

\* The tables are in order in every state.
LEMMA AlwaysTables == PortsSpec => []TablesInv
BY InitTables, NextTables, PTL DEF PortsSpec

\* In every reachable state the exchanger's table and a trader's name the same
\* ports, unless a move of that trader has still to be typed at one of the two.
THEOREM SameTables == PortsSpec => []TablesAgree
<1>1. TablesInv => TablesAgree
  BY DEF TablesInv
<1> QED BY <1>1, AlwaysTables, PTL

-----------------------------------------------------------------------------
(* Connectors and listeners.                                               *)

\* No connector has a port that is still to be given out.
GivenOut == \A i \in DOMAIN connectors : connectors[i].port \notin fresh

\* No connector has the port of a trader that has not started.
NotYet ==
  \A i \in DOMAIN connectors : \A x \in Ends : x[1] \notin started => connectors[i].port # xport[x]

\* Of the connectors with a port only the last one may be alive.
OnePerPort ==
  \A i, j \in DOMAIN connectors : i < j /\ connectors[i].port = connectors[j].port => Dead(i)

\* When a trader's operator types a move, all connectors with its port are dead.
Cleared ==
  \A m \in tsay : \A i \in DOMAIN connectors : connectors[i].port = m.b => Dead(i)

\* A connector waits at a listener on its port, which has served nobody yet.
AtTheDoor ==
  \A i \in DOMAIN connectors : connectors[i].at # 0 =>
    /\ connectors[i].at \in DOMAIN listeners
    /\ listeners[connectors[i].at].port = connectors[i].port
    /\ listeners[connectors[i].at].state = "open"
    /\ connectors[i].state \in {"queued", "broken"}

\* Before the exchanger starts nothing was moved.
Before ==
  exchanger \notin started =>
    /\ Pending = {} /\ listeners = <<>>
    /\ \A i \in DOMAIN connectors : \E x \in Ends : connectors[i].port = eport[x]

\* Once it has started, every connector that tries has a listener that waits,
\* or a move to be typed that starts one.
Heard ==
  exchanger \in started =>
    \A i \in DOMAIN connectors : connectors[i].state = "trying" =>
      Awaits(connectors[i].port) \/ \E m \in esay : m.b = connectors[i].port

\* A listener waits for every connector that is still to be started.
Prepared ==
  exchanger \in started =>
    /\ \A x \in Ends : x[1] \notin started => Awaits(xport[x])
    /\ \A m \in tsay \ esay : Awaits(m.b)

LinksInv ==
  /\ GivenOut /\ NotYet /\ OnePerPort /\ Cleared /\ AtTheDoor /\ NoneTurnedAway
  /\ Before /\ Heard /\ Prepared

\* A step starts connectors with ports of P, each with one of its own.
Newcomers(P) ==
  /\ \A i \in DOMAIN connectors : i \in DOMAIN connectors' /\ connectors'[i] = connectors[i]
  /\ \A j \in DOMAIN connectors' \ DOMAIN connectors :
       /\ connectors'[j].state = "trying" /\ connectors'[j].at = 0 /\ connectors'[j].port \in P
       /\ \A i \in DOMAIN connectors : i < j
       /\ \A k \in DOMAIN connectors' \ DOMAIN connectors :
            k # j => connectors'[k].port # connectors'[j].port

\* There are no connectors and no listeners to start with.
LEMMA InitLinks == PortsInit => LinksInv
<1> SUFFICES ASSUME PortsInit PROVE LinksInv
  OBVIOUS
<1>1. started = {} /\ esay = {} /\ tsay = {} /\ listeners = <<>> /\ connectors = <<>>
  BY DEF PortsInit
<1> QED BY <1>1 DEF LinksInv, GivenOut, NotYet, OnePerPort, Cleared, AtTheDoor, NoneTurnedAway,
  Before, Heard, Prepared, Pending

\* Connectors appended are newcomers.
LEMMA NewcomersNew ==
  ASSUME PortTypes, NEW n \in Nat, NEW f \in [1..n -> AConnector], NEW P,
         connectors' = connectors \o f,
         \A k \in 1..n : f[k].state = "trying" /\ f[k].at = 0 /\ f[k].port \in P,
         \A j, k \in 1..n : j # k => f[j].port # f[k].port
  PROVE  Newcomers(P)
<1>1. connectors \in Seq(AConnector) /\ Len(connectors) \in Nat /\ DOMAIN connectors = 1..Len(connectors)
  BY DEF PortTypes
<1>2. /\ \A i \in DOMAIN connectors : i \in DOMAIN connectors' /\ connectors'[i] = connectors[i]
      /\ \A i \in DOMAIN connectors' \ DOMAIN connectors :
           i - Len(connectors) \in 1..n /\ connectors'[i] = f[i - Len(connectors)]
      /\ connectors' \in Seq(AConnector)
  <2>1. connectors' \in Seq(AConnector) /\ Lengthens(connectors', connectors, n, f)
    BY <1>1, JoinedSeq
  <2> QED BY <2>1 DEF Lengthens
<1>3. DOMAIN connectors' \subseteq Nat
  BY <1>2
<1>4. ASSUME NEW j \in DOMAIN connectors' \ DOMAIN connectors,
             NEW k \in DOMAIN connectors' \ DOMAIN connectors, k # j
      PROVE  connectors'[k].port # connectors'[j].port
  <2>1. j - Len(connectors) # k - Len(connectors)
    BY <1>1, <1>3, <1>4
  <2> QED BY <1>2, <2>1
<1>5. ASSUME NEW j \in DOMAIN connectors' \ DOMAIN connectors, NEW i \in DOMAIN connectors
      PROVE  i < j
  <2>1. j \in Nat /\ j - Len(connectors) >= 1
    BY <1>2, <1>3
  <2> QED BY <1>1, <2>1
<1> QED BY <1>2, <1>4, <1>5 DEF Newcomers

\* A trader that starts connects all its ends.
LEMMA TraderStartsEffect ==
  ASSUME PortTypes, Unique, NEW t \in Connecting, TraderStarts(t)
  PROVE  Newcomers({xport[x] : x \in {y \in Ends : y[1] = t}})
<1> DEFINE mine == {x \in Ends : x[1] = t}
           Ports == {xport[x] : x \in mine}
<1>1. PICK ends \in InOrder(mine) :
        connectors' = connectors \o [i \in DOMAIN ends |-> Connector(t, xport[ends[i]], own[ends[i]])]
  BY DEF TraderStarts
<1>2. /\ Cardinality(mine) \in Nat /\ DOMAIN ends = 1..Cardinality(mine)
      /\ \A i \in DOMAIN ends : ends[i] \in mine
      /\ \A i, j \in DOMAIN ends : i # j => ends[i] # ends[j]
  BY SequencedEnds
<1> DEFINE n == Cardinality(mine)
           f == [i \in 1..n |-> Connector(t, xport[ends[i]], own[ends[i]])]
<1>3. mine \subseteq Ends
  OBVIOUS
<1> HIDE DEF mine
<1>4. f \in [1..n -> AConnector]
  BY <1>2, <1>3 DEF PortTypes, AConnector, Connector, ConnectorStates
<1>5. \A k \in 1..n : f[k].state = "trying" /\ f[k].at = 0 /\ f[k].port = xport[ends[k]]
  BY DEF Connector
<1>6. \A k \in 1..n : f[k].port \in Ports
  BY <1>2, <1>5
<1>7. \A j, k \in 1..n : j # k => f[j].port # f[k].port
  BY <1>2, <1>3, <1>5 DEF Unique
<1>8. connectors' = connectors \o f
  BY <1>1, <1>2
<1>9. n \in Nat
  BY <1>2
<1> HIDE DEF f, n, Ports
<1>10. Newcomers(Ports)
  BY <1>4, <1>5, <1>6, <1>7, <1>8, <1>9, NewcomersNew
<1> QED BY <1>10 DEF Ports, mine

\* Newcomers fit in if all that have their ports are dead.
LEMMA NewcomersFit ==
  ASSUME NEW P, Newcomers(P), OnePerPort, AtTheDoor, NoneTurnedAway,
         PortTypes, PortTypes', listeners' = listeners,
         \A i \in DOMAIN connectors : connectors[i].port \in P => Dead(i)
  PROVE  /\ OnePerPort' /\ AtTheDoor' /\ NoneTurnedAway'
         /\ \A i \in DOMAIN connectors : Dead(i)' <=> Dead(i)
<1>1. \A i \in DOMAIN connectors : Dead(i)' <=> Dead(i)
  BY DEF Newcomers, Dead
<1>2. AtTheDoor'
  BY DEF AtTheDoor, Newcomers
<1>3. NoneTurnedAway'
  BY DEF NoneTurnedAway, Newcomers
<1>4. ASSUME NEW i \in DOMAIN connectors', NEW j \in DOMAIN connectors', i < j,
             connectors'[i].port = connectors'[j].port
      PROVE  Dead(i)'
  <2>0. DOMAIN connectors' \subseteq Nat
    BY DEF PortTypes
  <2>1. CASE i \in DOMAIN connectors /\ j \in DOMAIN connectors
    BY <1>1, <1>4, <2>1 DEF OnePerPort, Newcomers
  <2>2. CASE i \in DOMAIN connectors /\ j \notin DOMAIN connectors
    BY <1>1, <1>4, <2>2 DEF Newcomers
  <2>3. CASE i \notin DOMAIN connectors /\ j \in DOMAIN connectors
    BY <1>4, <2>0, <2>3 DEF Newcomers
  <2>4. CASE i \notin DOMAIN connectors /\ j \notin DOMAIN connectors
    BY <1>4, <2>0, <2>4 DEF Newcomers
  <2> QED BY <2>1, <2>2, <2>3, <2>4
<1>5. OnePerPort'
  BY <1>4 DEF OnePerPort
<1> QED BY <1>1, <1>2, <1>3, <1>5

\* The exchanger starts with a listener on every port of its table.
LEMMA ExchangerStartsLinks ==
  ASSUME TablesInv, LinksInv, ExchangerStarts
  PROVE  LinksInv'
<1>1. /\ exchanger \notin started /\ started' = started \cup {exchanger}
      /\ UNCHANGED <<eport, xport, own, fresh, esay, tsay, connectors>>
  BY DEF ExchangerStarts, tables, said
<1>2. PICK ends \in InOrder(Ends) : listeners' = [i \in DOMAIN ends |-> Listener(eport[ends[i]])]
  BY DEF ExchangerStarts
<1>3. /\ \A x \in Ends : \E i \in DOMAIN ends : ends[i] = x
      /\ \A i \in DOMAIN ends : ends[i] \in Ends
      /\ \A i, j \in DOMAIN ends : i # j => ends[i] # ends[j]
      /\ DOMAIN ends \subseteq Nat
  BY SequencedEnds
<1>4. \A x \in Ends : Awaits(eport[x])'
  <2>1. ASSUME NEW x \in Ends PROVE Awaits(eport[x])'
    <3>1. PICK i \in DOMAIN ends : ends[i] = x
      BY <1>3
    <3>2. i \in DOMAIN listeners' /\ listeners'[i].port = eport[x] /\ listeners'[i].state = "starting"
      BY <1>2, <3>1 DEF Listener
    <3>3. ASSUME NEW k \in DOMAIN listeners', k > i PROVE listeners'[k].port # eport[x]
      <4>1. k \in DOMAIN ends /\ k # i
        BY <1>2, <1>3, <3>1, <3>3
      <4>2. ends[k] \in Ends /\ ends[k] # x
        BY <1>3, <3>1, <4>1
      <4>3. listeners'[k].port = eport[ends[k]]
        BY <1>2, <4>1 DEF Listener
      <4> QED BY <4>2, <4>3 DEF TablesInv, Unique
    <3> QED BY <1>1, <3>2, <3>3 DEF Awaits
  <2> QED BY <2>1
<1>5. Pending = {} /\ listeners = <<>> /\ \A i \in DOMAIN connectors : \E x \in Ends : connectors[i].port = eport[x]
  BY <1>1 DEF LinksInv, Before
<1>6. \A x \in Ends : xport[x] = eport[x]
  BY <1>5 DEF TablesInv, TablesAgree, Pending
<1>7. \A i \in DOMAIN connectors : connectors[i].at = 0
  BY <1>5 DEF LinksInv, AtTheDoor
<1>8. GivenOut' /\ NotYet' /\ OnePerPort' /\ Cleared' /\ AtTheDoor' /\ NoneTurnedAway'
  BY <1>1, <1>7 DEF LinksInv, GivenOut, NotYet, OnePerPort, Cleared, AtTheDoor, NoneTurnedAway, Dead
<1>9. Before'
  BY <1>1 DEF Before
<1>10. Heard'
  <2>1. ASSUME NEW i \in DOMAIN connectors PROVE Awaits(connectors[i].port)'
    <3>1. PICK x \in Ends : connectors[i].port = eport[x]
      BY <1>5
    <3> QED BY <1>1, <1>4, <3>1 DEF Awaits
  <2> QED BY <1>1, <2>1 DEF Heard
<1>11. Prepared'
  <2>1. \A x \in Ends : Awaits(xport[x])'
    BY <1>1, <1>4, <1>6 DEF Awaits
  <2>2. tsay' = {}
    BY <1>1, <1>5 DEF Pending
  <2> QED BY <2>1, <2>2 DEF Prepared
<1> QED BY <1>8, <1>9, <1>10, <1>11 DEF LinksInv

\* A trader starts: its ports had no connector before.
LEMMA TraderStartsLinks ==
  ASSUME TablesInv, TablesInv', LinksInv, NEW t \in Connecting, TraderStarts(t)
  PROVE  LinksInv'
<1> DEFINE mine == {y \in Ends : y[1] = t}
           Ports == {xport[x] : x \in mine}
<1>1. /\ t \notin started /\ started' = started \cup {t} /\ t # exchanger
      /\ UNCHANGED <<eport, xport, own, fresh, esay, tsay, listeners>>
  BY TraderIsNot DEF TraderStarts, tables, said
<1>2. PortTypes /\ PortTypes' /\ Unique /\ Agreed /\ TablesAgree
  BY DEF TablesInv
<1>3. Newcomers(Ports)
  BY <1>2, TraderStartsEffect
<1>4. \A i \in DOMAIN connectors : connectors[i].port \notin Ports
  BY <1>1 DEF LinksInv, NotYet
<1>5. \A x \in mine : x \in Ends /\ x[1] = t
  OBVIOUS
<1>6. \A p \in Ports : \E x \in mine : p = xport[x]
  OBVIOUS
<1> HIDE DEF mine, Ports
<1>7. /\ OnePerPort' /\ AtTheDoor' /\ NoneTurnedAway'
      /\ \A i \in DOMAIN connectors : Dead(i)' <=> Dead(i)
  BY <1>1, <1>2, <1>3, <1>4, NewcomersFit DEF LinksInv
<1>8. ASSUME NEW j \in DOMAIN connectors' \ DOMAIN connectors
      PROVE  \E x \in Ends : x[1] = t /\ connectors'[j].port = xport[x]
  BY <1>3, <1>5, <1>6 DEF Newcomers
<1>9. GivenOut'
  BY <1>1, <1>2, <1>3, <1>8 DEF GivenOut, LinksInv, Unique, Newcomers
<1>10. NotYet'
  BY <1>1, <1>2, <1>3, <1>8 DEF NotYet, LinksInv, Unique, Newcomers
<1>11. Cleared'
  <2>1. ASSUME NEW m \in tsay, NEW i \in DOMAIN connectors', connectors'[i].port = m.b
        PROVE  Dead(i)'
    <3>1. CASE i \in DOMAIN connectors
      BY <1>3, <1>7, <2>1, <3>1 DEF LinksInv, Cleared, Newcomers
    <3>2. CASE i \notin DOMAIN connectors
      <4>1. PICK x \in Ends : x[1] = t /\ connectors'[i].port = xport[x]
        BY <1>8, <3>2
      <4>2. PICK y \in Ends : About(m, y)
        BY <1>2 DEF Agreed, Pending
      <4>3. y[1] \in started
        BY <1>2, <4>2 DEF Agreed, Pending, About
      <4> QED BY <1>1, <2>1, <4>1, <4>2, <4>3 DEF About
    <3> QED BY <3>1, <3>2
  <2> QED BY <1>1, <2>1 DEF Cleared
<1>12. Before'
  <2>1. ASSUME exchanger \notin started
        PROVE  /\ Pending' = {} /\ listeners' = <<>>
               /\ \A i \in DOMAIN connectors' : \E x \in Ends : connectors'[i].port = eport[x]
    <3>1. Pending = {} /\ listeners = <<>>
      BY <2>1 DEF LinksInv, Before
    <3>2. \A x \in Ends : xport[x] = eport[x]
      BY <1>2, <3>1 DEF TablesAgree, Pending
    <3>3. Pending' = {} /\ listeners' = <<>>
      BY <1>1, <3>1 DEF Pending
    <3>4. \A i \in DOMAIN connectors' : \E x \in Ends : connectors'[i].port = eport[x]
      BY <1>3, <1>8, <2>1, <3>2 DEF LinksInv, Before, Newcomers
    <3> QED BY <3>3, <3>4
  <2> QED BY <1>1, <2>1 DEF Before
<1>13. \A p : Awaits(p)' <=> Awaits(p)
  BY <1>1 DEF Awaits
<1>14. Heard'
  BY <1>1, <1>3, <1>8, <1>13 DEF Heard, Prepared, LinksInv, Newcomers
<1>15. Prepared'
  BY <1>1, <1>13 DEF Prepared, LinksInv
<1> QED BY <1>7, <1>9, <1>10, <1>11, <1>12, <1>14, <1>15 DEF LinksInv

\* A move is agreed: to a port never used, or one whose connectors are dead.
LEMMA AgreeLinks ==
  ASSUME TablesInv, LinksInv, Agree
  PROVE  LinksInv'
<1>1. PICK x \in Ends, b \in fresh \cup {eport[y] : y \in Ends}, d \in NewOwn \cup {NoWord} :
        /\ {exchanger, x[1]} \subseteq started
        /\ \/ b \in fresh
           \/ b = eport[x] /\ \A i \in DOMAIN connectors : connectors[i].port = b => Dead(i)
        /\ LET m == [t |-> x[1], a |-> eport[x], b |-> b, c |-> IF d = NoWord THEN d ELSE own[x], d |-> d]
           IN  esay' = esay \cup {m} /\ tsay' = tsay \cup {m}
        /\ fresh' = fresh \ {b}
  BY DEF Agree
<1>2. PICK m : m = [t |-> x[1], a |-> eport[x], b |-> b,
                    c |-> IF d = NoWord THEN d ELSE own[x], d |-> d]
  OBVIOUS
<1>3. esay' = esay \cup {m} /\ tsay' = tsay \cup {m} /\ m.b = b
  BY <1>1, <1>2
<1>4. UNCHANGED <<started, eport, xport, own, listeners, connectors>>
  BY DEF Agree, tables
<1>5. \A i \in DOMAIN connectors : connectors[i].port = b => Dead(i)
  BY <1>1 DEF LinksInv, GivenOut
<1>6. GivenOut' /\ NotYet' /\ OnePerPort' /\ AtTheDoor' /\ NoneTurnedAway'
  BY <1>1, <1>4 DEF LinksInv, GivenOut, NotYet, OnePerPort, AtTheDoor, NoneTurnedAway, Dead
<1>7. Cleared'
  BY <1>3, <1>4, <1>5 DEF LinksInv, Cleared, Dead
<1>8. Before'
  BY <1>1, <1>4 DEF Before
<1>9. Heard' /\ Prepared'
  BY <1>3, <1>4 DEF LinksInv, Heard, Prepared, Awaits
<1> QED BY <1>6, <1>7, <1>8, <1>9 DEF LinksInv

\* The exchanger's operator types a move: a listener more.
LEMMA ExchangerSetsLinks ==
  ASSUME TablesInv, LinksInv, NEW m \in esay, ExchangerSets(m)
  PROVE  LinksInv'
<1>1. PortTypes /\ Unique /\ Agreed /\ m \in Move /\ m \in Pending
  BY DEF TablesInv, PortTypes, Pending
<1>2. PICK x \in Ends : About(m, x)
  BY <1>1 DEF Agreed
<1>3. Slots(m.a) = {x}
  BY <1>1, <1>2, OneSlot
<1>4. /\ listeners' = listeners \o [i \in 1..1 |-> Listener(m.b)]
      /\ UNCHANGED <<started, xport, own, fresh, tsay, connectors>> /\ esay' = esay \ {m}
  BY <1>3, FS_Singleton DEF ExchangerSets
<1>5. m.b \in Nat /\ exchanger \in started
  BY <1>1 DEF Move, Agreed
<1>6. /\ \A i \in DOMAIN listeners : i \in DOMAIN listeners' /\ listeners'[i] = listeners[i]
      /\ \E i \in DOMAIN listeners' :
           /\ listeners'[i] = Listener(m.b)
           /\ \A k \in DOMAIN listeners' : k # i => k \in DOMAIN listeners /\ k < i
  <2> DEFINE f == [i \in 1..1 |-> Listener(m.b)]
  <2>1. f \in [1..1 -> AListener]
    BY <1>5 DEF AListener, ListenerStates, Listener
  <2>2. f[1] = Listener(m.b) /\ 1 \in Nat /\ 1 \in 1..1
    BY SMT
  <2>3. listeners \in Seq(AListener) /\ listeners' = listeners \o f
    BY <1>1, <1>4 DEF PortTypes
  <2> HIDE DEF f
  <2>4. Lengthens(listeners', listeners, 1, f)
    BY <2>1, <2>2, <2>3, JoinedSeq
  <2>5. Len(listeners) + 1 \in DOMAIN listeners' /\ listeners'[Len(listeners) + 1] = f[1]
    BY <2>2, <2>4 DEF Lengthens
  <2>6. ASSUME NEW k \in DOMAIN listeners', k # Len(listeners) + 1
        PROVE  k \in DOMAIN listeners /\ k < Len(listeners) + 1
    <3>1. k \in DOMAIN listeners \/ k - Len(listeners) \in 1..1
      BY <2>4 DEF Lengthens
    <3>2. Len(listeners) \in Nat /\ DOMAIN listeners = 1..Len(listeners)
      BY <2>3
    <3>3. listeners' \in Seq(AListener)
      BY <2>1, <2>3, JoinedSeq
    <3>4. k \in Nat
      BY <3>3
    <3> QED BY <2>6, <3>1, <3>2, <3>4
  <2> QED BY <2>2, <2>4, <2>5, <2>6 DEF Lengthens
<1>7. DOMAIN listeners \subseteq Nat
  BY <1>1 DEF PortTypes
<1>8. PICK n \in DOMAIN listeners' :
        /\ listeners'[n].port = m.b /\ listeners'[n].state = "starting"
        /\ \A k \in DOMAIN listeners' : k # n => k \in DOMAIN listeners /\ k < n
  BY <1>6 DEF Listener
<1>15. DOMAIN listeners' \subseteq Nat
  BY ExchangerSetsTables DEF TablesInv, PortTypes
<1>12. Awaits(m.b)'
  <2>1. \A k \in DOMAIN listeners' : k # n => ~(k > n)
    <3>1. ASSUME NEW k \in DOMAIN listeners', k # n PROVE ~(k > n)
      <4>1. k \in Nat /\ k < n
        BY <1>7, <1>8, <3>1
      <4>2. n \in Nat
        BY <1>8, <1>15
      <4> QED BY <4>1, <4>2
    <3> QED BY <3>1
  <2> QED BY <1>4, <1>8, <2>1 DEF Awaits
<1>13. ASSUME NEW p, Awaits(p), p # m.b PROVE Awaits(p)'
  <2>1. PICK l \in DOMAIN listeners :
          /\ listeners[l].port = p /\ listeners[l].state \in {"starting", "open", "failed"}
          /\ \A k \in DOMAIN listeners : k > l => listeners[k].port # p
    BY <1>13 DEF Awaits
  <2>2. \A k \in DOMAIN listeners' : k > l => listeners'[k].port # p
    BY <1>6, <1>8, <1>13, <2>1
  <2> QED BY <1>6, <2>1, <2>2 DEF Awaits
<1>14. \A p : Awaits(p) => Awaits(p)'
  BY <1>12, <1>13
<1>9. GivenOut' /\ NotYet' /\ OnePerPort' /\ Cleared' /\ AtTheDoor' /\ NoneTurnedAway'
  BY <1>4, <1>6 DEF LinksInv, GivenOut, NotYet, OnePerPort, Cleared, AtTheDoor, NoneTurnedAway, Dead
<1>10. Before'
  BY <1>4, <1>5 DEF Before
<1>11. Heard' /\ Prepared'
  BY <1>4, <1>5, <1>12, <1>14 DEF LinksInv, Heard, Prepared
<1> QED BY <1>9, <1>10, <1>11 DEF LinksInv

\* A trader's operator types a move: one connector more on a port where all
\* others are dead.
LEMMA TraderSetsLinks ==
  ASSUME TablesInv, TablesInv', LinksInv,
         NEW m \in tsay, NEW c, c = m.c \/ m.c # NoWord, TraderSets(m, c)
  PROVE  LinksInv'
<1>1. PortTypes /\ PortTypes' /\ Unique /\ Unique' /\ Agreed /\ m \in Move /\ m \in Pending
  BY DEF TablesInv, PortTypes, Pending
<1>2. PICK x \in Ends : About(m, x)
  BY <1>1 DEF Agreed
<1>3. UNCHANGED <<started, eport, fresh, esay, listeners>>
  BY <1>2, TraderSetsEffect
<1>4. \A p : Awaits(p)' <=> Awaits(p)
  BY <1>3 DEF Awaits
<1>5. m.b \in Nat /\ m.t \in Connecting /\ exchanger \in started /\ m.t \in started /\ m.b \notin fresh /\ x[1] = m.t
  BY <1>1, <1>2 DEF Move, Agreed, About
<1>6. CASE UNCHANGED <<xport, own, tsay, connectors>>
  <2>1. GivenOut' /\ NotYet' /\ OnePerPort' /\ Cleared' /\ AtTheDoor' /\ NoneTurnedAway'
    BY <1>3, <1>6 DEF LinksInv, GivenOut, NotYet, OnePerPort, Cleared, AtTheDoor, NoneTurnedAway, Dead
  <2>2. Before' /\ Heard' /\ Prepared'
    BY <1>3, <1>4, <1>5, <1>6 DEF LinksInv, Before, Heard, Prepared
  <2> QED BY <2>1, <2>2 DEF LinksInv
<1>7. CASE /\ tsay' = tsay \ {m}
           /\ xport' = [xport EXCEPT ![x] = m.b]
           /\ own' \in [Ends -> Nat] /\ \A y \in Ends : y # x => own'[y] = own[y]
           /\ connectors' = connectors \o [i \in 1..1 |-> Connector(m.t, m.b, own'[x])]
  <2> DEFINE f == [i \in 1..1 |-> Connector(m.t, m.b, own'[x])]
             P == {m.b}
  <2>1. f \in [1..1 -> AConnector]
    BY <1>5, <1>7 DEF AConnector, Connector, ConnectorStates
  <2>2. \A k \in 1..1 : f[k].state = "trying" /\ f[k].at = 0 /\ f[k].port \in P
    BY DEF Connector
  <2>3. connectors' = connectors \o f /\ 1 \in Nat /\ \A j, k \in 1..1 : j = k
    BY <1>7
  <2>4. \A p : p \in P <=> p = m.b
    OBVIOUS
  <2> HIDE DEF f, P
  <2>5. Newcomers(P)
    BY <1>1, <2>1, <2>2, <2>3, NewcomersNew
  <2>6. \A i \in DOMAIN connectors : connectors[i].port = m.b => Dead(i)
    BY DEF LinksInv, Cleared
  <2>7. /\ OnePerPort' /\ AtTheDoor' /\ NoneTurnedAway'
        /\ \A i \in DOMAIN connectors : Dead(i)' <=> Dead(i)
    BY <1>1, <1>3, <2>4, <2>5, <2>6, NewcomersFit DEF LinksInv
  <2>8. \A j \in DOMAIN connectors' \ DOMAIN connectors : connectors'[j].port = m.b
    BY <2>4, <2>5 DEF Newcomers
  <2>9. \A i \in DOMAIN connectors : connectors'[i] = connectors[i]
    BY <2>5 DEF Newcomers
  <2>10. xport'[x] = m.b /\ \A y \in Ends : y # x => xport'[y] = xport[y]
    BY <1>1, <1>7 DEF PortTypes
  <2>11. GivenOut'
    BY <1>3, <1>5, <2>8, <2>9 DEF LinksInv, GivenOut
  <2>12. NotYet'
    <3>1. \A y \in Ends : y[1] \notin started => y # x /\ m.b # xport[y]
      BY <1>2, <1>5 DEF About
    <3> QED BY <1>3, <2>8, <2>9, <2>10, <3>1 DEF LinksInv, NotYet
  <2>13. Cleared'
    <3>1. ASSUME NEW n \in tsay', NEW i \in DOMAIN connectors', connectors'[i].port = n.b
          PROVE  Dead(i)'
      <4>1. n \in tsay /\ n # m /\ n.b # m.b
        BY <1>1, <1>7, <3>1 DEF Agreed, Pending
      <4>2. i \in DOMAIN connectors
        BY <2>8, <3>1, <4>1
      <4> QED BY <2>7, <2>9, <3>1, <4>1, <4>2 DEF LinksInv, Cleared
    <3> QED BY <3>1 DEF Cleared
  <2>14. Before'
    BY <1>3, <1>5 DEF Before
  <2>15. Awaits(m.b) \/ m \in esay
    BY <1>5 DEF LinksInv, Prepared
  <2>16. Heard'
    BY <1>3, <1>4, <1>5, <2>8, <2>9, <2>15 DEF LinksInv, Heard
  <2>17. Prepared'
    <3>1. \A y \in Ends : y[1] \notin started => y # x
      BY <1>5
    <3> QED BY <1>3, <1>4, <1>5, <1>7, <2>10, <3>1 DEF LinksInv, Prepared
  <2> QED BY <2>7, <2>11, <2>12, <2>13, <2>14, <2>16, <2>17 DEF LinksInv
<1> QED BY <1>2, <1>6, <1>7, TraderSetsEffect

\* A step of one connector that is alive.
LEMMA OneMoves ==
  ASSUME TablesInv, LinksInv, NEW i \in DOMAIN connectors, NEW c \in AConnector,
         connectors' = [connectors EXCEPT ![i] = c],
         UNCHANGED <<started, tables, said, listeners>>,
         ~Dead(i), c.port = connectors[i].port, c.state # "reset",
         c.state = "trying" => connectors[i].state = "trying",
         c.at # 0 => /\ c.at \in DOMAIN listeners /\ listeners[c.at].port = c.port
                     /\ listeners[c.at].state = "open"
                     /\ c.state \in {"queued", "broken"}
  PROVE  LinksInv'
<1>1. connectors \in Seq(AConnector)
  BY DEF TablesInv, PortTypes
<1>2. /\ DOMAIN connectors' = DOMAIN connectors /\ connectors'[i] = c
      /\ \A j \in DOMAIN connectors : j # i => connectors'[j] = connectors[j]
  BY <1>1, ReplacedSeq
<1>3. UNCHANGED <<started, eport, xport, own, fresh, esay, tsay, listeners>>
  BY DEF tables, said
<1>4. \A j \in DOMAIN connectors : Dead(j) => Dead(j)'
  BY <1>2 DEF Dead
<1>5. \A j \in DOMAIN connectors : connectors'[j].port = connectors[j].port
  BY <1>2
<1>6. GivenOut' /\ NotYet' /\ OnePerPort' /\ Cleared'
  BY <1>2, <1>3, <1>4, <1>5 DEF LinksInv, GivenOut, NotYet, OnePerPort, Cleared
<1>7. AtTheDoor' /\ NoneTurnedAway'
  BY <1>2, <1>3 DEF LinksInv, AtTheDoor, NoneTurnedAway
<1>8. Before'
  BY <1>2, <1>3, <1>5 DEF LinksInv, Before, Pending
<1>9. Heard' /\ Prepared'
  BY <1>2, <1>3, <1>5 DEF LinksInv, Heard, Prepared, Awaits
<1> QED BY <1>6, <1>7, <1>8, <1>9 DEF LinksInv

\* A connector tries.
LEMMA AttemptLinks ==
  ASSUME TablesInv, LinksInv, NEW i \in DOMAIN connectors, Attempt(i) \/ BindFails(i)
  PROVE  LinksInv'
<1>1. PortTypes
  BY DEF TablesInv
<1>2. UNCHANGED <<started, tables, said, listeners>> /\ connectors[i].state = "trying"
  BY <1>1, AttemptEffect
<1>3. connectors[i].at = 0 /\ ~Dead(i)
  BY <1>2 DEF LinksInv, AtTheDoor, Dead
<1>4. PICK c \in AConnector :
        /\ connectors' = [connectors EXCEPT ![i] = c]
        /\ c.port = connectors[i].port
        /\ \/ /\ c.state = "queued" /\ c.at \in DOMAIN listeners
              /\ listeners[c.at].state = "open" /\ listeners[c.at].port = c.port
           \/ c.state \in {"hanging", "trying", "failed"} /\ c.at = connectors[i].at
  BY <1>1, AttemptEffect
<1> QED BY <1>2, <1>3, <1>4, OneMoves

\* A connection breaks.
LEMMA BreakOffLinks ==
  ASSUME TablesInv, LinksInv, NEW i \in DOMAIN connectors, BreakOff(i)
  PROVE  LinksInv'
<1>1. PortTypes
  BY DEF TablesInv
<1>2. UNCHANGED <<started, tables, said, listeners>> /\ connectors[i].state \in {"queued", "hanging", "served"}
  BY <1>1, BreakOffEffect
<1>3. ~Dead(i)
  BY <1>2 DEF Dead
<1>4. PICK c \in AConnector :
        /\ connectors' = [connectors EXCEPT ![i] = c]
        /\ c.port = connectors[i].port /\ c.state = "broken" /\ c.at = connectors[i].at
  BY <1>1, BreakOffEffect
<1>5. c.at # 0 => /\ c.at \in DOMAIN listeners /\ listeners[c.at].port = c.port
                  /\ listeners[c.at].state = "open"
  BY <1>4 DEF LinksInv, AtTheDoor
<1> QED BY <1>2, <1>3, <1>4, <1>5, OneMoves

\* A thread comes to listen, or fails before.
LEMMA ListenLinks ==
  ASSUME TablesInv, LinksInv, NEW l \in DOMAIN listeners, Listen(l)
  PROVE  LinksInv'
<1>1. PortTypes /\ listeners[l].state = "starting" /\ UNCHANGED <<started, tables, said, connectors>>
  BY DEF Listen, TablesInv
<1>2. PICK s \in {"open", "failed"} : listeners' = [listeners EXCEPT ![l].state = s]
  BY DEF Listen
<1>3. s \in ListenerStates
  BY DEF ListenerStates
<1>4. /\ DOMAIN listeners' = DOMAIN listeners
      /\ \A k \in DOMAIN listeners : /\ listeners'[k].port = listeners[k].port
                                     /\ k # l => listeners'[k] = listeners[k]
      /\ listeners'[l].state = s
  BY <1>1, <1>2, <1>3, ListenerEffect
<1>5. UNCHANGED <<started, eport, xport, own, fresh, esay, tsay, connectors>>
  BY <1>1 DEF tables, said
<1>6. listeners # <<>>
  OBVIOUS
<1>7. \A p : Awaits(p) => Awaits(p)'
  BY <1>4 DEF Awaits
<1>8. GivenOut' /\ NotYet' /\ OnePerPort' /\ Cleared' /\ AtTheDoor' /\ NoneTurnedAway'
  BY <1>1, <1>4, <1>5 DEF LinksInv, GivenOut, NotYet, OnePerPort, Cleared, AtTheDoor, NoneTurnedAway, Dead
<1>9. Before' /\ Heard' /\ Prepared'
  BY <1>5, <1>6, <1>7 DEF LinksInv, Before, Heard, Prepared
<1> QED BY <1>8, <1>9 DEF LinksInv

\* A listener's accept() fails: the connectors it had are dead.
LEMMA AcceptFailsLinks ==
  ASSUME TablesInv, LinksInv, NEW l \in DOMAIN listeners, AcceptFails(l)
  PROVE  LinksInv'
<1>1. /\ PortTypes /\ listeners[l].state = "open" /\ UNCHANGED <<started, tables, said>>
      /\ Leaves(l, "failed", 0, "broken", "broken")
  BY DEF AcceptFails, TablesInv
<1>2. "failed" \in ListenerStates /\ "broken" \in ConnectorStates
  BY DEF ListenerStates, ConnectorStates
<1>3. /\ DOMAIN listeners' = DOMAIN listeners
      /\ \A k \in DOMAIN listeners : /\ listeners'[k].port = listeners[k].port
                                     /\ k # l => listeners'[k] = listeners[k]
      /\ listeners'[l].state = "failed"
  <2>1. listeners' = [listeners EXCEPT ![l].state = "failed"]
    BY <1>1 DEF Leaves
  <2> QED BY <1>1, <1>2, <2>1, ListenerEffect
<1>4. /\ DOMAIN connectors' = DOMAIN connectors
      /\ \A j \in DOMAIN connectors :
           /\ connectors[j].at # l => connectors'[j] = connectors[j]
           /\ connectors'[j].port = connectors[j].port
           /\ connectors[j].at = l => connectors'[j].at = 0 /\ connectors'[j].state = "broken"
  <2>1. PICK i \in {0}, s \in ListenerStates, y \in ConnectorStates, z \in ConnectorStates :
          s = "failed" /\ y = "broken" /\ z = "broken"
    BY <1>2
  <2>2. PortTypes /\ Leaves(l, s, i, y, z)
    BY <1>1, <2>1
  <2>3. /\ DOMAIN connectors' = DOMAIN connectors
        /\ \A j \in DOMAIN connectors :
             /\ connectors[j].at # l => connectors'[j] = connectors[j]
             /\ connectors'[j].port = connectors[j].port
             /\ connectors[j].at = l => connectors'[j].at = 0 /\ connectors'[j].state = (IF j = i THEN y ELSE z)
    BY <2>2, LeavesEffect
  <2> QED BY <2>1, <2>3
<1>5. UNCHANGED <<started, eport, xport, own, fresh, esay, tsay>>
  BY <1>1 DEF tables, said
<1>6. listeners # <<>> /\ l # 0
  BY <1>1 DEF PortTypes
<1>7. \A p : Awaits(p) => Awaits(p)'
  BY <1>3 DEF Awaits
<1>8. \A j \in DOMAIN connectors : Dead(j) => Dead(j)'
  BY <1>4, <1>6 DEF Dead
<1>9. GivenOut' /\ NotYet' /\ OnePerPort' /\ Cleared'
  BY <1>4, <1>5, <1>8 DEF LinksInv, GivenOut, NotYet, OnePerPort, Cleared
<1>10. AtTheDoor' /\ NoneTurnedAway'
  BY <1>3, <1>4 DEF LinksInv, AtTheDoor, NoneTurnedAway
<1>11. exchanger \in started
  BY <1>6 DEF LinksInv, Before
<1>12. Before' /\ Heard' /\ Prepared'
  BY <1>4, <1>5, <1>7, <1>11 DEF LinksInv, Before, Heard, Prepared
<1> QED BY <1>9, <1>10, <1>12 DEF LinksInv

\* The listener is done with the one connector at it, the only one that is
\* alive on its port.
LEMMA ServeLinks ==
  ASSUME TablesInv, LinksInv, NEW l \in DOMAIN listeners, Serve(l)
  PROVE  LinksInv'
<1>1. PortTypes /\ listeners[l].state = "open"
  BY DEF TablesInv, Serve
<1>2. PICK i \in DOMAIN connectors, s \in {"ended", "stuck"}, now \in {"served", "broken"},
            left \in {"reset", "hanging"} :
        connectors[i].at = l /\ Leaves(l, s, i, now, left)
  BY ServeEffect
<1>18. s \in ListenerStates /\ now \in ConnectorStates /\ left \in ConnectorStates
  BY DEF ListenerStates, ConnectorStates
<1>19. /\ DOMAIN listeners' = DOMAIN listeners
       /\ \A k \in DOMAIN listeners : /\ listeners'[k].port = listeners[k].port
                                      /\ k # l => listeners'[k] = listeners[k]
  <2>1. listeners' = [listeners EXCEPT ![l].state = s]
    BY <1>2 DEF Leaves
  <2> QED BY <1>1, <1>18, <2>1, ListenerEffect
<1>20. /\ DOMAIN connectors' = DOMAIN connectors
       /\ \A j \in DOMAIN connectors :
            /\ connectors[j].at # l => connectors'[j] = connectors[j]
            /\ connectors'[j].port = connectors[j].port
            /\ connectors[j].at = l =>
                 connectors'[j].at = 0 /\ connectors'[j].state = (IF j = i THEN now ELSE left)
  BY <1>1, <1>2, <1>18, LeavesEffect
<1>3. UNCHANGED <<started, eport, xport, own, fresh, esay, tsay>>
  BY DEF Serve, tables, said
<1>4. connectors[i].at = l
  BY <1>2
<1>5. DOMAIN listeners \subseteq Nat \ {0} /\ DOMAIN connectors \subseteq Nat
  BY <1>1 DEF PortTypes
<1>6. /\ connectors[i].port = listeners[l].port /\ ~Dead(i)
      /\ connectors[i].state \in {"queued", "broken"}
  BY <1>4, <1>5 DEF LinksInv, AtTheDoor, Dead
<1>7. ASSUME NEW j \in DOMAIN connectors, j # i, connectors[j].port = listeners[l].port
      PROVE  Dead(j)
  <2>1. i < j \/ j < i
    BY <1>5, <1>7
  <2> QED BY <1>6, <1>7, <2>1 DEF LinksInv, OnePerPort
<1>8. \A j \in DOMAIN connectors : j # i => connectors[j].at # l
  <2>1. ASSUME NEW j \in DOMAIN connectors, j # i, connectors[j].at = l PROVE FALSE
    <3>1. connectors[j].port = listeners[l].port /\ connectors[j].at # 0
      BY <1>5, <2>1 DEF LinksInv, AtTheDoor
    <3> QED BY <1>7, <2>1, <3>1 DEF Dead
  <2> QED BY <2>1
<1>9. /\ \A j \in DOMAIN connectors : j # i => connectors'[j] = connectors[j]
      /\ connectors'[i].at = 0 /\ connectors'[i].state \in {"served", "broken"}
      /\ \A j \in DOMAIN connectors : connectors'[j].port = connectors[j].port
  BY <1>4, <1>8, <1>20
<1>10. \A j \in DOMAIN connectors : Dead(j) => Dead(j)'
  BY <1>6, <1>9 DEF Dead
<1>11. GivenOut' /\ NotYet' /\ OnePerPort' /\ Cleared'
  BY <1>3, <1>9, <1>10, <1>20 DEF LinksInv, GivenOut, NotYet, OnePerPort, Cleared
<1>12. AtTheDoor' /\ NoneTurnedAway'
  BY <1>5, <1>8, <1>9, <1>19, <1>20 DEF LinksInv, AtTheDoor, NoneTurnedAway
<1>13. exchanger \in started
  BY <1>5 DEF LinksInv, Before
<1>14. Before'
  BY <1>3, <1>13 DEF Before
<1>15. ASSUME NEW p, Awaits(p), p # listeners[l].port PROVE Awaits(p)'
  <2>1. PICK k \in DOMAIN listeners :
          /\ listeners[k].port = p /\ listeners[k].state \in {"starting", "open", "failed"}
          /\ \A n \in DOMAIN listeners : n > k => listeners[n].port # p
    BY <1>15 DEF Awaits
  <2>2. k \in DOMAIN listeners' /\ listeners'[k] = listeners[k]
    BY <1>15, <1>19, <2>1
  <2> QED BY <1>19, <2>1, <2>2 DEF Awaits
<1>16. Heard'
  <2>1. ASSUME NEW j \in DOMAIN connectors, connectors'[j].state = "trying"
        PROVE  \E p : /\ p = connectors'[j].port
                      /\ Awaits(p)' \/ \E m \in esay : m.b = p
    <3>1. j # i /\ connectors[j].state = "trying" /\ ~Dead(j)
      BY <1>6, <1>9, <2>1 DEF Dead
    <3>2. PICK p : p = connectors[j].port /\ p = connectors'[j].port
      BY <1>9
    <3>3. p # listeners[l].port
      BY <1>7, <3>1, <3>2
    <3>4. Awaits(p) \/ \E m \in esay : m.b = p
      BY <1>13, <3>1, <3>2 DEF LinksInv, Heard
    <3>5. Awaits(p)' \/ \E m \in esay : m.b = p
      BY <1>15, <3>3, <3>4
    <3> QED BY <3>2, <3>5
  <2>2. ASSUME NEW j \in DOMAIN connectors, connectors'[j].state = "trying"
        PROVE  Awaits(connectors[j].port)' \/ \E m \in esay : m.b = connectors'[j].port
    <3>1. PICK p : p = connectors'[j].port /\ (Awaits(p)' \/ \E m \in esay : m.b = p)
      BY <2>1, <2>2
    <3> QED BY <3>1 DEF Awaits
  <2> QED BY <1>3, <1>20, <2>2 DEF Heard
<1>17. Prepared'
  <2>1. \A x \in Ends : x[1] \notin started => xport[x] # listeners[l].port
    BY <1>6 DEF LinksInv, NotYet
  <2>2. \A m \in tsay \ esay : m.b # listeners[l].port
    BY <1>6 DEF LinksInv, Cleared
  <2> QED BY <1>3, <1>13, <1>15, <2>1, <2>2 DEF LinksInv, Prepared
<1> QED BY <1>11, <1>12, <1>14, <1>16, <1>17 DEF LinksInv

\* Every step keeps the connectors and listeners in order.
LEMMA NextLinks == TablesInv /\ LinksInv /\ [PortsNext]_portVars => LinksInv'
<1> SUFFICES ASSUME TablesInv, LinksInv, [PortsNext]_portVars PROVE LinksInv'
  OBVIOUS
<1>1. TablesInv'
  BY NextTables
<1>2. CASE ExchangerStarts \/ Agree
  BY <1>2, ExchangerStartsLinks, AgreeLinks
<1>3. CASE \E t \in Connecting : TraderStarts(t)
  BY <1>1, <1>3, TraderStartsLinks
<1>4. CASE \E m \in esay : ExchangerSets(m)
  BY <1>4, ExchangerSetsLinks
<1>5. CASE \E m \in tsay : \E c \in {m.c} \cup (IF m.c = NoWord THEN {} ELSE {0}) : TraderSets(m, c)
  BY <1>1, <1>5, TraderSetsLinks
<1>6. CASE \E i \in DOMAIN connectors : BindFails(i) \/ Attempt(i) \/ BreakOff(i)
  BY <1>6, AttemptLinks, BreakOffLinks
<1>7. CASE \E l \in DOMAIN listeners : Listen(l) \/ AcceptFails(l) \/ Serve(l)
  BY <1>7, ListenLinks, AcceptFailsLinks, ServeLinks
<1>8. CASE UNCHANGED portVars
  <2>1. UNCHANGED <<started, eport, xport, own, fresh, esay, tsay, listeners, connectors>>
    BY <1>8 DEF portVars, tables, said
  <2> QED BY <2>1 DEF LinksInv, GivenOut, NotYet, OnePerPort, Cleared, AtTheDoor, NoneTurnedAway,
    Before, Heard, Prepared, Dead, Awaits, Pending
<1> QED BY <1>2, <1>3, <1>4, <1>5, <1>6, <1>7, <1>8 DEF PortsNext

\* The connectors and listeners are in order in every state.
LEMMA AlwaysLinks == PortsSpec => []LinksInv
BY InitLinks, AlwaysTables, NextLinks, PTL DEF PortsSpec

\* In no reachable state was a connector accepted by the kernel and then reset
\* because its listener had served another one.
THEOREM NobodyTurnedAway == PortsSpec => []NoneTurnedAway
<1>1. LinksInv => NoneTurnedAway
  BY DEF LinksInv
<1> QED BY <1>1, AlwaysLinks, PTL

\* In every reachable state the last listener on the port of a connector that
\* tries has served nobody, once the exchanger was started and told.
THEOREM ListenerKept == PortsSpec => []StillAwaited
<1>1. LinksInv => StillAwaited
  BY DEF LinksInv, Heard, StillAwaited
<1> QED BY <1>1, AlwaysLinks, PTL

-----------------------------------------------------------------------------
(* Network: every packet in its lane.                                      *)

\* Every packet is where its encoder's packets belong: in the queues kept for
\* that trader, in the hands of Senders that drain them and on the wires to
\* Receivers that fill them.
InItsLane ==
  /\ \A h \in Hosts : \A t \in Traders : \A p \in pool[h][t] : p.from = t
  /\ \A c \in Connections : \A s \in Sides : \A p \in hand[c][s] : p.from = Source(c, s)
  /\ \A c \in Connections : \A s \in Sides : \A i \in DOMAIN wire[c][s] :
       wire[c][s][i].from = Sink(c, s)

\* The inductive invariant.
Inv == TypeOK /\ InItsLane

USE NetworkAssumption, PacketAssumption

\* Each connection and side has a host and two queues, and what one end puts
\* into the socket is for the queue the other end fills.
LEMMA Lanes ==
  ASSUME NEW c \in Connections, NEW s \in Sides
  PROVE  /\ Host(c, s) \in Hosts
         /\ Source(c, s) \in Traders /\ Sink(c, s) \in Traders
         /\ Other(s) \in Sides
         /\ Sink(c, Other(s)) = Source(c, s)
BY DEF Host, Source, Sink, Other, Hosts, Traders, Sides

\* What a sequence holds after a packet was appended.
LEMMA Appended ==
  ASSUME NEW S, NEW w \in Seq(S), NEW p \in S
  PROVE  /\ Append(w, p) \in Seq(S)
         /\ \A i \in DOMAIN Append(w, p) :
              Append(w, p)[i] = p \/ (i \in DOMAIN w /\ Append(w, p)[i] = w[i])
BY AppendProperties

\* What a sequence holds after its first element was taken.
LEMMA Shortened ==
  ASSUME NEW S, NEW w \in Seq(S), w # <<>>
  PROVE  /\ Head(w) \in S /\ 1 \in DOMAIN w /\ Head(w) = w[1]
         /\ Tail(w) \in Seq(S)
         /\ \A i \in DOMAIN Tail(w) : i + 1 \in DOMAIN w /\ Tail(w)[i] = w[i + 1]
BY HeadTailProperties

\* What a sequence holds after its end was cut off.
LEMMA CutOff ==
  ASSUME NEW S, NEW w \in Seq(S), NEW n \in 0..Len(w)
  PROVE  /\ SubSeq(w, 1, n) \in Seq(S)
         /\ \A i \in DOMAIN SubSeq(w, 1, n) : i \in DOMAIN w /\ SubSeq(w, 1, n)[i] = w[i]
BY SubSeqProperties

\* Nothing is anywhere at first.
LEMMA InitInv == Init => Inv
<1> SUFFICES ASSUME Init PROVE Inv
    OBVIOUS
<1>1. TypeOK
      BY DEF Init, TypeOK, Sides
<1>2. InItsLane
      BY DEF Init, InItsLane, Sides
<1>. QED BY <1>1, <1>2 DEF Inv

\* Every step keeps types and lanes.
LEMMA NextInv == Inv /\ [Next]_vars => Inv'
<1> SUFFICES ASSUME Inv, [Next]_vars PROVE Inv'
    OBVIOUS
<1> USE DEF Inv
<1>1. ASSUME NEW t \in Traders, Flush(t) PROVE Inv'
  <2> PICK p \in unsent : /\ p.from = t
                          /\ unsent' = unsent \ {p}
                          /\ pool' = [pool EXCEPT ![t][t] = @ \cup {p}]
      BY <1>1 DEF Flush
  <2>0. t \in Hosts
        BY DEF Hosts
  <2>1. TypeOK'
        BY <1>1, <2>0 DEF Flush, TypeOK
  <2>2. InItsLane'
        BY <1>1, <2>0 DEF Flush, TypeOK, InItsLane
  <2>. QED BY <2>1, <2>2
<1>2. ASSUME NEW c \in Connections, Connect(c) \/ GiveUp(c) \/ Accept(c) PROVE Inv'
  <2>0. /\ link' \in [Connections -> {"none", "failed", "open", "broken"}]
        /\ up' \in [Connections -> SUBSET Sides]
    <3>1. CASE Connect(c)
          BY <3>1 DEF Connect, TypeOK, Sides
    <3>2. CASE GiveUp(c)
          BY <3>2 DEF GiveUp, TypeOK
    <3>3. CASE Accept(c)
          BY <3>3 DEF Accept, TypeOK
    <3>. QED BY <1>2, <3>1, <3>2, <3>3
  <2>1. TypeOK'
        BY <1>2, <2>0 DEF Connect, GiveUp, Accept, TypeOK
  <2>2. InItsLane'
        BY <1>2 DEF Connect, GiveUp, Accept, InItsLane
  <2>. QED BY <2>1, <2>2
<1>3. ASSUME NEW c \in Connections, NEW s \in Sides, Take(c, s) PROVE Inv'
  <2> DEFINE h == Host(c, s)
             q == Source(c, s)
  <2>0. h \in Hosts /\ q \in Traders
        BY Lanes
  <2> PICK p \in Top(pool[h][q]) :
        /\ pool' = [pool EXCEPT ![h][q] = @ \ {p}]
        /\ hand' = [hand EXCEPT ![c][s] = {p}]
      BY <1>3 DEF Take
  <2>1. p \in pool[h][q]
        BY DEF Top
  <2>2. p \in Packets /\ p.from = q
        BY <2>0, <2>1 DEF TypeOK, InItsLane
  <2>3. s \notin ended[c] /\ UNCHANGED <<unsent, link, up, ended, wire, lost>>
        BY <1>3 DEF Take, Running
  <2>a. q = Source(c, s)
        OBVIOUS
  <2> HIDE DEF h, q
  <2>4. TypeOK'
        BY <2>0, <2>2, <2>3 DEF TypeOK
  <2>5. InItsLane'
        BY <2>0, <2>2, <2>3, <2>a DEF TypeOK, InItsLane, Source, Sink
  <2>. QED BY <2>4, <2>5
<1>4. ASSUME NEW c \in Connections, NEW s \in Sides, Write(c, s) PROVE Inv'
  <2>p. PICK p \in hand[c][s] : wire' = [wire EXCEPT ![c][Other(s)] = Append(@, p)]
        BY <1>4 DEF Write
  <2> DEFINE o == Other(s)
             w == wire[c][o]
             v == Append(w, p)
  <2>0. o \in Sides /\ Sink(c, o) = Source(c, s)
        BY Lanes
  <2>1. p \in Packets /\ p.from = Sink(c, o) /\ w \in Seq(Packets)
        BY <2>0 DEF TypeOK, InItsLane
  <2>2. /\ v \in Seq(Packets)
        /\ \A i \in DOMAIN v : v[i] = p \/ (i \in DOMAIN w /\ v[i] = w[i])
        BY <2>1, Appended
  <2>3. wire' = [wire EXCEPT ![c][o] = v]
        BY <2>p, <2>0 DEF TypeOK
  <2>4. hand' = [hand EXCEPT ![c][s] = {}] /\ UNCHANGED <<unsent, pool, link, up, ended, lost>>
        BY <1>4 DEF Write, AfterWrite
  <2>5. \A i \in DOMAIN w : w[i].from = Sink(c, o)
        BY <2>0 DEF InItsLane
  <2> HIDE DEF o, w, v
  <2>6. TypeOK'
        BY <2>0, <2>2, <2>3, <2>4 DEF TypeOK
  <2>7. \A i \in DOMAIN v : v[i].from = Sink(c, o)
        BY <2>1, <2>2, <2>5
  <2>8. InItsLane'
        BY <2>0, <2>3, <2>4, <2>7 DEF TypeOK, InItsLane, Source, Sink
  <2>. QED BY <2>6, <2>8
<1>5. ASSUME NEW c \in Connections, NEW s \in Sides, WriteIntoVoid(c, s) PROVE Inv'
  <2>1. TypeOK'
        BY <1>5 DEF WriteIntoVoid, TypeOK
  <2>2. InItsLane'
        BY <1>5 DEF WriteIntoVoid, TypeOK, InItsLane, Source, Sink
  <2>. QED BY <2>1, <2>2
<1>6. ASSUME NEW c \in Connections, NEW s \in Sides, WriteFails(c, s) PROVE Inv'
  <2> DEFINE h == Host(c, s)
             q == Source(c, s)
             r == hand[c][s]
  <2>0. h \in Hosts /\ q \in Traders
        BY Lanes
  <2>1. /\ pool' = [pool EXCEPT ![h][q] = @ \cup r]
        /\ hand' = [hand EXCEPT ![c][s] = {}]
        /\ ended' = [ended EXCEPT ![c] = @ \cup {s}]
        /\ UNCHANGED <<unsent, link, up, wire, lost>>
        BY <1>6 DEF WriteFails, Requeued
  <2>2. r \subseteq Packets /\ \A p \in r : p.from = q
        BY DEF TypeOK, InItsLane
  <2> HIDE DEF h, q, r
  <2>3. TypeOK'
        BY <2>0, <2>1, <2>2 DEF TypeOK
  <2>4. InItsLane'
        BY <2>0, <2>1, <2>2 DEF TypeOK, InItsLane, Source, Sink
  <2>. QED BY <2>3, <2>4
<1>7. ASSUME NEW c \in Connections, NEW s \in Sides, Receive(c, s) PROVE Inv'
  <2> DEFINE h == Host(c, s)
             q == Sink(c, s)
             w == wire[c][s]
             p == Head(w)
             v == Tail(w)
  <2>0. h \in Hosts /\ q \in Traders
        BY Lanes
  <2>1. w \in Seq(Packets) /\ w # <<>>
        BY <1>7 DEF Receive, TypeOK
  <2>2. /\ p \in Packets /\ 1 \in DOMAIN w /\ p = w[1]
        /\ v \in Seq(Packets)
        /\ \A i \in DOMAIN v : i + 1 \in DOMAIN w /\ v[i] = w[i + 1]
        BY <2>1, Shortened
  <2>3. \A i \in DOMAIN w : w[i].from = q
        BY DEF InItsLane
  <2>4. p.from = q /\ \A i \in DOMAIN v : v[i].from = q
        BY <2>2, <2>3
  <2>5. /\ wire' = [wire EXCEPT ![c][s] = v]
        /\ pool' = [pool EXCEPT ![h][q] = @ \cup {p}]
        /\ UNCHANGED <<unsent, link, up, ended, hand, lost>>
        BY <1>7 DEF Receive, TypeOK
  <2>a. q = Sink(c, s)
        OBVIOUS
  <2> HIDE DEF h, q, w, p, v
  <2>6. TypeOK'
        BY <2>0, <2>2, <2>5 DEF TypeOK
  <2>7. InItsLane'
        BY <2>0, <2>4, <2>5, <2>a DEF TypeOK, InItsLane, Source, Sink
  <2>. QED BY <2>6, <2>7
<1>8. ASSUME NEW c \in Connections, Break(c) PROVE Inv'
  <2>p. PICK n \in 0..Len(wire[c]["trader"]), m \in 0..Len(wire[c]["exchanger"]) :
        LET kept == [s \in Sides |-> SubSeq(wire[c][s], 1, IF s = "trader" THEN n ELSE m)]
        IN  /\ wire' = [wire EXCEPT ![c] = kept]
            /\ lost' = lost \cup UNION {InWire(wire[c][s]) \ InWire(kept[s]) : s \in Sides}
        BY <1>8 DEF Break
  <2> DEFINE kept == [s \in Sides |-> SubSeq(wire[c][s], 1, IF s = "trader" THEN n ELSE m)]
             gone == UNION {InWire(wire[c][s]) \ InWire(kept[s]) : s \in Sides}
  <2>1. \A s \in Sides :
          /\ kept[s] \in Seq(Packets)
          /\ \A i \in DOMAIN kept[s] :
               i \in DOMAIN wire[c][s] /\ kept[s][i] = wire[c][s][i]
    <3> TAKE s \in Sides
    <3>1. wire[c][s] \in Seq(Packets)
          BY DEF TypeOK
    <3>2. (IF s = "trader" THEN n ELSE m) \in 0..Len(wire[c][s])
          BY DEF Sides
    <3>. QED BY <3>1, <3>2, CutOff
  <2>2. gone \subseteq Packets
    <3>1. \A s \in Sides : InWire(wire[c][s]) \subseteq Packets
      <4> TAKE s \in Sides
      <4>1. wire[c][s] \in Seq(Packets)
            BY DEF TypeOK
      <4>. QED BY <4>1 DEF InWire
    <3>. QED BY <3>1
  <2>3. /\ wire' = [wire EXCEPT ![c] = kept]
        /\ lost' = lost \cup gone
        /\ link' = [link EXCEPT ![c] = "broken"]
        /\ UNCHANGED <<unsent, pool, up, ended, hand>>
        BY <2>p, <1>8 DEF Break
  <2>4. kept \in [Sides -> Seq(Packets)]
        BY <2>1
  <2>5. \A s \in Sides : \A i \in DOMAIN kept[s] : kept[s][i].from = Sink(c, s)
        BY <2>1 DEF InItsLane
  <2> HIDE DEF kept, gone
  <2>6. TypeOK'
        BY <2>2, <2>3, <2>4 DEF TypeOK
  <2>7. InItsLane'
        BY <2>3, <2>5 DEF TypeOK, InItsLane, Source, Sink
  <2>. QED BY <2>6, <2>7
<1>9. CASE UNCHANGED vars
      BY <1>9 DEF vars, TypeOK, InItsLane
<1>. QED
     BY <1>1, <1>2, <1>3, <1>4, <1>5, <1>6, <1>7, <1>8, <1>9 DEF Next

\* The invariant holds in every reachable state.
THEOREM InvariantHolds == Spec => []Inv
<1>. QED
     BY InitInv, NextInv, PTL DEF Spec

\* Types, and a Sender that has ended holds no packet.
THEOREM TypeCorrect == Spec => []TypeOK
<1>1. Inv => TypeOK
      BY DEF Inv
<1>. QED
     BY InvariantHolds, <1>1, PTL

\* However many connections and exchangers there are and whichever of them
\* break, a trader's Demux is only given packets the other trader encoded.
THEOREM NoEcho == Spec => []OnlyFromPeer
<1>1. Inv => OnlyFromPeer
      BY DEF Inv, InItsLane, OnlyFromPeer, Received, Hosts, Traders
<1>. QED
     BY InvariantHolds, <1>1, PTL

-----------------------------------------------------------------------------
(* Where a packet is.                                                      *)

Unsent == <<"unsent", 0, 0>>

Lost == <<"lost", 0, 0>>

Queued(h, t) == <<"pool", h, t>>

Held(c, s) == <<"hand", c, s>>

Sent(c, s) == <<"wire", c, s>>

Spots ==
  {Unsent, Lost} \cup ({"pool"} \X Hosts \X Traders)
    \cup ({"hand", "wire"} \X Connections \X Sides)

\* What is in each spot, for given values of the variables.
At(u, l, q, h, w) ==
  [x \in Spots |->
     CASE x[1] = "unsent" -> u
       [] x[1] = "lost" -> l
       [] x[1] = "pool" -> q[x[2]][x[3]]
       [] x[1] = "hand" -> h[x[2]][x[3]]
       [] x[1] = "wire" -> InWire(w[x[2]][x[3]])]

Contents == At(unsent, lost, pool, hand, wire)

\* Each packet is in one spot and in no other.
Partition(S, C) ==
  /\ \A p \in Packets : \E x \in S : p \in C[x]
  /\ \A x, y \in S : x # y => C[x] \cap C[y] = {}

\* From C to D the packets of M move from spot x to spot y.
Moves(S, C, D, x, y, M) ==
  /\ x \in S /\ y \in S /\ x # y
  /\ M \subseteq C[x] /\ D[x] = C[x] \ M /\ D[y] = C[y] \cup M
  /\ \A z \in S : z # x /\ z # y => D[z] = C[z]

Distinct(w) == \A i, j \in DOMAIN w : w[i] = w[j] => i = j

\* The inductive invariant of OnePlace: the spots part the packets, a packet
\* is in a wire once, and a Sender has one packet in its hand.
Parted ==
  /\ Partition(Spots, Contents)
  /\ \A c \in Connections : \A s \in Sides : Distinct(wire[c][s])
  /\ \A c \in Connections : \A s \in Sides : \A p, r \in hand[c][s] : p = r

\* The kinds of spots, each told from the others by its first component.
LEMMA Kinds ==
  /\ Unsent \in Spots /\ Lost \in Spots /\ Unsent # Lost
  /\ \A h \in Hosts, t \in Traders : Queued(h, t) \in Spots
  /\ \A c \in Connections, s \in Sides : Held(c, s) \in Spots /\ Sent(c, s) \in Spots
  /\ \A x \in Spots :
       \/ x = Unsent \/ x = Lost
       \/ \E h \in Hosts, t \in Traders : x = Queued(h, t)
       \/ \E c \in Connections, s \in Sides : x = Held(c, s) \/ x = Sent(c, s)
BY DEF Spots, Unsent, Lost, Queued, Held, Sent

\* No two of them are the same spot.
LEMMA Apart ==
  /\ \A h, t : Queued(h, t) # Unsent /\ Queued(h, t) # Lost
  /\ \A c, s : Held(c, s) # Unsent /\ Held(c, s) # Lost
  /\ \A c, s : Sent(c, s) # Unsent /\ Sent(c, s) # Lost
  /\ \A h, t, c, s : Queued(h, t) # Held(c, s)
  /\ \A h, t, c, s : Queued(h, t) # Sent(c, s)
  /\ \A d, o, c, s : Held(d, o) # Sent(c, s)
BY DEF Unsent, Lost, Queued, Held, Sent

\* What At says of each kind.
LEMMA Filled ==
  ASSUME NEW u, NEW l, NEW q, NEW h, NEW w
  PROVE  LET C == At(u, l, q, h, w)
         IN  /\ C[Unsent] = u /\ C[Lost] = l
             /\ \A i \in Hosts, t \in Traders : C[Queued(i, t)] = q[i][t]
             /\ \A c \in Connections, s \in Sides :
                  C[Held(c, s)] = h[c][s] /\ C[Sent(c, s)] = InWire(w[c][s])
BY Kinds DEF At, Unsent, Lost, Queued, Held, Sent

\* A function of two arguments that is changed in one place.
LEMMA Changed ==
  ASSUME NEW A, NEW B, NEW V, NEW f \in [A -> [B -> V]], NEW a \in A, NEW b \in B, NEW v
  PROVE  \A i \in A, j \in B :
           [f EXCEPT ![a][b] = v][i][j] = IF i = a /\ j = b THEN v ELSE f[i][j]
OBVIOUS

\* A set of packets that moves from one spot to another leaves the partition
\* one.
LEMMA Moved ==
  ASSUME NEW S, NEW C, NEW D, NEW x, NEW y, NEW M,
         Moves(S, C, D, x, y, M), Partition(S, C)
  PROVE  Partition(S, D)
<1>0. /\ x \in S /\ y \in S /\ x # y
      /\ M \subseteq C[x] /\ D[x] = C[x] \ M /\ D[y] = C[y] \cup M
      /\ \A z \in S : z # x /\ z # y => D[z] = C[z]
      BY DEF Moves
<1>1. ASSUME NEW p \in Packets PROVE \E z \in S : p \in D[z]
  <2> PICK z \in S : p \in C[z]
      BY DEF Partition
  <2>1. CASE z = x
        BY <1>0, <2>1
  <2>2. CASE z = y
        BY <1>0, <2>2
  <2>3. CASE z # x /\ z # y
        BY <1>0, <2>3
  <2>. QED BY <2>1, <2>2, <2>3
<1>2. ASSUME NEW a \in S, NEW b \in S, a # b PROVE D[a] \cap D[b] = {}
  <2>1. C[a] \cap C[b] = {} /\ C[x] \cap C[y] = {}
        BY <1>0, <1>2 DEF Partition
  <2>2. (a # x => C[a] \cap C[x] = {}) /\ (b # x => C[b] \cap C[x] = {})
        BY <1>0 DEF Partition
  <2>3. CASE a = y
        BY <1>0, <1>2, <2>1, <2>2, <2>3
  <2>4. CASE b = y
        BY <1>0, <1>2, <2>1, <2>2, <2>4
  <2>5. CASE a # y /\ b # y
        BY <1>0, <2>1, <2>5
  <2>. QED BY <2>3, <2>4, <2>5
<1>. QED BY <1>1, <1>2 DEF Partition

\* A packet that is not in a wire yet, appended to it.
LEMMA AppendedOnce ==
  ASSUME NEW S, NEW w \in Seq(S), NEW p \in S, Distinct(w), p \notin InWire(w)
  PROVE  Distinct(Append(w, p)) /\ InWire(Append(w, p)) = InWire(w) \cup {p}
<1> DEFINE v == Append(w, p)
<1>1. /\ DOMAIN w = 1..Len(w) /\ Len(w) \in Nat /\ DOMAIN v = 1..(Len(w) + 1)
      /\ v[Len(w) + 1] = p /\ \A i \in DOMAIN w : v[i] = w[i]
      BY AppendProperties
<1> HIDE DEF v
<1>. QED BY <1>1 DEF Distinct, InWire

\* The first packet of a wire, taken from it.
LEMMA ShortenedOnce ==
  ASSUME NEW S, NEW w \in Seq(S), w # <<>>, Distinct(w)
  PROVE  /\ Distinct(Tail(w)) /\ Head(w) \in InWire(w)
         /\ InWire(Tail(w)) = InWire(w) \ {Head(w)}
<1> DEFINE v == Tail(w)
<1>1. /\ DOMAIN w = 1..Len(w) /\ Len(w) \in Nat \ {0} /\ DOMAIN v = 1..(Len(w) - 1)
      /\ Head(w) = w[1] /\ \A i \in DOMAIN v : v[i] = w[i + 1]
      BY HeadTailProperties
<1> HIDE DEF v
<1>2. Distinct(v) /\ Head(w) \in InWire(w)
      BY <1>1 DEF Distinct, InWire
<1>3. InWire(v) \subseteq InWire(w) \ {Head(w)}
      BY <1>1 DEF Distinct, InWire
<1>4. ASSUME NEW p \in InWire(w) \ {Head(w)} PROVE p \in InWire(v)
  <2> PICK i \in DOMAIN w : p = w[i]
      BY DEF InWire
  <2>1. i - 1 \in DOMAIN v /\ v[i - 1] = w[i]
        BY <1>1
  <2>. QED BY <2>1 DEF InWire
<1>. QED BY <1>2, <1>3, <1>4 DEF v

\* A wire whose end was cut off.
LEMMA CutOnce ==
  ASSUME NEW S, NEW w \in Seq(S), NEW n \in 0..Len(w), Distinct(w)
  PROVE  Distinct(SubSeq(w, 1, n)) /\ InWire(SubSeq(w, 1, n)) \subseteq InWire(w)
<1> DEFINE v == SubSeq(w, 1, n)
<1>1. \A i \in DOMAIN v : i \in DOMAIN w /\ v[i] = w[i]
      BY CutOff
<1> HIDE DEF v
<1>. QED BY <1>1 DEF Distinct, InWire, v

\* All packets are unsent at first.
LEMMA InitParted == Init => Parted
<1> SUFFICES ASSUME Init PROVE Parted
    OBVIOUS
<1> DEFINE C == Contents
<1>1. C[Unsent] = Packets /\ \A x \in Spots : x # Unsent => C[x] = {}
  <2>1. C[Unsent] = Packets /\ C[Lost] = {}
        BY Filled DEF Init, Contents
  <2>2. \A h \in Hosts, t \in Traders : C[Queued(h, t)] = {}
        BY Filled DEF Init, Contents
  <2>3. \A c \in Connections, s \in Sides : C[Held(c, s)] = {} /\ C[Sent(c, s)] = {}
    <3>1. InWire(<<>>) = {}
          BY DEF InWire
    <3>. QED BY <3>1, Filled DEF Init, Contents
  <2> HIDE DEF C
  <2>. QED BY <2>1, <2>2, <2>3, Kinds
<1> HIDE DEF C
<1>2. Partition(Spots, C)
      BY <1>1, Kinds DEF Partition
<1>3. \A c \in Connections : \A s \in Sides : Distinct(wire[c][s])
      BY DEF Init, Distinct
<1>4. \A c \in Connections : \A s \in Sides : \A p, r \in hand[c][s] : p = r
      BY DEF Init
<1>. QED BY <1>2, <1>3, <1>4 DEF Parted, C

\* Every step moves packets from one spot to another, or none.
LEMMA NextParted == Inv /\ Parted /\ [Next]_vars => Parted'
<1> SUFFICES ASSUME Inv, Parted, [Next]_vars PROVE Parted'
    OBVIOUS
<1> DEFINE C == Contents
           D == Contents'
<1> USE DEF Inv
<1>c. /\ C[Unsent] = unsent /\ C[Lost] = lost
      /\ \A h \in Hosts, t \in Traders : C[Queued(h, t)] = pool[h][t]
      /\ \A c \in Connections, s \in Sides :
           C[Held(c, s)] = hand[c][s] /\ C[Sent(c, s)] = InWire(wire[c][s])
      BY Filled DEF Contents
<1>d. /\ D[Unsent] = unsent' /\ D[Lost] = lost'
      /\ \A h \in Hosts, t \in Traders : D[Queued(h, t)] = pool'[h][t]
      /\ \A c \in Connections, s \in Sides :
           D[Held(c, s)] = hand'[c][s] /\ D[Sent(c, s)] = InWire(wire'[c][s])
      BY Filled DEF Contents
<1>p. Partition(Spots, C)
      BY DEF Parted
<1> HIDE DEF C, D
<1>1. ASSUME NEW t \in Traders, Flush(t) PROVE Parted'
  <2> PICK p \in unsent : /\ p.from = t
                          /\ unsent' = unsent \ {p}
                          /\ pool' = [pool EXCEPT ![t][t] = @ \cup {p}]
      BY <1>1 DEF Flush
  <2> DEFINE y == Queued(t, t)
  <2>0. t \in Hosts /\ UNCHANGED <<link, up, ended, hand, wire, lost>>
        BY <1>1 DEF Hosts, Flush
  <2>e. \A i \in Hosts, j \in Traders :
          pool'[i][j] = IF i = t /\ j = t THEN pool[t][t] \cup {p} ELSE pool[i][j]
        BY <2>0, Changed DEF TypeOK
  <2>1. y \in Spots /\ Unsent # y
        BY <2>0, Kinds, Apart
  <2>2. D[Unsent] = C[Unsent] \ {p} /\ D[y] = C[y] \cup {p} /\ {p} \subseteq C[Unsent]
        BY <1>c, <1>d, <2>0, <2>e
  <2>3. \A z \in Spots : z # Unsent /\ z # y => D[z] = C[z]
        BY <1>c, <1>d, <2>0, <2>e, Kinds
  <2> HIDE DEF y
  <2>4. Moves(Spots, C, D, Unsent, y, {p})
        BY <2>1, <2>2, <2>3, Kinds DEF Moves
  <2>5. Partition(Spots, D)
        BY <1>p, <2>4, Moved
  <2>. QED BY <2>5, <2>0 DEF Parted, D
<1>2. ASSUME NEW c \in Connections, Connect(c) \/ GiveUp(c) \/ Accept(c) PROVE Parted'
  <2>1. UNCHANGED <<unsent, pool, hand, wire, lost>>
        BY <1>2 DEF Connect, GiveUp, Accept
  <2>2. D = C
        BY <2>1 DEF C, D, Contents
  <2>. QED BY <2>1, <2>2, <1>p DEF Parted, D
<1>3. ASSUME NEW c \in Connections, NEW s \in Sides, Take(c, s) PROVE Parted'
  <2> DEFINE h == Host(c, s)
             q == Source(c, s)
             x == Queued(h, q)
             y == Held(c, s)
  <2>0. h \in Hosts /\ q \in Traders
        BY Lanes
  <2> PICK p \in Top(pool[h][q]) :
        /\ pool' = [pool EXCEPT ![h][q] = @ \ {p}]
        /\ hand' = [hand EXCEPT ![c][s] = {p}]
      BY <1>3 DEF Take
  <2>1. p \in pool[h][q] /\ hand[c][s] = {} /\ UNCHANGED <<unsent, wire, lost>>
        BY <1>3 DEF Top, Take
  <2> HIDE DEF h, q
  <2>e. \A i \in Hosts, j \in Traders :
          pool'[i][j] = IF i = h /\ j = q THEN pool[h][q] \ {p} ELSE pool[i][j]
        BY <2>0, Changed DEF TypeOK
  <2>f. \A d \in Connections, o \in Sides :
          hand'[d][o] = IF d = c /\ o = s THEN {p} ELSE hand[d][o]
        BY <2>0 DEF TypeOK
  <2>2. x \in Spots /\ y \in Spots /\ x # y
        BY <2>0, Kinds, Apart
  <2>3. D[x] = C[x] \ {p} /\ D[y] = C[y] \cup {p} /\ {p} \subseteq C[x]
        BY <1>c, <1>d, <2>0, <2>1, <2>e, <2>f
  <2>4. \A z \in Spots : z # x /\ z # y => D[z] = C[z]
        BY <1>c, <1>d, <2>0, <2>1, <2>e, <2>f, Kinds
  <2>5. \A d \in Connections : \A o \in Sides : \A a, b \in hand'[d][o] : a = b
        BY <2>e, <2>f DEF Parted
  <2> HIDE DEF x, y
  <2>6. Partition(Spots, D)
    <3>1. Moves(Spots, C, D, x, y, {p})
          BY <2>2, <2>3, <2>4 DEF Moves
    <3>. QED BY <1>p, <3>1, Moved
  <2>. QED BY <2>1, <2>5, <2>6 DEF Parted, D
<1>4. ASSUME NEW c \in Connections, NEW s \in Sides, Write(c, s) PROVE Parted'
  <2>p. PICK p \in hand[c][s] : wire' = [wire EXCEPT ![c][Other(s)] = Append(@, p)]
        BY <1>4 DEF Write
  <2> DEFINE o == Other(s)
             w == wire[c][o]
             v == Append(w, p)
             x == Held(c, s)
             y == Sent(c, o)
  <2>0. o \in Sides
        BY Lanes
  <2>1. p \in Packets /\ w \in Seq(Packets) /\ Distinct(w)
        BY <2>0 DEF TypeOK, Parted
  <2>2. hand[c][s] = {p}
        BY DEF Parted
  <2>3. x \in Spots /\ y \in Spots /\ x # y
    <3>1. x # y
          BY DEF Held, Sent
    <3>. QED BY <3>1, <2>0, Kinds
  <2>4. p \notin InWire(w)
    <3>1. C[x] \cap C[y] = {}
          BY <1>p, <2>3 DEF Partition
    <3>. QED BY <3>1, <1>c, <2>0, <2>2
  <2>5. Distinct(v) /\ InWire(v) = InWire(w) \cup {p}
        BY <2>1, <2>4, AppendedOnce
  <2>6. wire' = [wire EXCEPT ![c][o] = v]
        BY <2>p, <2>0 DEF TypeOK
  <2>7. hand' = [hand EXCEPT ![c][s] = {}] /\ UNCHANGED <<unsent, pool, lost>>
        BY <1>4 DEF Write, AfterWrite
  <2>a. C[x] = {p} /\ C[y] = InWire(w)
        BY <1>c, <2>0, <2>2
  <2> HIDE DEF o, w, v
  <2>e. \A d \in Connections, e \in Sides :
          /\ hand'[d][e] = IF d = c /\ e = s THEN {} ELSE hand[d][e]
          /\ wire'[d][e] = IF d = c /\ e = o THEN v ELSE wire[d][e]
        BY <2>0, <2>6, <2>7 DEF TypeOK
  <2>8. D[x] = C[x] \ {p} /\ D[y] = C[y] \cup {p}
        BY <1>d, <2>0, <2>a, <2>5, <2>e
  <2>9. \A z \in Spots : z # x /\ z # y => D[z] = C[z]
        BY <1>c, <1>d, <2>7, <2>e, Kinds
  <2>10. \A d \in Connections : \A e \in Sides :
           /\ Distinct(wire'[d][e])
           /\ \A a, b \in hand'[d][e] : a = b
        BY <2>5, <2>e DEF Parted
  <2> HIDE DEF x, y
  <2>11. Partition(Spots, D)
    <3>1. Moves(Spots, C, D, x, y, {p})
          BY <2>3, <2>8, <2>9, <2>a DEF Moves
    <3>. QED BY <1>p, <3>1, Moved
  <2>. QED BY <2>10, <2>11 DEF Parted, D
<1>5. ASSUME NEW c \in Connections, NEW s \in Sides, WriteIntoVoid(c, s) PROVE Parted'
  <2> DEFINE M == hand[c][s]
             x == Held(c, s)
  <2>0. /\ hand' = [hand EXCEPT ![c][s] = {}] /\ lost' = lost \cup M
        /\ UNCHANGED <<unsent, pool, wire>>
        BY <1>5 DEF WriteIntoVoid
  <2>e. \A d \in Connections, o \in Sides :
          hand'[d][o] = IF d = c /\ o = s THEN {} ELSE hand[d][o]
        BY <2>0 DEF TypeOK
  <2>1. x \in Spots /\ Lost \in Spots /\ x # Lost
        BY Kinds, Apart
  <2>2. D[x] = C[x] \ M /\ D[Lost] = C[Lost] \cup M /\ M \subseteq C[x]
        BY <1>c, <1>d, <2>0, <2>e
  <2>3. \A z \in Spots : z # x /\ z # Lost => D[z] = C[z]
        BY <1>c, <1>d, <2>0, <2>e, Kinds
  <2>4. \A d \in Connections : \A o \in Sides : \A a, b \in hand'[d][o] : a = b
        BY <2>e DEF Parted
  <2> HIDE DEF x, M
  <2>5. Partition(Spots, D)
    <3>1. Moves(Spots, C, D, x, Lost, M)
          BY <2>1, <2>2, <2>3 DEF Moves
    <3>. QED BY <1>p, <3>1, Moved
  <2>. QED BY <2>0, <2>4, <2>5 DEF Parted, D
<1>6. ASSUME NEW c \in Connections, NEW s \in Sides, WriteFails(c, s) PROVE Parted'
  <2> DEFINE M == hand[c][s]
             h == Host(c, s)
             q == Source(c, s)
             x == Held(c, s)
             y == Queued(h, q)
  <2>0. h \in Hosts /\ q \in Traders
        BY Lanes
  <2>1. /\ pool' = [pool EXCEPT ![h][q] = @ \cup M]
        /\ hand' = [hand EXCEPT ![c][s] = {}]
        /\ UNCHANGED <<unsent, wire, lost>>
        BY <1>6 DEF WriteFails, Requeued
  <2> HIDE DEF h, q
  <2>e. \A i \in Hosts, j \in Traders :
          pool'[i][j] = IF i = h /\ j = q THEN pool[h][q] \cup M ELSE pool[i][j]
        BY <2>0, <2>1, Changed DEF TypeOK
  <2>f. \A d \in Connections, o \in Sides :
          hand'[d][o] = IF d = c /\ o = s THEN {} ELSE hand[d][o]
        BY <2>0, <2>1 DEF TypeOK
  <2>2. x \in Spots /\ y \in Spots /\ x # y
        BY <2>0, Kinds, Apart
  <2>3. D[x] = C[x] \ M /\ D[y] = C[y] \cup M /\ M \subseteq C[x]
        BY <1>c, <1>d, <2>0, <2>e, <2>f
  <2>4. \A z \in Spots : z # x /\ z # y => D[z] = C[z]
        BY <1>c, <1>d, <2>0, <2>1, <2>e, <2>f, Kinds
  <2>5. \A d \in Connections : \A o \in Sides : \A a, b \in hand'[d][o] : a = b
        BY <2>e, <2>f DEF Parted
  <2> HIDE DEF x, y, M
  <2>6. Partition(Spots, D)
    <3>1. Moves(Spots, C, D, x, y, M)
          BY <2>2, <2>3, <2>4 DEF Moves
    <3>. QED BY <1>p, <3>1, Moved
  <2>. QED BY <2>1, <2>5, <2>6 DEF Parted, D
<1>7. ASSUME NEW c \in Connections, NEW s \in Sides, Receive(c, s) PROVE Parted'
  <2> DEFINE h == Host(c, s)
             q == Sink(c, s)
             w == wire[c][s]
             p == Head(w)
             v == Tail(w)
             x == Sent(c, s)
             y == Queued(h, q)
  <2>0. h \in Hosts /\ q \in Traders
        BY Lanes
  <2>1. w \in Seq(Packets) /\ w # <<>> /\ Distinct(w)
        BY <1>7 DEF Receive, TypeOK, Parted
  <2>2. Distinct(v) /\ InWire(v) = InWire(w) \ {p} /\ p \in InWire(w)
        BY <2>1, ShortenedOnce
  <2>3. /\ wire' = [wire EXCEPT ![c][s] = v]
        /\ pool' = [pool EXCEPT ![h][q] = @ \cup {p}]
        /\ UNCHANGED <<unsent, hand, lost>>
        BY <1>7 DEF Receive, TypeOK
  <2>4. x \in Spots /\ y \in Spots /\ x # y
        BY <2>0, Kinds, Apart
  <2>a. C[x] = InWire(w)
        BY <1>c
  <2> HIDE DEF h, q, w, p, v
  <2>e. \A i \in Hosts, j \in Traders :
          pool'[i][j] = IF i = h /\ j = q THEN pool[h][q] \cup {p} ELSE pool[i][j]
        BY <2>0, <2>3, Changed DEF TypeOK
  <2>f. \A d \in Connections, e \in Sides :
          wire'[d][e] = IF d = c /\ e = s THEN v ELSE wire[d][e]
        BY <2>0, <2>3 DEF TypeOK
  <2>5. D[x] = C[x] \ {p} /\ D[y] = C[y] \cup {p} /\ {p} \subseteq C[x]
        BY <1>c, <1>d, <2>0, <2>2, <2>a, <2>e, <2>f
  <2>6. \A z \in Spots : z # x /\ z # y => D[z] = C[z]
        BY <1>c, <1>d, <2>0, <2>3, <2>e, <2>f, Kinds
  <2>7. \A d \in Connections : \A e \in Sides : Distinct(wire'[d][e])
        BY <2>2, <2>e, <2>f DEF Parted
  <2> HIDE DEF x, y
  <2>8. Partition(Spots, D)
    <3>1. Moves(Spots, C, D, x, y, {p})
          BY <2>4, <2>5, <2>6 DEF Moves
    <3>. QED BY <1>p, <3>1, Moved
  <2>. QED BY <2>3, <2>7, <2>8 DEF Parted, D
<1>8. ASSUME NEW c \in Connections, Break(c) PROVE Parted'
  <2>p. PICK n \in 0..Len(wire[c]["trader"]), m \in 0..Len(wire[c]["exchanger"]) :
        LET kept == [s \in Sides |-> SubSeq(wire[c][s], 1, IF s = "trader" THEN n ELSE m)]
        IN  /\ wire' = [wire EXCEPT ![c] = kept]
            /\ lost' = lost \cup UNION {InWire(wire[c][s]) \ InWire(kept[s]) : s \in Sides}
        BY <1>8 DEF Break
  <2> DEFINE kept == [s \in Sides |-> SubSeq(wire[c][s], 1, IF s = "trader" THEN n ELSE m)]
             Gone(s) == InWire(wire[c][s]) \ InWire(kept[s])
             x(s) == Sent(c, s)
             E == [C EXCEPT ![x("trader")] = @ \ Gone("trader"), ![Lost] = @ \cup Gone("trader")]
  <2>0. "trader" \in Sides /\ "exchanger" \in Sides /\ Sides = {"trader", "exchanger"}
        BY DEF Sides
  <2>1. \A s \in Sides : Distinct(kept[s]) /\ InWire(kept[s]) \subseteq InWire(wire[c][s])
    <3> TAKE s \in Sides
    <3>1. wire[c][s] \in Seq(Packets) /\ Distinct(wire[c][s])
          BY DEF TypeOK, Parted
    <3>2. (IF s = "trader" THEN n ELSE m) \in 0..Len(wire[c][s])
          BY DEF Sides
    <3>. QED BY <3>1, <3>2, CutOnce
  <2>2. /\ wire' = [wire EXCEPT ![c] = kept]
        /\ lost' = lost \cup Gone("trader") \cup Gone("exchanger")
        /\ UNCHANGED <<unsent, pool, hand>>
        BY <2>p, <1>8, <2>0 DEF Break
  <2>3. /\ \A s \in Sides : x(s) \in Spots /\ x(s) # Lost
        /\ x("trader") # x("exchanger") /\ Lost \in Spots
    <3>1. x("trader") # x("exchanger")
          BY DEF Sent
    <3>. QED BY <3>1, <2>0, Kinds, Apart
  <2>4. \A s \in Sides : /\ C[x(s)] = InWire(wire[c][s]) /\ Gone(s) \subseteq C[x(s)]
                         /\ D[x(s)] = C[x(s)] \ Gone(s)
    <3> TAKE s \in Sides
    <3>1. wire'[c] = kept
          BY <2>2 DEF TypeOK
    <3> HIDE DEF kept
    <3>2. C[x(s)] = InWire(wire[c][s]) /\ D[x(s)] = InWire(kept[s])
          BY <3>1, <1>c, <1>d
    <3> HIDE DEF x
    <3>. QED BY <3>2, <2>1
  <2>5. D[Lost] = C[Lost] \cup Gone("trader") \cup Gone("exchanger")
        BY <1>c, <1>d, <2>2
  <2> HIDE DEF Gone
  <2>e. wire'[c] = kept /\ \A d \in Connections : d # c => wire'[d] = wire[d]
        BY <2>2 DEF TypeOK
  <2>6. \A z \in Spots : (\A s \in Sides : z # x(s)) /\ z # Lost => D[z] = C[z]
    <3> HIDE DEF kept
    <3>. QED BY <1>c, <1>d, <2>2, <2>e, Kinds
  <2>7. \A d \in Connections : \A s \in Sides : Distinct(wire'[d][s])
    <3> HIDE DEF kept
    <3>. QED BY <2>1, <2>e DEF Parted
  <2> HIDE DEF kept, x
  <2>8. DOMAIN C = Spots
        BY DEF C, Contents, At
  <2>9. Partition(Spots, E)
    <3>1. /\ E[x("trader")] = C[x("trader")] \ Gone("trader")
          /\ E[Lost] = C[Lost] \cup Gone("trader")
          /\ \A z \in Spots : z # x("trader") /\ z # Lost => E[z] = C[z]
          BY <2>0, <2>3, <2>8
    <3> HIDE DEF E
    <3>2. Moves(Spots, C, E, x("trader"), Lost, Gone("trader"))
          BY <3>1, <2>0, <2>3, <2>4 DEF Moves
    <3>. QED BY <3>2, <1>p, Moved
  <2>10. Partition(Spots, D)
    <3>1. /\ D[x("exchanger")] = E[x("exchanger")] \ Gone("exchanger")
          /\ E[x("exchanger")] = C[x("exchanger")]
          /\ D[Lost] = E[Lost] \cup Gone("exchanger")
          BY <2>0, <2>3, <2>4, <2>5, <2>8
    <3>2. \A z \in Spots : z # x("exchanger") /\ z # Lost => D[z] = E[z]
          BY <2>0, <2>3, <2>4, <2>6, <2>8
    <3> HIDE DEF E
    <3>3. Moves(Spots, E, D, x("exchanger"), Lost, Gone("exchanger"))
          BY <3>1, <3>2, <2>0, <2>3, <2>4 DEF Moves
    <3>. QED BY <3>3, <2>9, Moved
  <2>. QED BY <2>2, <2>7, <2>10 DEF Parted, D
<1>9. CASE UNCHANGED vars
  <2>1. D = C
        BY <1>9 DEF vars, C, D, Contents
  <2>. QED BY <1>9, <2>1, <1>p DEF vars, Parted, D
<1>. QED
     BY <1>1, <1>2, <1>3, <1>4, <1>5, <1>6, <1>7, <1>8, <1>9 DEF Next

\* Where the spots part the packets there is one place for each of them.
LEMMA PartedOnePlace == Inv /\ Parted => OnePlace
<1> SUFFICES ASSUME Inv, Parted, NEW p \in Packets
             PROVE  Cardinality({x \in Places : x[2] = p}) = 1
    BY DEF OnePlace
<1> DEFINE X == {x \in Places : x[2] = p}
           C == Contents
<1>c. /\ C[Unsent] = unsent /\ C[Lost] = lost
      /\ \A h \in Hosts, t \in Traders : C[Queued(h, t)] = pool[h][t]
      /\ \A c \in Connections, s \in Sides :
           C[Held(c, s)] = hand[c][s] /\ C[Sent(c, s)] = InWire(wire[c][s])
      BY Filled DEF Contents
<1>p. Partition(Spots, C)
      BY DEF Parted
<1>1. \A x : x \in X <=>
        \/ x = <<"unsent", p>> /\ p \in unsent
        \/ x = <<"lost", p>> /\ p \in lost
        \/ \E h \in Hosts, t \in Traders : x = <<"pool", p, h, t>> /\ p \in pool[h][t]
        \/ \E c \in Connections, s \in Sides : x = <<"hand", p, c, s>> /\ p \in hand[c][s]
        \/ \E c \in Connections, s \in Sides : \E i \in DOMAIN wire[c][s] :
             x = <<"wire", p, c, s, i>> /\ wire[c][s][i] = p
  <2> TAKE x
  <2>1. x \in Places <=>
          \/ \E r \in unsent : x = <<"unsent", r>>
          \/ \E r \in lost : x = <<"lost", r>>
          \/ \E h \in Hosts, t \in Traders : \E r \in pool[h][t] : x = <<"pool", r, h, t>>
          \/ \E c \in Connections, s \in Sides : \E r \in hand[c][s] : x = <<"hand", r, c, s>>
          \/ \E c \in Connections, s \in Sides : \E i \in DOMAIN wire[c][s] :
               x = <<"wire", wire[c][s][i], c, s, i>>
    <3> DEFINE P(h, t) == {<<"pool", r, h, t>> : r \in pool[h][t]}
               H(c, s) == {<<"hand", r, c, s>> : r \in hand[c][s]}
               W(c, s) == {<<"wire", wire[c][s][i], c, s, i>> : i \in DOMAIN wire[c][s]}
    <3>1. /\ \A h, t : x \in P(h, t) <=> \E r \in pool[h][t] : x = <<"pool", r, h, t>>
          /\ \A c, s : x \in H(c, s) <=> \E r \in hand[c][s] : x = <<"hand", r, c, s>>
          /\ \A c, s : x \in W(c, s) <=>
               \E i \in DOMAIN wire[c][s] : x = <<"wire", wire[c][s][i], c, s, i>>
          OBVIOUS
    <3>2. x \in Places <=>
            \/ \E r \in unsent : x = <<"unsent", r>>
            \/ \E r \in lost : x = <<"lost", r>>
            \/ x \in UNION {P(h, t) : h \in Hosts, t \in Traders}
            \/ x \in UNION {H(c, s) : c \in Connections, s \in Sides}
            \/ x \in UNION {W(c, s) : c \in Connections, s \in Sides}
          BY DEF Places
    <3> HIDE DEF P, H, W
    <3>3. x \in UNION {P(h, t) : h \in Hosts, t \in Traders}
            <=> \E h \in Hosts, t \in Traders : x \in P(h, t)
          OBVIOUS
    <3>4. x \in UNION {H(c, s) : c \in Connections, s \in Sides}
            <=> \E c \in Connections, s \in Sides : x \in H(c, s)
          OBVIOUS
    <3>5. x \in UNION {W(c, s) : c \in Connections, s \in Sides}
            <=> \E c \in Connections, s \in Sides : x \in W(c, s)
          OBVIOUS
    <3>. QED BY <3>1, <3>2, <3>3, <3>4, <3>5
  <2>2. CASE x[2] = p
        BY <2>1, <2>2
  <2>3. CASE x[2] # p
        BY <2>1, <2>3
  <2>. QED BY <2>2, <2>3
<1> HIDE DEF X, C
<1> SUFFICES \E x : X = {x}
    BY FS_Singleton DEF X
<1> PICK z \in Spots : p \in C[z]
    BY <1>p DEF Partition
<1>2. \A y \in Spots : p \in C[y] => y = z
      BY <1>p DEF Partition
<1>3. /\ p \in unsent => z = Unsent
      /\ p \in lost => z = Lost
      /\ \A h \in Hosts, t \in Traders : p \in pool[h][t] => z = Queued(h, t)
      /\ \A c \in Connections, s \in Sides : p \in hand[c][s] => z = Held(c, s)
      /\ \A c \in Connections, s \in Sides : \A i \in DOMAIN wire[c][s] :
           wire[c][s][i] = p => z = Sent(c, s)
      BY <1>2, <1>c, Kinds DEF InWire
<1>4. CASE z = Unsent
  <2>1. X = {<<"unsent", p>>}
        BY <1>1, <1>3, <1>4, <1>c, Kinds, Apart
  <2>. QED BY <2>1
<1>5. CASE z = Lost
  <2>1. X = {<<"lost", p>>}
        BY <1>1, <1>3, <1>5, <1>c, Kinds, Apart
  <2>. QED BY <2>1
<1>6. ASSUME NEW h \in Hosts, NEW t \in Traders, z = Queued(h, t) PROVE \E x : X = {x}
  <2>1. p \in pool[h][t]
        BY <1>6, <1>c
  <2>2. p \notin unsent /\ p \notin lost
        BY <1>3, <1>6, Apart
  <2>3. \A i \in Hosts, j \in Traders : p \in pool[i][j] => i = h /\ j = t
    <3> TAKE i \in Hosts, j \in Traders
    <3> HAVE p \in pool[i][j]
    <3>1. Queued(h, t) = Queued(i, j)
          BY <1>3, <1>6
    <3>. QED BY <3>1 DEF Queued
  <2>4. \A c \in Connections, s \in Sides :
          p \notin hand[c][s] /\ \A i \in DOMAIN wire[c][s] : wire[c][s][i] # p
        BY <1>3, <1>6, Apart
  <2>5. X = {<<"pool", p, h, t>>}
        BY <1>1, <2>1, <2>2, <2>3, <2>4
  <2>. QED BY <2>5
<1>7. ASSUME NEW c \in Connections, NEW s \in Sides, z = Held(c, s) PROVE \E x : X = {x}
  <2>1. p \in hand[c][s]
        BY <1>7, <1>c
  <2>2. /\ p \notin unsent /\ p \notin lost
        /\ \A h \in Hosts, t \in Traders : p \notin pool[h][t]
        BY <1>3, <1>7, Apart
  <2>3. \A d \in Connections, o \in Sides : p \in hand[d][o] => d = c /\ o = s
    <3> TAKE d \in Connections, o \in Sides
    <3> HAVE p \in hand[d][o]
    <3>1. Held(c, s) = Held(d, o)
          BY <1>3, <1>7
    <3>. QED BY <3>1 DEF Held
  <2>4. \A d \in Connections, o \in Sides : \A i \in DOMAIN wire[d][o] : wire[d][o][i] # p
        BY <1>3, <1>7, Apart
  <2>5. X = {<<"hand", p, c, s>>}
        BY <1>1, <2>1, <2>2, <2>3, <2>4
  <2>. QED BY <2>5
<1>8. ASSUME NEW c \in Connections, NEW s \in Sides, z = Sent(c, s) PROVE \E x : X = {x}
  <2> PICK i \in DOMAIN wire[c][s] : wire[c][s][i] = p
      BY <1>8, <1>c DEF InWire
  <2>1. \A j \in DOMAIN wire[c][s] : wire[c][s][j] = p => j = i
        BY DEF Parted, Distinct
  <2>2. /\ p \notin unsent /\ p \notin lost
        /\ \A h \in Hosts, t \in Traders : p \notin pool[h][t]
        BY <1>3, <1>8, Apart
  <2>3. \A d \in Connections, o \in Sides : p \notin hand[d][o]
        BY <1>3, <1>8, Apart
  <2>4. \A d \in Connections, o \in Sides : \A j \in DOMAIN wire[d][o] :
          wire[d][o][j] = p => d = c /\ o = s
    <3> TAKE d \in Connections, o \in Sides
    <3> TAKE j \in DOMAIN wire[d][o]
    <3> HAVE wire[d][o][j] = p
    <3>1. Sent(c, s) = Sent(d, o)
          BY <1>3, <1>8
    <3>. QED BY <3>1 DEF Sent
  <2>5. X = {<<"wire", p, c, s, i>>}
        BY <1>1, <2>1, <2>2, <2>3, <2>4
  <2>. QED BY <2>5
<1>. QED BY <1>4, <1>5, <1>6, <1>7, <1>8, Kinds

\* The spots part the packets in every reachable state.
LEMMA AlwaysParted == Spec => []Parted
<1>. QED
     BY InvariantHolds, InitParted, NextParted, PTL DEF Spec

\* However many connections break, and however often a packet is put back,
\* every packet is in exactly one place: it is not duplicated by a requeue, and
\* it vanishes only with a connection that is gone.
THEOREM EachInOnePlace == Spec => []OnePlace
<1>. QED
     BY InvariantHolds, AlwaysParted, PartedOnePlace, PTL

-----------------------------------------------------------------------------
(* The network is a channel.                                               *)

\* The channel's variables, as Network instantiates them.
ChUnsent == [t \in Traders |-> {p \in unsent : p.from = t}]

ChTransit == [t \in Traders |-> Transit(t)]

ChArrived == [t \in Traders |-> Received(1 - t)]

ChLost == [t \in Traders |-> {p \in lost : p.from = t}]

\* A Sender never drains what was received for its own trader.
LEMMA NotReceived ==
  ASSUME NEW c \in Connections, NEW s \in Sides, NEW t \in Traders
  PROVE  /\ ~(Host(c, s) = 1 - t /\ Source(c, s) = t)
         /\ 1 - t \in Hosts /\ 1 - t \in Traders /\ 1 - (1 - t) = t
<1>1. t \in {0, 1} /\ c.trader \in {0, 1} /\ c.exchanger \notin {0, 1}
      BY DEF Traders
<1>2. s = "trader" \/ s = "exchanger"
      BY DEF Sides
<1>. QED BY <1>1, <1>2 DEF Host, Source, Hosts, Traders

\* What is in one spot is in no other.
LEMMA InNoOther ==
  ASSUME Parted, NEW x \in Spots, NEW y \in Spots, x # y
  PROVE  Contents[x] \cap Contents[y] = {}
BY DEF Parted, Partition

\* Steps that leave unsent, lost and what the traders received alone are
\* invisible.
LEMMA ChannelStutter ==
  ASSUME unsent' = unsent, lost' = lost,
         \A t \in Traders : pool'[1 - t][t] = pool[1 - t][t]
  PROVE  UNCHANGED Channel!channelVars
<1>1. \A t \in Traders : 1 - t \in Traders /\ 1 - (1 - t) = t
      BY DEF Traders
<1>2. \A t \in Traders : Received(1 - t)' = Received(1 - t)
      BY <1>1 DEF Received
<1>3. ChUnsent' = ChUnsent /\ ChLost' = ChLost
      BY DEF ChUnsent, ChLost
<1>4. ChArrived' = ChArrived /\ ChTransit' = ChTransit
      BY <1>2 DEF ChArrived, ChTransit, Transit
<1>. QED BY <1>3, <1>4 DEF Channel!channelVars, ChUnsent, ChTransit, ChArrived, ChLost

\* Packets that were on their way and are gone now.
LEMMA ChannelLose ==
  ASSUME unsent' = unsent, pool' = pool,
         NEW M \in SUBSET Packets, lost' = lost \cup M,
         M \cap unsent = {}, M \cap lost = {},
         \A t \in Traders : M \cap pool[1 - t][t] = {}
  PROVE  Channel!Lose
<1> DEFINE gone == [t \in Traders |-> {p \in M : p.from = t}]
<1>1. \A t \in Traders : 1 - (1 - t) = t
      BY DEF Traders
<1>2. \A t \in Traders : Received(1 - t)' = Received(1 - t) /\ Received(1 - t) = pool[1 - t][t]
      BY <1>1 DEF Received
<1>3. ChUnsent' = ChUnsent /\ ChArrived' = ChArrived
      BY <1>2 DEF ChUnsent, ChArrived
<1>4. gone \in [Traders -> SUBSET Packets]
      OBVIOUS
<1>5. \A t \in Traders : gone[t] \subseteq ChTransit[t]
      BY <1>2 DEF ChTransit, Transit
<1>6. ChTransit' = [t \in Traders |-> ChTransit[t] \ gone[t]]
  <2>1. \A t \in Traders : Transit(t)' = Transit(t) \ gone[t]
        BY <1>2 DEF Transit
  <2>. QED BY <2>1 DEF ChTransit
<1>7. ChLost' = [t \in Traders |-> ChLost[t] \cup gone[t]]
  <2>1. \A t \in Traders : {p \in lost' : p.from = t} = {p \in lost : p.from = t} \cup gone[t]
        OBVIOUS
  <2>. QED BY <2>1 DEF ChLost
<1> HIDE DEF gone
<1>. QED BY <1>3, <1>4, <1>5, <1>6, <1>7
     DEF Channel!Lose, ChUnsent, ChTransit, ChArrived, ChLost

\* Nothing is under way at first.
LEMMA InitChannel == Init => Channel!ChannelInit
<1> SUFFICES ASSUME Init PROVE Channel!ChannelInit
    OBVIOUS
<1>1. \A t \in Traders : Received(1 - t) = {}
      BY DEF Init, Received, Hosts, Traders
<1>2. \A t \in Traders : Transit(t) = {}
      BY DEF Init, Transit
<1>3. ChTransit = [t \in Traders |-> {}] /\ ChArrived = [t \in Traders |-> {}]
      BY <1>1, <1>2 DEF ChTransit, ChArrived
<1>4. /\ ChUnsent = [t \in Traders |-> {p \in Packets : p.from = t}]
      /\ ChLost = [t \in Traders |-> {}]
      BY DEF Init, ChUnsent, ChLost
<1>. QED BY <1>3, <1>4 DEF Channel!ChannelInit, ChUnsent, ChTransit, ChArrived, ChLost

\* A flush submits, a Receiver of a trader delivers, a break and a write into
\* a broken connection lose, and all else is invisible to the traders.
LEMMA NextChannel == Inv /\ Parted /\ [Next]_vars => [Channel!ChannelNext]_(Channel!channelVars)
<1> SUFFICES ASSUME Inv, Parted, [Next]_vars
             PROVE  Channel!ChannelNext \/ UNCHANGED Channel!channelVars
    OBVIOUS
<1> USE DEF Inv
<1> DEFINE C == Contents
<1>c. /\ C[Unsent] = unsent /\ C[Lost] = lost
      /\ \A h \in Hosts, t \in Traders : C[Queued(h, t)] = pool[h][t]
      /\ \A c \in Connections, s \in Sides :
           C[Held(c, s)] = hand[c][s] /\ C[Sent(c, s)] = InWire(wire[c][s])
      BY Filled DEF Contents
<1>d. \A x, y \in Spots : x # y => C[x] \cap C[y] = {}
      BY InNoOther
<1> HIDE DEF C
<1>e. \A t \in Traders : 1 - t \in Traders /\ 1 - t \in Hosts /\ 1 - (1 - t) = t
      BY DEF Traders, Hosts
<1>1. ASSUME NEW t \in Traders, Flush(t) PROVE Channel!ChannelNext
  <2> PICK p \in unsent : /\ p.from = t
                          /\ unsent' = unsent \ {p}
                          /\ pool' = [pool EXCEPT ![t][t] = @ \cup {p}]
      BY <1>1 DEF Flush
  <2>1. lost' = lost /\ t \in Hosts /\ p \in Packets
        BY <1>1 DEF Flush, Hosts, TypeOK
  <2>2. \A i \in Hosts, j \in Traders :
          pool'[i][j] = IF i = t /\ j = t THEN pool[t][t] \cup {p} ELSE pool[i][j]
        BY <2>1, Changed DEF TypeOK
  <2>3. \A u \in Traders : Received(1 - u)' = Received(1 - u) /\ Received(1 - u) = pool[1 - u][u]
    <3> TAKE u \in Traders
    <3>1. ~(1 - u = t /\ u = t)
          BY DEF Traders
    <3>2. pool'[1 - u][u] = pool[1 - u][u]
          BY <1>e, <2>2, <3>1
    <3>. QED BY <1>e, <3>2 DEF Received
  <2>4. p \notin lost /\ p \notin pool[1 - t][t]
        BY <1>c, <1>d, <1>e, Kinds, Apart
  <2>5. ChUnsent' = [ChUnsent EXCEPT ![t] = @ \ {p}] /\ p \in ChUnsent[t]
    <3>1. \A u \in Traders : {r \in unsent' : r.from = u} =
            IF u = t THEN ChUnsent[t] \ {p} ELSE ChUnsent[u]
          BY DEF ChUnsent
    <3>. QED BY <3>1 DEF ChUnsent
  <2>6. ChTransit' = [ChTransit EXCEPT ![t] = @ \cup {p}]
    <3>1. \A u \in Traders : Transit(u)' = IF u = t THEN Transit(t) \cup {p} ELSE Transit(u)
          BY <2>1, <2>3, <2>4 DEF Transit, TypeOK
    <3>. QED BY <3>1 DEF ChTransit
  <2>7. ChArrived' = ChArrived /\ ChLost' = ChLost
        BY <2>1, <2>3 DEF ChArrived, ChLost
  <2>8. Channel!Submit(t)
        BY <2>5, <2>6, <2>7 DEF Channel!Submit, ChUnsent, ChTransit, ChArrived, ChLost
  <2>. QED BY <2>8 DEF Channel!ChannelNext
<1>2. ASSUME NEW c \in Connections, Connect(c) \/ GiveUp(c) \/ Accept(c)
      PROVE  UNCHANGED Channel!channelVars
      BY <1>2, ChannelStutter DEF Connect, GiveUp, Accept
<1>3. ASSUME NEW c \in Connections, NEW s \in Sides, Take(c, s)
      PROVE  UNCHANGED Channel!channelVars
  <2> DEFINE h == Host(c, s)
             q == Source(c, s)
  <2>0. h \in Hosts /\ q \in Traders
        BY Lanes
  <2> PICK p \in Top(pool[h][q]) : pool' = [pool EXCEPT ![h][q] = @ \ {p}]
      BY <1>3 DEF Take
  <2>1. \A t \in Traders : ~(h = 1 - t /\ q = t)
        BY NotReceived
  <2> HIDE DEF h, q
  <2>2. \A i \in Hosts, j \in Traders :
          pool'[i][j] = IF i = h /\ j = q THEN pool[h][q] \ {p} ELSE pool[i][j]
        BY <2>0, Changed DEF TypeOK
  <2>3. \A t \in Traders : pool'[1 - t][t] = pool[1 - t][t]
        BY <1>e, <2>1, <2>2
  <2>. QED BY <1>3, <2>3, ChannelStutter DEF Take
<1>4. ASSUME NEW c \in Connections, NEW s \in Sides, Write(c, s)
      PROVE  UNCHANGED Channel!channelVars
      BY <1>4, ChannelStutter DEF Write
<1>5. ASSUME NEW c \in Connections, NEW s \in Sides, WriteIntoVoid(c, s)
      PROVE  Channel!ChannelNext
  <2> DEFINE M == hand[c][s]
  <2>1. unsent' = unsent /\ pool' = pool /\ lost' = lost \cup M
        BY <1>5 DEF WriteIntoVoid
  <2>2. M \in SUBSET Packets /\ M = C[Held(c, s)]
        BY <1>c DEF TypeOK
  <2> HIDE DEF M
  <2>3. M \cap unsent = {} /\ M \cap lost = {}
        BY <1>c, <1>d, <2>2, Kinds, Apart
  <2>4. \A t \in Traders : M \cap pool[1 - t][t] = {}
    <3> TAKE t \in Traders
    <3>1. Queued(1 - t, t) # Held(c, s)
          BY Apart
    <3>. QED BY <1>c, <1>d, <1>e, <2>2, <3>1, Kinds
  <2>5. Channel!Lose
        BY <2>1, <2>2, <2>3, <2>4, ChannelLose
  <2>. QED BY <2>5 DEF Channel!ChannelNext
<1>6. ASSUME NEW c \in Connections, NEW s \in Sides, WriteFails(c, s)
      PROVE  UNCHANGED Channel!channelVars
  <2> DEFINE M == hand[c][s]
             h == Host(c, s)
             q == Source(c, s)
  <2>0. h \in Hosts /\ q \in Traders
        BY Lanes
  <2>1. pool' = [pool EXCEPT ![h][q] = @ \cup M] /\ unsent' = unsent /\ lost' = lost
        BY <1>6 DEF WriteFails, Requeued
  <2>2. \A t \in Traders : ~(h = 1 - t /\ q = t)
        BY NotReceived
  <2> HIDE DEF h, q, M
  <2>3. \A i \in Hosts, j \in Traders :
          pool'[i][j] = IF i = h /\ j = q THEN pool[h][q] \cup M ELSE pool[i][j]
        BY <2>0, <2>1, Changed DEF TypeOK
  <2>4. \A t \in Traders : pool'[1 - t][t] = pool[1 - t][t]
        BY <1>e, <2>2, <2>3
  <2>. QED BY <2>1, <2>4, ChannelStutter
<1>7. ASSUME NEW c \in Connections, NEW s \in Sides, Receive(c, s)
      PROVE  Channel!ChannelNext \/ UNCHANGED Channel!channelVars
  <2> DEFINE h == Host(c, s)
             q == Sink(c, s)
             w == wire[c][s]
             p == Head(w)
  <2>0. h \in Hosts /\ q \in Traders
        BY Lanes
  <2>1. w \in Seq(Packets) /\ w # <<>> /\ Distinct(w)
        BY <1>7 DEF Receive, TypeOK, Parted
  <2>2. p \in InWire(w)
        BY <2>1, ShortenedOnce
  <2>3. p \in Packets /\ p.from = q
        BY <2>1, <2>2 DEF InWire, InItsLane
  <2>4. /\ pool' = [pool EXCEPT ![h][q] = @ \cup {p}]
        /\ unsent' = unsent /\ lost' = lost
        BY <1>7 DEF Receive, TypeOK
  <2>a. p \in C[Sent(c, s)]
        BY <1>c, <2>2
  <2>b. s = "trader" \/ s = "exchanger"
        BY DEF Sides
  <2>c. s = "trader" => h = 1 - q
        BY NetworkAssumption DEF Host, Sink, Traders
  <2>d. s = "exchanger" => \A t \in Traders : h # 1 - t
    <3>1. c.exchanger \notin Traders
          BY NetworkAssumption
    <3>. QED BY <3>1, <1>e DEF Host
  <2> HIDE DEF h, q, w, p
  <2>5. \A i \in Hosts, j \in Traders :
          pool'[i][j] = IF i = h /\ j = q THEN pool[h][q] \cup {p} ELSE pool[i][j]
        BY <2>0, <2>4, Changed DEF TypeOK
  <2>6. CASE s = "exchanger"
    <3>1. \A t \in Traders : pool'[1 - t][t] = pool[1 - t][t]
          BY <1>e, <2>5, <2>6, <2>d
    <3>. QED BY <2>4, <3>1, ChannelStutter
  <2>7. CASE s = "trader"
    <3>0. h = 1 - q
          BY <2>7, <2>c
    <3>1. \A u \in Traders :
            /\ Received(1 - u) = pool[1 - u][u]
            /\ Received(1 - u)' = IF u = q THEN Received(1 - u) \cup {p} ELSE Received(1 - u)
      <4> TAKE u \in Traders
      <4>1. pool'[1 - u][u] = IF u = q THEN pool[1 - u][u] \cup {p} ELSE pool[1 - u][u]
            BY <1>e, <2>5, <3>0
      <4>. QED BY <1>e, <4>1 DEF Received
    <3>2. p \notin unsent /\ p \notin lost
          BY <1>c, <1>d, <2>a, Kinds, Apart
    <3>3. p \notin pool[1 - q][q]
      <4>1. Queued(1 - q, q) # Sent(c, s)
            BY Apart
      <4>. QED BY <1>c, <1>d, <1>e, <2>0, <2>a, <4>1, Kinds
    <3>4. p \in ChTransit[q]
          BY <2>0, <2>3, <3>1, <3>2, <3>3 DEF ChTransit, Transit
    <3>5. ChTransit' = [ChTransit EXCEPT ![q] = @ \ {p}]
      <4>1. \A u \in Traders : Transit(u)' = IF u = q THEN Transit(u) \ {p} ELSE Transit(u)
            BY <2>3, <2>4, <3>1 DEF Transit
      <4>. QED BY <4>1 DEF ChTransit
    <3>6. ChArrived' = [ChArrived EXCEPT ![q] = @ \cup {p}]
          BY <3>1 DEF ChArrived
    <3>7. ChUnsent' = ChUnsent /\ ChLost' = ChLost
          BY <2>4 DEF ChUnsent, ChLost
    <3>8. Channel!Arrive(q)
          BY <3>4, <3>5, <3>6, <3>7 DEF Channel!Arrive, ChUnsent, ChTransit, ChArrived, ChLost
    <3>. QED BY <2>0, <3>8 DEF Channel!ChannelNext
  <2>. QED BY <2>b, <2>6, <2>7
<1>8. ASSUME NEW c \in Connections, Break(c) PROVE Channel!ChannelNext
  <2> PICK n \in 0..Len(wire[c]["trader"]), m \in 0..Len(wire[c]["exchanger"]) :
        LET kept == [s \in Sides |-> SubSeq(wire[c][s], 1, IF s = "trader" THEN n ELSE m)]
        IN  /\ wire' = [wire EXCEPT ![c] = kept]
            /\ lost' = lost \cup UNION {InWire(wire[c][s]) \ InWire(kept[s]) : s \in Sides}
        BY <1>8 DEF Break
  <2> DEFINE kept == [s \in Sides |-> SubSeq(wire[c][s], 1, IF s = "trader" THEN n ELSE m)]
             M == UNION {InWire(wire[c][s]) \ InWire(kept[s]) : s \in Sides}
  <2>1. unsent' = unsent /\ pool' = pool /\ lost' = lost \cup M
        BY <1>8 DEF Break
  <2>2. \A p \in M : \E s \in Sides : p \in InWire(wire[c][s])
        OBVIOUS
  <2> HIDE DEF M
  <2>3. \A s \in Sides : InWire(wire[c][s]) \subseteq Packets
    <3> TAKE s \in Sides
    <3>1. wire[c][s] \in Seq(Packets)
          BY DEF TypeOK
    <3>. QED BY <3>1 DEF InWire
  <2>4. \A s \in Sides : InWire(wire[c][s]) \cap unsent = {} /\ InWire(wire[c][s]) \cap lost = {}
        BY <1>c, <1>d, Kinds, Apart
  <2>5. ASSUME NEW s \in Sides, NEW t \in Traders PROVE InWire(wire[c][s]) \cap pool[1 - t][t] = {}
    <3>1. Queued(1 - t, t) # Sent(c, s)
          BY Apart
    <3>. QED BY <1>c, <1>d, <1>e, <3>1, Kinds
  <2>6. M \in SUBSET Packets /\ M \cap unsent = {} /\ M \cap lost = {}
        BY <2>2, <2>3, <2>4
  <2>7. \A t \in Traders : M \cap pool[1 - t][t] = {}
        BY <2>2, <2>5
  <2>8. Channel!Lose
        BY <2>1, <2>6, <2>7, ChannelLose
  <2>. QED BY <2>8 DEF Channel!ChannelNext
<1>9. CASE UNCHANGED vars
      BY <1>9, ChannelStutter DEF vars
<1>. QED
     BY <1>1, <1>2, <1>3, <1>4, <1>5, <1>6, <1>7, <1>8, <1>9 DEF Next

\* To the two traders any number of exchangers and connections, whatever
\* breaks, is a channel that reorders and may lose, but never duplicates,
\* echoes or invents packets.
THEOREM NetworkIsChannel == Spec => ImplementsChannel
<1>. QED
     BY InvariantHolds, AlwaysParted, InitChannel, NextChannel, PTL
     DEF Spec, ImplementsChannel, Channel!ChannelSpec
=============================================================================
