-------------------------------- MODULE Ports -------------------------------
(***************************************************************************)
(* How connections come about (src/config.cpp, network_listen and          *)
(* network_connect in src/network.cpp, main of trader and exchanger): one  *)
(* exchanger and its traders, each with a table of ports that the console  *)
(* changes.  A listener serves one connection and ends; a connector tries  *)
(* a number of times.  What the connections carry is Network's matter.     *)
(*                                                                         *)
(* The operators agree on every move beforehand, and then each of them     *)
(* types it: `set A B` at the exchanger, `set e A B` or `set e A B C D` at *)
(* the trader, in either order and with any delay.                         *)
(***************************************************************************)
EXTENDS Integers, Sequences, FiniteSets

CONSTANTS
  Ends,      \* pairs <<trader, k>>: the connections of the configuration
  ConfPort,  \* per end, open_ports[e][trader][k] of the file
  ConfOwn,   \* per end, open_ports[trader][e][k] of the file
  NewPorts,  \* ports of the exchanger that no table has yet
  NewOwn,    \* ports of the traders that no table has yet
  MAX_RETRY,
  MaxMoves,    \* bound: moves the operators agree on
  MaxFailures  \* bound: breaks, and calls that fail for a cause outside the programs

ASSUME PortsAssumption ==
  /\ Ends \subseteq Nat \X Nat /\ IsFiniteSet(Ends)
  /\ ConfPort \in [Ends -> Nat] /\ ConfOwn \in [Ends -> Nat]
  /\ NewPorts \subseteq Nat /\ NewOwn \subseteq Nat
  /\ \A x, y \in Ends : x # y => ConfPort[x] # ConfPort[y]
  /\ NewPorts \cap {ConfPort[x] : x \in Ends} = {}
  /\ MAX_RETRY \in Nat \ {0}

\* Connectors and listeners there can be: one per end and one per move.
MaxConnectors == Cardinality(Ends) + MaxMoves

exchanger == -1

Connecting == {x[1] : x \in Ends}  \* the traders

VARIABLES
  started,    \* processes that run: the exchanger (-1) and traders
  eport,      \* per end, its port in the exchanger's table
  xport,      \* per end, its port in the trader's table
  own,        \* per end, the trader's own port in the trader's table
  fresh,      \* ports of NewPorts no move has used
  moves,      \* moves agreed
  esay,       \* moves the exchanger's operator has yet to type
  tsay,       \* moves the traders' operators have yet to type
  listeners,  \* all there ever were: [port, state]
  connectors, \* all there ever were: [t, port, own, tries, state, at]
  failures    \* breaks, and calls that failed for a cause outside

tables == <<eport, xport, own>>
said == <<fresh, moves, esay, tsay>>
portVars == <<started, tables, said, listeners, connectors, failures>>

-----------------------------------------------------------------------------

NoWord == -1  \* int C = -1, D = -1: the command has four words

\* A thread that is to listen on the port.
Listener(port) == [port |-> port, state |-> "starting"]

\* A thread that is to connect to the port from its own; `at` is the listener
\* whose accept() it waits for.
Connector(t, port, self) ==
  [t |-> t, port |-> port, own |-> self, tries |-> 0, state |-> "trying", at |-> 0]

\* A cable, no descriptor left, an address in use, a host out of reach, ...
Fails == failures < MaxFailures /\ failures' = failures + 1

\* The ends of a set, by trader and k: the one sequence there is.
InOrder(ends) ==
  {f \in [1..Cardinality(ends) -> ends] :
     /\ \A x \in ends : \E i \in DOMAIN f : f[i] = x
     /\ \A i, j \in DOMAIN f : i < j =>
          f[i][1] < f[j][1] \/ (f[i][1] = f[j][1] /\ f[i][2] < f[j][2])}

\* main of the exchanger.
ExchangerStarts ==
  /\ exchanger \notin started
  /\ started' = started \cup {exchanger}
  /\ \E ends \in InOrder(Ends) :
       listeners' = [i \in DOMAIN ends |-> Listener(eport[ends[i]])]
  /\ UNCHANGED <<tables, said, connectors, failures>>

\* main of a trader.
TraderStarts(t) ==
  /\ t \notin started
  /\ started' = started \cup {t}
  /\ \E ends \in InOrder({x \in Ends : x[1] = t}) :
       connectors' = connectors \o
         [i \in DOMAIN ends |-> Connector(t, xport[ends[i]], own[ends[i]])]
  /\ UNCHANGED <<tables, said, listeners, failures>>

\* Connector i is neither trying nor connected, and no listener has it to serve.
Dead(i) == connectors[i].state \in {"failed", "broken", "reset"} /\ connectors[i].at = 0

\* The operators agree on a move once the trader's last one is typed: to a
\* port never used, or to the same port to connect again what is dead.
Agree ==
  /\ moves < MaxMoves
  /\ \E x \in Ends, b \in fresh \cup {eport[x] : x \in Ends}, d \in NewOwn \cup {NoWord} :
       /\ {exchanger, x[1]} \subseteq started
       /\ \A m \in esay \cup tsay : m.t # x[1]
       /\ \/ b \in fresh
          \/ b = eport[x] /\ \A i \in DOMAIN connectors : connectors[i].port = b => Dead(i)
       /\ LET m == [t |-> x[1], a |-> eport[x], b |-> b, c |-> IF d = NoWord THEN d ELSE own[x], d |-> d]
          IN  esay' = esay \cup {m} /\ tsay' = tsay \cup {m}
       /\ fresh' = fresh \ {b}
  /\ moves' = moves + 1
  /\ UNCHANGED <<started, tables, listeners, connectors, failures>>

\* Mistake: the loop over k ends after the first slot.
FirstSlot(a) == {x \in Ends : eport[x] = a /\ x[2] = 1}

\* The slots a set command of the exchanger is about.
Slots(a) == {x \in Ends : eport[x] = a}

\* set_port with id 2 or 3.
ExchangerSets(m) ==
  /\ m \in esay
  /\ esay' = esay \ {m}
  /\ eport' = [x \in Ends |-> IF x \in Slots(m.a) THEN m.b ELSE eport[x]]
  /\ listeners' = listeners \o [i \in 1..Cardinality(Slots(m.a)) |-> Listener(m.b)]
  /\ UNCHANGED <<started, xport, own, fresh, moves, tsay, connectors, failures>>

\* Mistake: the port is kept until the connection stands.
Later(b, x) == xport[x]

\* open_ports[remote_id][conf.id][k] = B.
AtOnce(b, x) == b

\* Mistake: port A is not looked at.
AnySlot(m) == {x \in Ends : x[1] = m.t}

Match(m) == {x \in Ends : x[1] = m.t /\ xport[x] = m.a}

OwnPort(m, c, x) == IF c = NoWord THEN own[x] ELSE m.d

\* set_port with id 0 or 1; the operator may mistype C and types again.  The
\* loop returns at the first slot with port A whose own port is not C.
TraderSets(m, c) ==
  LET done == IF c = NoWord THEN Match(m)
              ELSE {x \in Match(m) : \A y \in Match(m) : y[2] <= x[2] => own[y] = c}
  IN  /\ m \in tsay
      /\ tsay' = IF done = Match(m) THEN tsay \ {m} ELSE tsay
      /\ own' = [x \in Ends |-> IF x \in done THEN OwnPort(m, c, x) ELSE own[x]]
      /\ xport' = [x \in Ends |-> IF x \in done THEN AtOnce(m.b, x) ELSE xport[x]]
      /\ \E ends \in InOrder(done) :
           connectors' = connectors \o [i \in DOMAIN ends |-> Connector(m.t, m.b, own'[ends[i]])]
      /\ UNCHANGED <<started, eport, fresh, moves, esay, listeners, failures>>

\* Mistake: the attempts are not counted.
Uncounted(n) == n

Counted(n) == n + 1

\* bind() and what comes before it fails: the thread ends by an exception.
BindFails(i) ==
  /\ connectors[i].state = "trying" /\ connectors[i].tries = 0
  /\ Fails
  /\ connectors' = [connectors EXCEPT ![i].state = "failed"]
  /\ UNCHANGED <<started, tables, said, listeners>>

\* A connection between the same two ends was made before: its Receiver may
\* still have the socket, at the end of the file for ever (EADDRNOTAVAIL).
EndsInUse(i) ==
  \E j \in DOMAIN connectors \ {i} :
    /\ connectors[j].t = connectors[i].t
    /\ connectors[j].port = connectors[i].port /\ connectors[j].own = connectors[i].own
    /\ connectors[j].state \in {"queued", "hanging", "served", "broken"}

\* connect(): it succeeds with any listener on the port, one that is about to
\* end or will never accept again included (SO_REUSEPORT lets several listen).
\* Whatever it fails of counts as a retry.
Attempt(i) ==
  LET c == connectors[i]
      there == {l \in DOMAIN listeners :
                  listeners[l].port = c.port /\ listeners[l].state \in {"open", "stuck"}}
      more == Counted(c.tries)
  IN  /\ c.state = "trying"
      /\ \/ /\ \E l \in there :
                 connectors' = [connectors EXCEPT ![i] =
                   IF listeners[l].state = "open" THEN [c EXCEPT !.state = "queued", !.at = l]
                                                  ELSE [c EXCEPT !.state = "hanging"]]
            /\ UNCHANGED failures
         \/ /\ \/ (there = {} \/ EndsInUse(i)) /\ UNCHANGED failures
               \/ Fails
            /\ connectors' = [connectors EXCEPT ![i] =
                 [c EXCEPT !.tries = more, !.state = IF more >= MAX_RETRY THEN "failed" ELSE "trying"]]
      /\ UNCHANGED <<started, tables, said, listeners>>

\* Listener l is in state s from now on, and connector i no longer at it; the
\* others it has not accepted are in state left.
Leaves(l, s, i, now, left) ==
  /\ listeners' = [listeners EXCEPT ![l].state = s]
  /\ connectors' = [j \in DOMAIN connectors |->
       IF connectors[j].at # l THEN connectors[j]
       ELSE [connectors[j] EXCEPT !.at = 0, !.state = IF j = i THEN now ELSE left]]

\* bind() and listen() at last, or one of the calls fails and the thread ends.
Listen(l) ==
  /\ listeners[l].state = "starting"
  /\ \/ listeners' = [listeners EXCEPT ![l].state = "open"] /\ UNCHANGED failures
     \/ listeners' = [listeners EXCEPT ![l].state = "failed"] /\ Fails
  /\ UNCHANGED <<started, tables, said, connectors>>

\* accept() fails and the thread ends: who waited finds the connection broken.
AcceptFails(l) ==
  /\ listeners[l].state = "open"
  /\ Fails
  /\ Leaves(l, "failed", 0, "broken", "broken")
  /\ UNCHANGED <<started, tables, said>>

\* accept(), key and id.  When they have come, or a read fails, the thread
\* ends, the socket closes, and what else waited is reset.  At an early end of
\* the file the thread goes on reading and the socket goes on listening: what else
\* waits is never accepted.  A wrong key or id, which no trader sends, would
\* leave the listener as it is.
Serve(l) ==
  /\ listeners[l].state = "open"
  /\ \E i \in DOMAIN connectors :
       /\ connectors[i].at = l
       /\ \/ connectors[i].state = "queued" /\ Leaves(l, "ended", i, "served", "reset")
          \/ connectors[i].state = "broken" /\ Leaves(l, "ended", i, "broken", "reset")
          \/ connectors[i].state = "broken" /\ Leaves(l, "stuck", i, "broken", "hanging")
  /\ UNCHANGED <<started, tables, said, failures>>

\* A connection breaks, also one that waits to be accepted.
BreakOff(i) ==
  /\ connectors[i].state \in {"queued", "hanging", "served"}
  /\ Fails
  /\ connectors' = [connectors EXCEPT ![i].state = "broken"]
  /\ UNCHANGED <<started, tables, said, listeners>>

PortsInit ==
  /\ started = {}
  /\ eport = ConfPort /\ xport = ConfPort /\ own = ConfOwn
  /\ fresh = NewPorts
  /\ moves = 0
  /\ esay = {} /\ tsay = {}
  /\ listeners = <<>> /\ connectors = <<>>
  /\ failures = 0

PortsNext ==
  \/ ExchangerStarts \/ \E t \in Connecting : TraderStarts(t)
  \/ Agree
  \/ \E m \in esay : ExchangerSets(m)
  \/ \E m \in tsay : \E c \in {m.c} \cup (IF m.c = NoWord THEN {} ELSE {0}) : TraderSets(m, c)
  \/ \E i \in DOMAIN connectors : BindFails(i) \/ Attempt(i) \/ BreakOff(i)
  \/ \E l \in DOMAIN listeners : Listen(l) \/ AcceptFails(l) \/ Serve(l)

PortsSpec == PortsInit /\ [][PortsNext]_portVars

\* Threads run, and what listens is found.  Nothing makes an operator type.
PortsFairness ==
  /\ \A i \in 1..MaxConnectors : WF_portVars(i \in DOMAIN connectors /\ Attempt(i))
  /\ \A l \in 1..MaxConnectors : WF_portVars(l \in DOMAIN listeners /\ (Listen(l) \/ Serve(l)))

PortsFairSpec == PortsSpec /\ PortsFairness

-----------------------------------------------------------------------------
(* Properties.                                                             *)

\* The last listener on the port has served nobody and is at nobody's.
Awaits(p) ==
  \E l \in DOMAIN listeners :
    /\ listeners[l].port = p /\ listeners[l].state \in {"starting", "open", "failed"}
    /\ \A k \in DOMAIN listeners : k > l => listeners[k].port # p

\* Once both operators have typed what was agreed, a trader's table and the
\* exchanger's name the same ports, whoever typed first, whichever form of
\* the command, after typing errors, and whether or not the connection came
\* about: the next command finds the port it names (config.cpp:58).
TablesAgree ==
  \A x \in Ends : (\A m \in esay \cup tsay : m.t # x[1]) => xport[x] = eport[x]

\* No connector is accepted by the kernel and then turned away because its
\* listener has served somebody else (network.cpp:203).
NoneTurnedAway == \A i \in DOMAIN connectors : connectors[i].state # "reset"

\* While a connector tries, the listener started for it has not been used up
\* by anybody else, and will not be: the last listener on its port waits for a
\* connection, is about to or failed in a call of its own, unless the exchanger
\* was not started or its operator has not typed the move yet.  A connector
\* that gives up does so because of what is late or of a call that fails, and
\* never because its one listener went to another (network.cpp:203,
\* network.cpp:245).
StillAwaited ==
  \A i \in DOMAIN connectors : connectors[i].state = "trying" =>
    \/ exchanger \notin started
    \/ \E m \in esay : m.b = connectors[i].port
    \/ Awaits(connectors[i].port)

\* When the last move is typed every connector comes to an end: it is served,
\* gives up, or finds its connection broken, and none is turned away.  One may
\* hang in a backlog for ever, but only if an earlier connection to that port
\* broke before its key had come (network.cpp:173, network.cpp:242).
Settles ==
  <>[](\A i \in DOMAIN connectors :
         \/ connectors[i].state \in {"served", "failed", "broken"}
         \/ /\ connectors[i].state = "hanging"
            /\ \E j \in 1..(i - 1) : connectors[j].port = connectors[i].port /\ connectors[j].state = "broken"
            /\ \E l \in DOMAIN listeners : listeners[l].port = connectors[i].port /\ listeners[l].state = "stuck")
=============================================================================
