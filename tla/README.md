# Ubiquant: TLA+ models of the exchange

This directory holds a verification development of the program in the parent
repository: TLA+ modules that model its parts, TLC configurations that check
them on small instances, and TLAPS proofs of the main results.
`PROJECT.json` lists the components, runs, mutants, hazards and theorems, and
maps every definition that stands for code to its lines.

## 1. The system

Four hosts take part. Two *traders* (`trader.cpp`) each hold half of every
stock's orders; two *exchangers* (`exchange.cpp`) relay packets between them
over three TCP connections per pair of hosts. Each trader runs one thread per
stock (`process_stock`), which

1. encodes the trader's own orders (`OrderEncoder` -> `OBitStream`) into packets
   and sends each packet both to the shared queue `tx_to_remote` and to a
   local queue (`Tee`);
2. decodes the local queue and the queue of packets from the other trader
   (`IBitStream` -> `OrderDecoder`) and merges the two by order id
   (`OrderMerger`);
3. runs every order through the `Processor`: the hook filter, the matching
   loops, and for each trade the hook notifier and the `Persister`.

Both traders therefore run the same orders of a stock through the same engine
and must write the same trades.

| component | state | operations | hard behaviour | what makes it correct |
|---|---|---|---|---|
| matching engine, `Processor` | two priority queues, running totals, order id, trade file | one function per order type, `commit` | long mixtures of order types, hand-kept totals | each order gets what its type promises; books never cross; no assertion fails |
| hooks, `HookChecker`/`HookNotifier` | sorted futures and promises, their shared states | `check`, `notify`, destruction | threads wait for each other, threads that end early | a hooked order is decided by its trade; nobody waits for a thread that is gone |
| packet queue, `PacketQueue` | heap, mutex, condition variable | `send`, `next` | several producers and consumers, lost wake-ups | a pool that neither loses, doubles nor keeps a packet |
| network, `Sender`/`Receiver`, exchanger | connections, packets in flight | run loops, requeue on a failed write, reconnect by hand | reordering, loss, dead connections | a channel that may reorder and lose, and nothing else |
| bit stream, `OBitStream`/`IBitStream` | buffers, cursors, sequence numbers | `put_bits`, `flush`, `get_bits`, `fetch_packet` | packets out of order, repeated, empty | bits come out in order, and all of them if all packets arrive |
| order codec | last price of both ends | `send`, `next` | signed differences, field widths | what is decoded is what was encoded, volumes to ten bits |
| order streams, `OrderMerger` | mask, two decoders | `next` | two traders, two halves of the data, any speed | both engines see the orders in id order, and both finish |
| trade file, `Persister` | mapped file, count | constructor, `persist`, destructor | threads and processes that end early, a host that goes down | holds the trades made and nothing else |
| reader | columns, positions of the rows by order id | `read_all`, `read_one`, `read_hooks` | concurrent reads, files that are missing | each stock sends its own rows, by id, and all of them |
| console, configuration | tables of ports | `set_port`, `cui` | commands on two sides in any order; leaving in mid-day | the tables stay the same; a command connects what it names |

How they interact: stock threads share `tx_to_remote` and, through the
promises of the hooks, wait for each other; Receivers fill and Senders drain
the queues; `Demux` gives each stock its own queue. Everything runs
concurrently within a host (ten stock threads, six Senders, six Receivers,
the connectors and the console), and the hosts run concurrently.

Assertions are live in the models, because `common.h`, `network.h` and
`persister.cpp` undefine `NDEBUG`. `SIGPIPE` is ignored by both programs, so
a write to a dead connection is an exception in the Sender's thread.

## 2. The plan

Written, in this order, the behaviour that decides the output first:

1. `Matching` with the abstract `MatchingRules` (`MatchingRefines` relates them);
2. `HookWait`, the one place where stock threads block each other;
3. `PacketQueue` with the abstract `PacketPool`;
4. `Network`, composed of such pools, with the abstract `PacketChannel`;
5. `BitStream`, on top of a channel that reorders;
6. `Codec`, on top of a stream of bits;
7. `OrderStreams`, on top of two streams of orders;
8. `TradingDay`, both traders' `HookWait` with one engine: do the files agree?
9. `TradeFile`, what becomes of such a file when threads, processes or hosts end;
10. `Framing`, one connection byte by byte, which implements `Network`;
11. `Ports`, how connections come about, from the console's tables to `accept`;
12. `Reader`, where the orders come from.

The levels are connected by what the lower one promises: `Network` uses queues
that change in one step because `PacketQueue` implements `PacketPool`, and
packets that enter and leave a socket as a whole because `Framing` implements
it; `BitStream` reads packets in any order because `Network` implements
`PacketChannel`; `OrderStreams` takes orders in the order sent because
`BitStream` gives back the bits (`BitsInOrder`) and `Codec` the orders
(`RoundTrip`), and because `Reader` sends them by id (`OwnRowsById`); `Matching`
takes the orders `OrderStreams` hands out; `HookWait` lets a stock make at most
one trade per order because `Matching` does; `TradingDay` takes the trades of a
stock for a function of its matched orders because `Matching`, once the orders
are given, has no choice left; `TradeFile` lets a second run of a day make the
same trades because `TradingDay` shows it (`SameTrades`).

A day cannot stall between the network and the hooks: queues are unbounded, a
stock encodes all its orders before it merges, and a hook is always a wait for
a stock of the same host. So `HookWait` and `OrderStreams` are checked apart.

Every safety property and refinement of this plan is proved (section 6); what the
runs alone show is liveness.

## 3. The modules

### Matching, MatchingRules, MatchingRefines

`Matching` is one stock's `Processor` with the array of its `Persister`.
`order_id`, `book`, `total` and `tp` are the members of the same names (`buy`
and `sell` together as `book`); `cur` holds the locals of a matching loop. One
call of `process` is `Process` (hook filter, dispatch, early returns), one
`MatchTop` per iteration (with `commit` and `persist` and their assertions)
and `EndSweep`. Iterations are steps because each publishes a trade to other
threads. Priority queues are sets whose top is the element the comparator puts
first; the bit fields of `ComOrder` are kept by moduli.

`MatchingRules` says, without queues or loops, what each order type
gets: which resting orders are candidates, how much of the order each
one receives in price-time priority, and what is left to rest. `MatchingRefines`
maps the engine to it: an order takes effect when `process` returns.

Left out: `metrics`, which only the console reads.

### HookWait

All stock threads of a trader with the promises and futures of `prepare_hooks`. `hook` is the
table, `futures` and `promises` what each checker and notifier still holds, `shared`
the shared state of each promise. A thread takes an order (`NextOrder`,
`NextHooked`), blocks in `get` (`GetReturns`, `GetThrows`), commits any number of trades
(`Commit`, `Notify`) and ends: at the end of the stream, by a broken
promise, or before it has started (its trade file cannot be opened).
`BreakPromise` is the destruction of the promises one by one, during which other
threads run. `Joined` is the daemon's join.

Left open: which trades an order makes, within the bound `Matching` gives.

### TradingDay

`HookWait` for one trader, together with all that matters of the other one:
`peer`, the orders it has taken and matched so far, which may be any state of a
day that its hooks decide consistently (`IsDay`). That the other trader's
states are such states is `OwnDay`, which holds of this one. `engine` gives
each stock the trades its matched orders make, the same on both hosts;
`EngineAssumption` is what `Matching` provides: one trade per order at most
(`SlotsLeft`), and later orders do not undo earlier trades.

### TradeFile

The file of a stock over several runs. `file` is what programs see, `disk` what a
power failure would leave, `mapped` the `Persister` objects with a mapping (the
constructor's argument is moved into the `Processor` and then destroyed).
Each system call has its own step, succeeds or fails; `ProcessEnds` may come
anywhere. The kernel writes the size or a record to the disk whenever it likes
(`WriteBack`), so that `HostCrash`, which leaves what is on the disk, leaves any
mixture of contents and sizes there were. A record is written back as a whole. It
is the number of its trade, that of an earlier day `Foreign`.

### Packets, PacketQueue, PacketPool

`PacketQueue` models `send` and `next` at the grain of the mutex: push, unlock and
notify are three steps, `wait` releases the mutex and sleeps in one, spurious
wake-ups are allowed, `notify_one` chooses any sleeper. `hand` is the packet a
thread has as a local. Senders write, or fail, requeue through the
`ScopeGuard` (`send` from an unwinding thread) and end. `PacketPool` is
the same to a caller: one atomic step per operation. `size` is left out,
nothing calls it.

### Network, PacketChannel

The four hosts. `pool[h][t]` is the queue at host `h` that holds packets of
trader `t`: `tx_to_remote` and `Demux` at a trader, `queues[t]` at an exchanger.
A connection has a state (`link`), Receiver and Sender threads per side (`up`,
`ended`, `hand`) and packets in the sockets (`wire`). `Accept` is the listener's side of a
connection, which starts when the key and the id have been read. `Break` drops
what is in the sockets (`lost`); the Sender of a broken connection still takes
packets until a write fails.

Left out: addresses and socket options; the pause between retries; a `Receiver`
whose peer has closed spins in `read_exact`, which looks to every queue like
one that has ended. Ports are `Ports`' matter.

### Framing

One connection, trader to exchanger, byte by byte. `WriteSome` and `ReadSome`
move any number of bytes of the piece that `write_exact` or `read_exact` is busy
with; a header has two bytes for its twelve, its last one standing for `num_bits`.
`Break` resets the connection and cuts what is on the way at any byte, or ends
the sending process, after which the rest can still be read. `Net` maps it to
`Network`: a packet is in a wire from the moment its last byte is written, in
`hand` until then.

### Ports

One exchanger and its traders. `eport` is the exchanger's table, `xport` and `own` are
each trader's; `ExchangerSets` and `TraderSets` are `set_port` with the loops
over the slots, the refusal in the middle of a loop, and the listeners and
connectors its callback starts. `Listen` and `BindFails` are the calls up to `listen`
and `bind`, either of which may fail and end its thread; `Attempt` is one
`connect`, which counts as a retry whatever it fails of: nobody listens, a cause
outside the programs, or ends that a connection made before still occupies
(`EndsInUse`). `Serve` is the listener from `accept` to its end,
which resets what else is in its backlog, unless the connection ended before its
key had come: `read_exact` then reads for ever, the socket goes on listening
(state `stuck`), and who connects to it is never accepted (`hanging`). To `Network`
such a connection is a broken one: what its Sender takes and writes is lost. `Agree` is the operators: they agree
on a port nobody has used, or on the same port for a connection that is dead, and
type it in either order.
A port that was used before may not be agreed on for another slot:
a connector that still tries for it and the new one could be taken in by the
same listener, which serves one of them.

### Reader

`read_all`, with a step per column read, per `get` and per row scattered, then
`read_hooks` and the encoding loop of each stock. A file that is missing or of
another shape ends the process. Values other than order ids are left out; that
a column was read before it is used is a property.

### BitStream

One stock's writer and reader. A bit is its number in the stream. `PutBit` is
`put_bit` with the packet it may complete, `Flush` the call by hand and the one
of the destructor, `Arrive` delivers any packet and may leave it on its way so
that it arrives again; `TakePacket` and `LoadPacket` are the two loops of
`fetch_packet`.

### Codec

`SendOrder` is `OrderEncoder::send` and `Receive` is `OrderDecoder::next`, on a real
sequence of bits, with the field widths as constants. `Weight[i]` is `1 << i`, by
recursion, because the provers know nothing of `^`; quotients and remainders by
weights are shifts and masks. What the encoder asserts away
(other directions and types) is not sent. An order that is not Limit carries any
price (`OtherPrices`), as in the data; neither end looks at it.

### OrderStreams

The two threads of one stock, one on each trader: encode all own
orders, then merge. `owner` is `order_id_pos` of both traders (`-1` means the
other one's); `arrived` grows as the network delivers.

## 4. The runs

| run | question | instance |
|---|---|---|
| `matching_books` | do the loops give each order what its type promises, with books uncrossed, exact totals and no failed assertion? | four orders of all six types, three prices within the limits and one above, volumes 1 to 3, the third order possibly dropped by its hook, two best levels instead of five |
| `hooks_tables` | are hooks decided by their trades, does nobody wait for a dead thread, does every thread return unless it waits in a circle? | every table of two hooks over two stocks (up to exchanging the stocks), circles, order 0, trade 0 and two hooks on one order included; two orders, volumes on both sides of the threshold; threads that fail to start |
| `day_agree` | do the two traders write the same files? | two stocks of three orders, two hooks in one or both directions, every state the other trader can be in, four engines each |
| `queue_threads` | is a wake-up or a packet lost, is every packet written, and is the queue a pool? | two producers, two Senders, three packets |
| `network_relay` | what can the traders see of the network, and does every packet arrive that can? | two exchangers, one connection to each trader, a packet each way |
| `bits_orders` | are the bits in order, and are they all read? | six bits in packets of two, all orders and repetitions of arrival: full packets, and the empty ones of the flush by hand and the destructor |
| `codec_widths` | does every field survive? | 6-bit words, 3-bit short differences, 2-bit volumes; all pairs of orders with prices 0 to 31; orders of other types with price 0 or 40 |
| `streams_divisions` | do both engines see the same orders, and do both finish? | every division of six ids |
| `framing_bytes` | are packets whole, and is `Network` right to take them as a whole? | packets of two bytes, one and none; a socket of three bytes; a break between any two |
| `ports_moves` | do the tables agree, is the listener of a connector kept for it, does every connector come to an end, and when may one hang? | two connections of a trader, one move, two attempts, three breaks or failing calls |
| `file_runs` | what is in the file, at any moment and after the power failed? | three runs of three trades over an old file of none, one or four records |
| `reader_files` | which rows does a stock send? | two stocks with two slices of two rows, half of eight ids each, in 24 orders and 6 |

Why the bounds are enough. Matching: with four orders each type meets a book
built by three others: two levels on a side, a level with two orders, a sweep
of part of a book with a remainder that rests. Hooks: what a hook
can meet is another hook of its checker, another hook of its notifier, or a
hook in the other direction; two hooks over two stocks have all three,
and a failure that breaks a hook whose waiter owes an answer itself. Day: a hook's
order makes the trade the other stock's hook waits for, and the other trader
may be ahead or behind at either. Queue: a wake-up can only be lost when a
notifier, a sleeper and a thread that has just locked meet, and a Sender that
fails is a notifier too, so that two producers and two Senders have them all.
Network: a packet has two hops whose Senders can fail, and two routes;
duplication needs one packet and two places. Bit stream:
five packets, all orders of arrival. Codec: the difference of
two prices takes every value, so that each side of every boundary is tried;
the widths are scaled so that all of them still differ. Framing: header, data and
end of a packet, and a second packet behind it, each at both sides of a break.
Ports: a move meets another slot of its trader, a connector
that has given up and one that is still trying; three failures are enough for a
connection that breaks before its key, the one that hangs behind it and one more.
Nothing in a trader's connectors depends on another trader, except that its slots
are in the exchanger's table with theirs; the proofs are for any number. Files: a run over the remains
of a run over the remains of another day. Reader: each stock has a second
slice, so that rows of one stock have rows of the other between them.
Streams: the shortest
division in which each stream is needed twice in turn has four
ids.

`CHECK_DEADLOCK FALSE` stands where the system stops when it is done (a stream
read to its end, all packets written, the bound on runs or moves reached) or
where it may really stop (hooks in a circle, a connection that broke, a file
that is missing). `matching_books` is checked for deadlock; there the end is a
step of its own (`Finished`).

`PROJECT.json` lists with each property a mutant: a slip a programmer could make
in one definition, with which the property fails. They stand
beside the definitions they change, under a comment that begins with "Mistake".

## 5. Fairness

- `HookWait`: weak fairness of each thread's step. A thread that is not in
  `get` is scheduled by the operating system.
- `Framing`: weak fairness of the threads' steps: `read` and `write` come back
  when there are bytes or room. None for breaks.
- `Ports`: connectors try, and listeners come to listen and accept what is in their
  backlog, or fail. None for operators, breaks and failing calls.
- `Reader`: each read ends, one way or the other, and the threads run.
- `PacketQueue`: strong fairness of taking the mutex (one that is free
  again and again is obtained in the end), weak fairness of all other steps
  of a thread. None for spurious wake-ups, none for calling `send`.
- `Network`: weak fairness of connecting or giving up, of accepting what can be
  accepted, of taking from a queue by *some* idle Sender (what
  `PacketQueue` provides: `ImplementsPool` has exactly this fairness), of
  a write that comes back, and of receiving. None for breaks; a trader flushes or not.
- `BitStream`: both ends run, and each packet arrives at least once. The
  network does not promise the latter; `AllRead` says what follows if it
  holds and `FlushedArrives` when it does.
- `OrderStreams`: both threads run, and what was encoded arrives, which is the
  conclusion of `AllRead`.

## 6. The proofs

Theorems hold for all values of the constants under the named assumptions of
the modules. Each `*Proofs` module has an inductive invariant, its
preservation with one step per action, and the theorems at its end. `TypeOK`
of six modules is the theorem `TypeCorrect` of each; with `BitStream`'s
`PendingUseful` (`MapUseful`) it is left to the proofs, and no run repeats it.

- `MatchingProofs`. The invariant adds to the checked properties that the
  orders of a queue are distinct and finite in number and rest within the limits
  (`QueuesGood`, `RestingWithinLimits`), that trades and resting orders together
  are no more than the orders taken (`SlotsLeft`), and that the order being
  matched has passed its limits and, if FOK, that there is enough to fill it
  (`SweepSound`). Totals are compared with the cardinality of the set of
  shares, so that sums need no recursion. `NeverCrossed`,
  `TotalsExact`, `TradesInLimits`, `FokFilled` follow. `NoAssertionFails` needs
  that no order arrives with volume 0 and that the file has room for as many
  trades as there are orders, which the default of the `Persister`'s
  constructor gives; `SlotsLeft` is the argument.
  That the engine implements `MatchingRules` (`MatchingImplementsRules`) takes a
  second invariant, `Followed`, which compares a loop with the queue the call
  found (`Queue`). Either the loop has used up the orders at its front, one after
  the other, and nothing else (`Whole`), or the volume ended within an order and
  what the rules ask for has been done (`Settled`). The first part of the argument is
  about sets of orders alone: whoever is served before a candidate is one
  (`OfferedClosed`), and when the front `E` of a queue takes `v` shares, the rules give
  each order of `E` all it has and the rest nothing (`SettledWhole`, `SettledPart`).
  So a loop that stops at an order it is not for has done all there is to do
  (`ExitSettled`). The loop condition is what the rules ask (`EligibleOffered`);
  for `process_best_five` because `last_price` and `price_count` count the levels of
  the front (`LevelsCounted`, `TopLevel`). The loops' exits and the early returns
  are then the rules' steps, and their iterations stutter. The theorem needs that
  no order arrives with volume 0, which `process_client_best` would put into the
  book, and that the lower limit is above 0: a level at price 0 would not be counted,
  as `last_price` starts at 0. A closing price of two cents or more is enough.
- `TradingDayProofs`, first of `HookWait`. A promise is held by its notifier exactly until it is set or broken
  (`Owed`), the notifier is not past a trade it holds a promise for
  (`Served`), and the checker still holds every hook on orders to come
  (`FuturesRight`). From these: `NoThreadOrphaned`, `ResultsRight`,
  `OrdersHonourHooks`, `OnlyMissingBreak`. Then of `TradingDay`: to `HookWait`'s
  invariant it adds that a stock's trades are those its
  matched orders earn (`TradesEarned`), that each order decided so far was
  decided by the values of its hooks (`Judged`), and that both traders have
  decided alike what both have decided (`PeerAgrees`). The step that decides an
  order is the one that matters: the trade the hook names is made here, the
  other trader has made a trade of that number too, and as one file is a
  beginning of the other, it is the same trade. From these `DecidedByTrades` and
  `SameTrades`; `DayGoesThrough` adds that no promise is broken while threads
  have started (`Unbroken`).
- `TradeFileProofs`. Who has the mapping at each step and that the file has its full
  size from `ftruncate` to the cut (`MappingRight`), that no trade is counted before
  (`NoneYet`), and that the file is exactly the trades made once it is cut
  without an error (`CutRight`). After a crash only a file that was the same on
  the disk is not torn. `TradesInPlace`, `ShortFilesClean`, `ClosedFilesLast`.
- `PacketQueueProofs`. `NoLostWakeup` is inductive once it is known what each thread
  holds at each step (`HandsRight`): every step that adds a packet adds an
  awake thread, and an awake thread goes to sleep only when the queue is
  empty. `PacketsKept`; `QueueImplementsPool` maps each step to a step of
  `PacketPool` or a stutter.
- `NetworkProofs`. Every queue, hand and socket holds only packets of its lane
  (`InItsLane`), because Source and Sink of a connection's two ends match
  (`Lanes`). `NoEcho` follows. For `EachInOnePlace` the places are taken together
  as a partition of the packets (`Parted`), which every step keeps because it takes
  a packet out of one place and puts it into another (`Moves`); cardinality comes
  in only at the end. With both invariants each step of the four hosts is a step
  of `PacketChannel` or a stutter (`NetworkIsChannel`); the one that needs `Parted`
  most is the break of a connection, which loses exactly what was in its sockets.
  The module first proves `Ports`, in two layers. The tables: a port is in one
  slot, whichever table one looks at (`Unique`), and each pending move is about
  one slot, which has the old port at whoever has not typed it and the new one at
  whoever has (`About`, `Agreed`). So a move finds its slot (`OneSlot`), and
  `SameTables` follows. The connections: of the connectors with a port all but the
  last are dead (`OnePerPort`), those with the port of a move are dead when the
  trader's operator types it (`Cleared`), and whoever tries, or will, has a listener
  nobody has used or a move that starts one (`Heard`, `Prepared`). A listener therefore
  never has two connectors (`NobodyTurnedAway`), and the one started for a connector
  that still tries is kept for it, unless it failed by itself (`ListenerKept`).
- `FramingProofs`. The bytes written and not yet passed on are a run: each is
  followed by the next of its packet or, after a last one, by a first one (`Run`);
  the greeting comes first (`Greeting`), and what is being written ends the run (`Tip`,
  `Begun`). So the Receiver, which counts bytes, cuts where the packets do:
  `OnlyWholePackets`. For `FramingImplementsNetwork` no packet is twice in a run, and the one
  in hand or in a queue is not in it unless its last byte is missing (`Once`).
  `Net`'s wire is the sequence of the last bytes in a run, taken by rank (`Whole`):
  a byte that is not the last of a packet leaves it as it is (`WholeSame`), the last one
  appends to it, and a packet that is read is its head. One lemma needs
  induction, that a run starts with a whole packet (`FirstImage`); it is made by
  the least counterexample (`Least`).
- `BitStreamProofs`. `starts`, a history variable, gives each packet its place in the stream; all
  packets are well cut (`WellCut`), and the reader's buffer continues what it
  has returned and ends where the next packet starts (`ReaderRight`).
  `BitsInOrder`, `MapUseful`. Before that `Codec`, for all widths: weights are
  positive, double, and divide those above them (`Weights`, `WeightDivides`), so
  `get_bits` gives back the low bits of what `put_bits` was given (`GetPut`), a
  number is its leading one and the bits below it (`LeadingOne`, `UintGet`), and a
  short difference keeps its sign (`SignExtends`). So the bits of any order
  decode to it when both ends have the same last price (`Decoded`). The invariant
  says that there are a place in the bits and a last price for each order on its
  way, from the decoder's to the encoder's (`Laid`): `OrdersComeBack`. It needs
  no more of the constants than that the lengths fit their field and that prices
  leave the sign bit alone; 32, 12, 5 and 10 are one case of it.
- `OrderStreamsProofs`. It counts: an own order `k` is in its stream at the place
  that is the number of own ids up to `k`, and each decoder has returned as many as its trader owns
  of the ids passed. `EnginesAgree`. Then of `Reader`: what has been waited for at
  each stage of `main` (`StageReached`) gives `ReadBeforeUse`. The rows passed are as many
  as the index of the next cell says (`Passed`), each is at its id and nothing else is
  (`Scattered`), and a stock has sent the rows at the ids it has passed (`SentSoFar`):
  `RowsById`. That `x % NR_STOCKS` is the stock of row
  `(x * ORDER_DY + y) * ORDER_DZ + z` is the lemma `CellRow`.

Only model-checked: everything about liveness (`EndsOrEncircled`,
`SentIsWritten`, `FlushedArrives`, `AllRead`, `BothFinish`, `HeldArrives`,
`Settles`, `SentOrDead`, the fairness of `ImplementsPool`), which is out of the prover's
reach.

## 7. What is not modelled

- HDF5 input, logging, progress counters, socket options and address parsing:
  no decision of the modelled parts depends on them.
- Clocks and pauses: a retry may happen at any time.
- Wrap-around of packet and order counters at 2^32, which the data cannot reach.
- Data the program does not test and the data sets exclude: an order id that both
  or neither trader has, prices that do not fit 22 bits, volume 0
  (`NoAssertionFails` names it).
- Peers other than the configured hosts: a wrong key or id leaves the listener as
  it was, one that sends nothing would keep it for ever.
- The end of a process beyond the point where its files are left: static objects
  are destroyed under running threads (`config.cpp:89`), and the program says
  nothing of what they do then. A word that is no number in a `set` command ends
  the process in the same way.
- The inside of the HDF5 library, which five threads use at once.
- The division of received packets by stock in `Demux`: one pool in `Network`.
- `reader/*.cpp`, `test.cpp` and the scripts: tools outside the running system.
