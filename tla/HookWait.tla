------------------------------- MODULE HookWait -----------------------------
(***************************************************************************)
(* The hooks between stocks (include/hook.h, src/hook.cpp).  One thread    *)
(* per stock runs process_stock (trader.cpp).  A hook makes an order of    *)
(* one stock wait for a trade of another: read_hooks yields the table,     *)
(* prepare_hooks splits each hook into a future, kept by the HookChecker   *)
(* of the stock that waits, and a promise, kept by the HookNotifier of the *)
(* stock that trades.                                                      *)
(*                                                                         *)
(* What an order trades is left open: a thread that matches an order       *)
(* commits any number of trades of any volume, but in all never more than  *)
(* one per order it has taken (theorem InvariantHolds of MatchingProofs,   *)
(* SlotsLeft).  The orders of a stock are available when its thread asks   *)
(* for them; the queues they come through are modelled elsewhere.          *)
(***************************************************************************)
EXTENDS Integers, Sequences, FiniteSets

CONSTANTS
  NR_STOCKS,   \* stocks, and threads
  Hooks,       \* identities of the rows of the hook table
  HookTables,  \* the tables hook.h5 may hold: functions from Hooks
  NumOrders,   \* orders per stock
  Volumes,     \* volumes of trades
  Thresholds   \* thresholds of hooks

Stocks == 0..(NR_STOCKS - 1)

\* struct Hook
HookRecords ==
  [src : Stocks, self_order_id : Nat, target : Stocks, trade_id : Nat,
   threshold : Thresholds]

ASSUME HookAssumption ==
  /\ NR_STOCKS \in Nat \ {0}
  /\ NumOrders \in Nat
  /\ HookTables \subseteq [Hooks -> HookRecords]
  /\ Volumes \subseteq Nat
  /\ Thresholds \subseteq Nat

VARIABLES
  hook,      \* the table that was read
  futures,   \* per stock, the hooks whose future its HookChecker holds
  promises,  \* per stock, the hooks whose promise its HookNotifier holds
  shared,    \* per hook, the shared state of its promise and future
  pc,        \* per stock, where its thread is
  order_id,  \* per stock, Processor::order_id
  trades,    \* per stock, the volumes committed so far; HookNotifier::idx is
             \* their number
  waiting,   \* per stock, the hooks whose get() the thread is in
  matched    \* per stock, the orders that got past check()

vars == <<hook, futures, promises, shared, pc, order_id, trades, waiting, matched>>

Unset == "unset"    \* neither a value nor an exception was stored
Broken == "broken"  \* the promise was destroyed: future_error
Pass == "true"
Drop == "false"

-----------------------------------------------------------------------------

idx(s) == Len(trades[s])

\* Mistake: the vector is sorted the other way round.
FrontFutures(s) ==
  {h \in futures[s] :
     \A g \in futures[s] : hook[h].self_order_id >= hook[g].self_order_id}

\* futures.back() of a vector sorted by falling order id.  std::sort is not
\* stable: among equal ids any hook may be the last.
BackFutures(s) ==
  {h \in futures[s] :
     \A g \in futures[s] : hook[h].self_order_id <= hook[g].self_order_id}

\* Mistake: likewise for the promises.
FrontPromises(s) ==
  {h \in promises[s] : \A g \in promises[s] : hook[h].trade_id >= hook[g].trade_id}

\* promises.back(), likewise by trade id.
BackPromises(s) ==
  {h \in promises[s] : \A g \in promises[s] : hook[h].trade_id <= hook[g].trade_id}

Goto(s, label) == pc' = [pc EXCEPT ![s] = label]

\* process_stock up to the construction of the Processor: Persister may
\* throw, and then the checker and the notifier are destroyed unused.
Open(s) ==
  /\ pc[s] = "start"
  /\ Goto(s, "next") \/ Goto(s, "exit")
  /\ UNCHANGED <<hook, futures, promises, shared, order_id, trades, waiting, matched>>

\* Mistake: the last order stays in the stream.
Fewer(s) == order_id[s] + 1 < NumOrders

\* OrderMerger::next has an order left.
MoreOrders(s) == order_id[s] < NumOrders

Take(s) == order_id' = [order_id EXCEPT ![s] = @ + 1]

Hooked(s) ==
  {h \in BackFutures(s) : hook[h].self_order_id = order_id[s] + 1}

\* process(): checker.check(++order_id) finds no hook on this order.
NextOrder(s) ==
  /\ pc[s] = "next"
  /\ MoreOrders(s)
  /\ Hooked(s) = {}
  /\ Take(s)
  /\ matched' = [matched EXCEPT ![s] = @ \cup {order_id[s] + 1}]
  /\ Goto(s, "match")
  /\ UNCHANGED <<hook, futures, promises, shared, trades, waiting>>

\* check() calls get() of the future at the back.
NextHooked(s) ==
  /\ pc[s] = "next"
  /\ MoreOrders(s)
  /\ \E h \in Hooked(s) : waiting' = [waiting EXCEPT ![s] = {h}]
  /\ Take(s)
  /\ Goto(s, "wait")
  /\ UNCHANGED <<hook, futures, promises, shared, trades, matched>>

\* get() returns: the future is popped, and the order matched or filtered.
GetReturns(s) ==
  /\ pc[s] = "wait"
  /\ \E h \in waiting[s] :
       /\ shared[h] \in {Pass, Drop}
       /\ futures' = [futures EXCEPT ![s] = @ \ {h}]
       /\ IF shared[h] = Pass
          THEN /\ matched' = [matched EXCEPT ![s] = @ \cup {order_id[s]}]
               /\ Goto(s, "match")
          ELSE /\ UNCHANGED matched
               /\ Goto(s, "next")
  /\ waiting' = [waiting EXCEPT ![s] = {}]
  /\ UNCHANGED <<hook, promises, shared, order_id, trades>>

\* get() throws broken_promise: process_stock is left by the exception, its
\* Processor is destroyed and thread_guard swallows the exception.
GetThrows(s) ==
  /\ pc[s] = "wait"
  /\ \E h \in waiting[s] : shared[h] = Broken
  /\ waiting' = [waiting EXCEPT ![s] = {}]
  /\ Goto(s, "exit")
  /\ UNCHANGED <<hook, futures, promises, shared, order_id, trades, matched>>

\* commit(): notifier.notify(volume) starts with idx++.
Commit(s) ==
  /\ pc[s] = "match"
  /\ idx(s) < order_id[s]
  /\ \E v \in Volumes : trades' = [trades EXCEPT ![s] = Append(@, v)]
  /\ Goto(s, "notify")
  /\ UNCHANGED <<hook, futures, promises, shared, order_id, waiting, matched>>

\* Mistake: the threshold itself fails.
Below(h, volume) == IF volume < hook[h].threshold THEN Pass ELSE Drop

\* Promise::resolve
Resolved(h, volume) == IF volume <= hook[h].threshold THEN Pass ELSE Drop

\* The loop of notify(): each promise for this trade is set and popped.
Notify(s) ==
  /\ pc[s] = "notify"
  /\ \E h \in BackPromises(s) :
       /\ hook[h].trade_id = idx(s)
       /\ shared' = [shared EXCEPT ![h] = Resolved(h, trades[s][idx(s)])]
       /\ promises' = [promises EXCEPT ![s] = @ \ {h}]
  /\ UNCHANGED <<hook, futures, pc, order_id, trades, waiting, matched>>

\* notify() returns and persist() stores the trade.
Notified(s) ==
  /\ pc[s] = "notify"
  /\ \A h \in BackPromises(s) : hook[h].trade_id # idx(s)
  /\ Goto(s, "match")
  /\ UNCHANGED <<hook, futures, promises, shared, order_id, trades, waiting, matched>>

\* process() returns.
OrderDone(s) ==
  /\ pc[s] = "match"
  /\ Goto(s, "next")
  /\ UNCHANGED <<hook, futures, promises, shared, order_id, trades, waiting, matched>>

\* The stream is exhausted: the loop of process_stock ends.
StreamEnds(s) ==
  /\ pc[s] = "next"
  /\ ~MoreOrders(s)
  /\ Goto(s, "exit")
  /\ UNCHANGED <<hook, futures, promises, shared, order_id, trades, waiting, matched>>

\* ~Processor destroys the promises that are left, one after another.
BreakPromise(s) ==
  /\ pc[s] = "exit"
  /\ \E h \in promises[s] :
       /\ shared' = [shared EXCEPT ![h] = Broken]
       /\ promises' = [promises EXCEPT ![s] = @ \ {h}]
  /\ UNCHANGED <<hook, futures, pc, order_id, trades, waiting, matched>>

\* Mistake: the promises outlive the thread.
Leaked(s) == TRUE

AllDestroyed(s) == promises[s] = {}

\* ... then the futures; the thread returns.
Exit(s) ==
  /\ pc[s] = "exit"
  /\ AllDestroyed(s)
  /\ futures' = [futures EXCEPT ![s] = {}]
  /\ Goto(s, "done")
  /\ UNCHANGED <<hook, promises, shared, order_id, trades, waiting, matched>>

Step(s) ==
  \/ Open(s) \/ NextOrder(s) \/ NextHooked(s) \/ GetReturns(s) \/ GetThrows(s)
  \/ Commit(s) \/ Notify(s) \/ Notified(s) \/ OrderDone(s)
  \/ StreamEnds(s) \/ BreakPromise(s) \/ Exit(s)

AllDone == \A s \in Stocks : pc[s] = "done"

\* daemon() has joined every thread.
Joined == AllDone /\ UNCHANGED vars

-----------------------------------------------------------------------------

\* prepare_hooks
Init ==
  /\ hook \in HookTables
  /\ futures = [s \in Stocks |-> {h \in Hooks : hook[h].src = s}]
  /\ promises = [s \in Stocks |-> {h \in Hooks : hook[h].target = s}]
  /\ shared = [h \in Hooks |-> Unset]
  /\ pc = [s \in Stocks |-> "start"]
  /\ order_id = [s \in Stocks |-> 0]
  /\ trades = [s \in Stocks |-> <<>>]
  /\ waiting = [s \in Stocks |-> {}]
  /\ matched = [s \in Stocks |-> {}]

Next == (\E s \in Stocks : Step(s)) \/ Joined

Spec == Init /\ [][Next]_vars

\* Every thread keeps running whenever it is not blocked in get().
FairSpec == Spec /\ \A s \in Stocks : WF_vars(Step(s))

-----------------------------------------------------------------------------
(* Properties.                                                             *)

Labels == {"start", "next", "wait", "match", "notify", "exit", "done"}

\* Types, and the thread is inside get() exactly when it waits for a hook.
TypeOK ==
  /\ hook \in HookTables
  /\ futures \in [Stocks -> SUBSET Hooks]
  /\ promises \in [Stocks -> SUBSET Hooks]
  /\ shared \in [Hooks -> {Unset, Broken, Pass, Drop}]
  /\ pc \in [Stocks -> Labels]
  /\ order_id \in [Stocks -> 0..NumOrders]
  /\ trades \in [Stocks -> Seq(Volumes)]
  /\ waiting \in [Stocks -> SUBSET Hooks]
  /\ matched \in [Stocks -> SUBSET (1..NumOrders)]

\* Nobody waits for a thread that is gone: as long as the future has neither
\* a value nor an exception, the thread that owes it one has not returned,
\* however that thread ends (hook.h:50, trader.cpp:35-75).
NoOrphanWait ==
  \A s \in Stocks : \A h \in waiting[s] :
    shared[h] = Unset => pc[hook[h].target] # "done" /\ h \in promises[hook[h].target]

\* A value was stored only for a trade that was made, and says whether that
\* trade's volume stayed within the threshold (hook.h:49).
ValuesRight ==
  \A h \in Hooks : shared[h] \in {Pass, Drop} =>
    /\ hook[h].trade_id \in 1..idx(hook[h].target)
    /\ shared[h] = Pass <=>
         trades[hook[h].target][hook[h].trade_id] <= hook[h].threshold

\* A hook of this stock sits at a place check() never gets past: order 0, or
\* a second hook on one order.  Every later hook of the stock is then ignored.
CheckerSticks(s) ==
  \E h \in Hooks :
    /\ hook[h].src = s
    /\ \/ hook[h].self_order_id = 0
       \/ \E g \in Hooks \ {h} :
            hook[g].src = s /\ hook[g].self_order_id = hook[h].self_order_id

\* A hooked order reaches the books only after the trade it depends on was
\* made with a volume within the threshold.
HooksHonoured ==
  \A h \in Hooks :
    LET s == hook[h].src
    IN  hook[h].self_order_id \in matched[s] /\ ~CheckerSticks(s)
          => shared[h] = Pass

NotifierSticks(s) == \E h \in Hooks : hook[h].target = s /\ hook[h].trade_id = 0

\* A promise is broken only if its trade never takes place: the exception
\* that ends a waiting thread is never a trade that was missed.
BrokenMeansMissing ==
  \A h \in Hooks :
    LET t == hook[h].target
    IN  shared[h] = Broken /\ ~NotifierSticks(t)
          => pc[t] \in {"exit", "done"} /\ idx(t) < hook[h].trade_id

\* The thread waits, perhaps through others, for a circle of threads each of
\* which waits for a trade of the next.
Encircled(s) ==
  \E C \in SUBSET Stocks :
    /\ s \in C
    /\ \A r \in C : \E h \in waiting[r] : shared[h] = Unset /\ hook[h].target \in C

\* Nothing but such a circle keeps a thread from returning, whichever trades
\* are made or missing and whichever threads die (hook.h:63, hook.h:94).
EndsOrEncircled == \A s \in Stocks : <>(pc[s] = "done" \/ Encircled(s))
=============================================================================
