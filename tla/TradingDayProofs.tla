-------------------------- MODULE TradingDayProofs --------------------------
(***************************************************************************)
(* Proofs about the hooks and about the day they are part of, for every    *)
(* number of stocks and orders, every hook table and every engine: first   *)
(* theorems of Spec, HookWait's own behaviours, then of DaySpec.           *)
(***************************************************************************)
EXTENDS TradingDay, TLAPS

(* The hooks.                                                              *)

\* A promise is still held by its notifier exactly until it is set or broken,
\* and a thread that is done holds none.
Owed ==
  /\ \A s \in Stocks : \A h \in promises[s] : hook[h].target = s
  /\ \A h \in Hooks : shared[h] = Unset <=> h \in promises[hook[h].target]
  /\ \A s \in Stocks : pc[s] = "done" => promises[s] = {}

\* The notifier is never past a trade that a promise it holds is for.
Served ==
  /\ \A s \in Stocks : ~NotifierSticks(s) =>
       \A h \in promises[s] :
         \/ hook[h].trade_id > idx(s)
         \/ hook[h].trade_id = idx(s) /\ pc[s] = "notify"
  /\ \A s \in Stocks : pc[s] = "notify" => idx(s) > 0

\* The hook a thread waits for is the one on the order it has just taken.
WaitsRight ==
  \A s \in Stocks : \A h \in waiting[s] :
    /\ hook[h].src = s /\ hook[h].self_order_id = order_id[s]
    /\ pc[s] = "wait" /\ order_id[s] > 0

\* The checker holds the hooks on all orders to come.
FuturesRight ==
  \A s \in Stocks : pc[s] # "done" =>
    \A h \in Hooks : hook[h].src = s =>
      /\ hook[h].self_order_id > order_id[s] => h \in futures[s]
      /\ h \in futures[s] /\ ~CheckerSticks(s) =>
           \/ hook[h].self_order_id > order_id[s]
           \/ hook[h].self_order_id = order_id[s] /\ pc[s] \in {"wait", "exit"}

FuturesOwn == \A s \in Stocks : \A h \in futures[s] : hook[h].src = s

MatchedTaken == \A s \in Stocks : \A n \in matched[s] : n <= order_id[s]

IInv ==
  /\ TypeOK
  /\ Owed
  /\ Served
  /\ WaitsRight
  /\ FuturesOwn
  /\ FuturesRight
  /\ MatchedTaken
  /\ ValuesRight
  /\ BrokenMeansMissing
  /\ HooksHonoured

-----------------------------------------------------------------------------

\* The fields of a hook.
LEMMA TableType ==
  ASSUME TypeOK, NEW h \in Hooks
  PROVE  /\ hook[h].src \in Stocks /\ hook[h].target \in Stocks
         /\ hook[h].self_order_id \in Nat /\ hook[h].trade_id \in Nat
BY HookAssumption DEF TypeOK, HookRecords

\* The index of the last trade and of the last order are naturals.
LEMMA IdxType ==
  ASSUME TypeOK, NEW s \in Stocks
  PROVE  idx(s) \in Nat /\ order_id[s] \in Nat
BY HookAssumption DEF TypeOK, idx

\* The day starts in the invariant.
LEMMA InitInv == Init => IInv
<1> SUFFICES ASSUME Init PROVE IInv
  OBVIOUS
<1> USE DEF Init
<1>1. TypeOK
  BY HookAssumption DEF TypeOK, Labels
<1>2. Owed /\ WaitsRight /\ FuturesOwn /\ MatchedTaken
  BY <1>1, TableType DEF Owed, WaitsRight, FuturesOwn, MatchedTaken
<1>3. ValuesRight /\ BrokenMeansMissing
  BY DEF ValuesRight, BrokenMeansMissing, Unset, Pass, Drop, Broken
<1>4. HooksHonoured
  BY <1>1, TableType DEF HooksHonoured
<1>5. Served
  <2>1. \A s \in Stocks : idx(s) = 0
    BY DEF idx
  <2> QED BY <1>1, <2>1, TableType DEF Served, NotifierSticks
<1>6. FuturesRight
  BY <1>1, TableType DEF FuturesRight, CheckerSticks
<1> QED BY <1>1, <1>2, <1>3, <1>4, <1>5, <1>6 DEF IInv

\* What a step that touches neither the promises nor the trades keeps.
LEMMA PromiseSideKept ==
  ASSUME IInv, NEW s \in Stocks, NEW label \in Labels,
         UNCHANGED <<hook, promises, shared, trades>>,
         Goto(s, label),
         pc[s] \notin {"notify", "exit", "done"}, label \notin {"notify", "done"}
  PROVE  Owed' /\ Served' /\ ValuesRight' /\ BrokenMeansMissing'
<1>1. TypeOK
  BY DEF IInv
<1>2. pc' = [pc EXCEPT ![s] = label] /\ pc \in [Stocks -> Labels]
  BY <1>1 DEF Goto, TypeOK
<1>3. Owed'
  BY <1>2 DEF IInv, Owed
<1>4. Served'
  BY <1>2 DEF IInv, Served, NotifierSticks, idx
<1>5. ValuesRight'
  BY DEF IInv, ValuesRight, idx
<1>6. BrokenMeansMissing'
  BY <1>1, <1>2, TableType DEF IInv, BrokenMeansMissing, NotifierSticks, idx
<1> QED BY <1>3, <1>4, <1>5, <1>6

\* What a step that touches neither the futures nor the orders keeps.
LEMMA FutureSideKept ==
  ASSUME IInv, NEW s \in Stocks, NEW label \in Labels,
         UNCHANGED <<hook, futures, order_id, waiting, matched>>,
         Goto(s, label), pc[s] \notin {"wait", "done"},
         pc[s] = "exit" => label = "exit",
         \A h \in Hooks : shared[h] = Pass => shared'[h] = Pass
  PROVE  WaitsRight' /\ FuturesOwn' /\ FuturesRight' /\ MatchedTaken' /\ HooksHonoured'
<1>1. TypeOK
  BY DEF IInv
<1>2. pc' = [pc EXCEPT ![s] = label] /\ pc \in [Stocks -> Labels]
  BY <1>1 DEF Goto, TypeOK
<1>3. WaitsRight'
  BY <1>2 DEF IInv, WaitsRight
<1>4. FuturesOwn' /\ MatchedTaken'
  BY DEF IInv, FuturesOwn, MatchedTaken
<1>5. FuturesRight'
  BY <1>2 DEF IInv, FuturesRight, CheckerSticks
<1>6. HooksHonoured'
  BY <1>1, TableType DEF IInv, HooksHonoured, CheckerSticks
<1> QED BY <1>3, <1>4, <1>5, <1>6

-----------------------------------------------------------------------------
(* The steps of a checker.                                                 *)

\* No hook on the next order: none is left behind.
LEMMA NoneHooked ==
  ASSUME IInv, NEW s \in Stocks, pc[s] = "next", Hooked(s) = {}, ~CheckerSticks(s),
         NEW h \in Hooks, hook[h].src = s
  PROVE  hook[h].self_order_id # order_id[s] + 1
<1> SUFFICES ASSUME hook[h].self_order_id = order_id[s] + 1 PROVE FALSE
  OBVIOUS
<1>1. TypeOK /\ order_id[s] \in Nat
  BY IdxType DEF IInv
<1>2. h \in futures[s]
  BY <1>1 DEF IInv, FuturesRight
<1>3. \A g \in futures[s] : g \in Hooks /\ hook[g].src = s
  BY <1>1 DEF IInv, FuturesOwn, TypeOK
<1>4. \A g \in futures[s] : hook[g].self_order_id > order_id[s]
  BY <1>3 DEF IInv, FuturesRight
<1>5. \A g \in futures[s] : hook[g].self_order_id >= order_id[s] + 1
  BY <1>1, <1>3, <1>4, TableType
<1>6. h \in BackFutures(s)
  BY <1>1, <1>2, <1>5 DEF BackFutures
<1> QED BY <1>6 DEF Hooked

\* Opening a stock keeps the invariant.
LEMMA OpenInv == ASSUME IInv, NEW s \in Stocks, Open(s) PROVE IInv'
<1>1. PICK label \in {"next", "exit"} : Goto(s, label)
  BY DEF Open
<1>2. Owed' /\ Served' /\ ValuesRight' /\ BrokenMeansMissing'
  BY <1>1, PromiseSideKept DEF Open, Labels
<1>3. WaitsRight' /\ FuturesOwn' /\ FuturesRight' /\ MatchedTaken' /\ HooksHonoured'
  BY <1>1, FutureSideKept DEF Open, Labels
<1>4. TypeOK'
  BY <1>1 DEF Open, IInv, TypeOK, Goto, Labels
<1> QED BY <1>2, <1>3, <1>4 DEF IInv

\* Taking an order without hooks keeps the invariant.
LEMMA NextOrderInv == ASSUME IInv, NEW s \in Stocks, NextOrder(s) PROVE IInv'
<1>1. Goto(s, "match") /\ pc[s] = "next" /\ Hooked(s) = {}
  BY DEF NextOrder
<1>2. Owed' /\ Served' /\ ValuesRight' /\ BrokenMeansMissing'
  BY <1>1, PromiseSideKept DEF NextOrder, Labels
<1>3. TypeOK /\ order_id[s] \in Nat /\ order_id[s] < NumOrders
  BY IdxType DEF IInv, NextOrder, MoreOrders
<1>4. /\ order_id' = [order_id EXCEPT ![s] = @ + 1]
      /\ matched' = [matched EXCEPT ![s] = @ \cup {order_id[s] + 1}]
      /\ pc' = [pc EXCEPT ![s] = "match"]
      /\ UNCHANGED <<hook, futures, promises, shared, trades, waiting>>
  BY DEF NextOrder, Take, Goto
<1>5. TypeOK'
  BY <1>3, <1>4, HookAssumption DEF TypeOK, Labels
<1>6. waiting[s] = {}
  BY <1>1 DEF IInv, WaitsRight
<1>7. WaitsRight' /\ FuturesOwn'
  BY <1>3, <1>4, <1>6 DEF IInv, TypeOK, WaitsRight, FuturesOwn
<1>8. MatchedTaken'
  BY <1>3, <1>4, HookAssumption DEF IInv, TypeOK, MatchedTaken
<1>9. FuturesRight'
  <2> SUFFICES ASSUME NEW r \in Stocks, pc'[r] # "done", NEW h \in Hooks, hook[h].src = r
               PROVE  /\ hook[h].self_order_id > order_id'[r] => h \in futures[r]
                      /\ h \in futures[r] /\ ~CheckerSticks(r) =>
                           \/ hook[h].self_order_id > order_id'[r]
                           \/ hook[h].self_order_id = order_id'[r] /\ pc'[r] \in {"wait", "exit"}
    BY <1>4 DEF FuturesRight, CheckerSticks
  <2>1. CASE r # s
    BY <1>3, <1>4, <2>1 DEF IInv, TypeOK, FuturesRight
  <2>2. CASE r = s
    <3>1. order_id'[s] = order_id[s] + 1 /\ hook[h].self_order_id \in Nat
      BY <1>3, <1>4, TableType DEF TypeOK
    <3>2. hook[h].self_order_id > order_id[s] + 1 => h \in futures[s]
      BY <1>1, <1>3, <2>2, <3>1 DEF IInv, FuturesRight
    <3>3. h \in futures[s] /\ ~CheckerSticks(s) => hook[h].self_order_id > order_id[s]
      BY <1>1, <2>2 DEF IInv, FuturesRight
    <3>4. ~CheckerSticks(s) => hook[h].self_order_id # order_id[s] + 1
      BY <1>1, <2>2, NoneHooked
    <3> QED BY <1>3, <2>2, <3>1, <3>2, <3>3, <3>4
  <2> QED BY <2>1, <2>2
<1>10. HooksHonoured'
  <2> SUFFICES ASSUME NEW h \in Hooks, ~CheckerSticks(hook[h].src),
                      hook[h].self_order_id \in matched'[hook[h].src]
               PROVE  shared[h] = Pass
    BY <1>4 DEF HooksHonoured, CheckerSticks
  <2>1. hook[h].src = s => hook[h].self_order_id # order_id[s] + 1
    BY <1>1, NoneHooked
  <2>2. hook[h].self_order_id \in matched[hook[h].src]
    BY <1>3, <1>4, <2>1, TableType DEF TypeOK
  <2> QED BY <2>2 DEF IInv, HooksHonoured
<1> QED BY <1>2, <1>5, <1>7, <1>8, <1>9, <1>10 DEF IInv

\* Taking an order that has hooks keeps the invariant.
LEMMA NextHookedInv == ASSUME IInv, NEW s \in Stocks, NextHooked(s) PROVE IInv'
<1>1. Goto(s, "wait") /\ pc[s] = "next"
  BY DEF NextHooked
<1>2. Owed' /\ Served' /\ ValuesRight' /\ BrokenMeansMissing'
  BY <1>1, PromiseSideKept DEF NextHooked, Labels
<1>3. TypeOK /\ order_id[s] \in Nat /\ order_id[s] < NumOrders
  BY IdxType DEF IInv, NextHooked, MoreOrders
<1>4. PICK h \in futures[s] :
        /\ hook[h].self_order_id = order_id[s] + 1
        /\ waiting' = [waiting EXCEPT ![s] = {h}]
  BY DEF NextHooked, Hooked, BackFutures
<1>5. /\ order_id' = [order_id EXCEPT ![s] = @ + 1]
      /\ pc' = [pc EXCEPT ![s] = "wait"]
      /\ UNCHANGED <<hook, futures, promises, shared, trades, matched>>
  BY DEF NextHooked, Take, Goto
<1>6. h \in Hooks /\ hook[h].src = s
  BY <1>3 DEF IInv, TypeOK, FuturesOwn
<1>7. TypeOK'
  BY <1>3, <1>4, <1>5, <1>6, HookAssumption DEF TypeOK, Labels
<1>8. WaitsRight' /\ FuturesOwn'
  BY <1>3, <1>4, <1>5, <1>6 DEF IInv, TypeOK, WaitsRight, FuturesOwn
<1>9. MatchedTaken'
  BY <1>3, <1>5, HookAssumption DEF IInv, TypeOK, MatchedTaken
<1>10. FuturesRight'
  <2> SUFFICES ASSUME NEW r \in Stocks, pc'[r] # "done", NEW g \in Hooks, hook[g].src = r
               PROVE  /\ hook[g].self_order_id > order_id'[r] => g \in futures[r]
                      /\ g \in futures[r] /\ ~CheckerSticks(r) =>
                           \/ hook[g].self_order_id > order_id'[r]
                           \/ hook[g].self_order_id = order_id'[r] /\ pc'[r] \in {"wait", "exit"}
    BY <1>5 DEF FuturesRight, CheckerSticks
  <2>1. CASE r # s
    BY <1>3, <1>5, <2>1 DEF IInv, TypeOK, FuturesRight
  <2>2. CASE r = s
    <3>1. /\ order_id'[s] = order_id[s] + 1 /\ pc'[s] = "wait"
          /\ hook[g].self_order_id \in Nat
      BY <1>3, <1>5, TableType DEF TypeOK
    <3>2. /\ hook[g].self_order_id > order_id[s] => g \in futures[s]
          /\ g \in futures[s] /\ ~CheckerSticks(s) => hook[g].self_order_id > order_id[s]
      BY <1>1, <2>2 DEF IInv, FuturesRight
    <3> QED BY <1>3, <2>2, <3>1, <3>2
  <2> QED BY <2>1, <2>2
<1>11. HooksHonoured'
  BY <1>5 DEF IInv, HooksHonoured, CheckerSticks
<1> QED BY <1>2, <1>7, <1>8, <1>9, <1>10, <1>11 DEF IInv

\* A wait for a trade that returns keeps the invariant.
LEMMA GetReturnsInv == ASSUME IInv, NEW s \in Stocks, GetReturns(s) PROVE IInv'
<1>1. PICK h \in waiting[s] :
        /\ shared[h] \in {Pass, Drop}
        /\ futures' = [futures EXCEPT ![s] = @ \ {h}]
        /\ \/ /\ shared[h] = Pass
              /\ matched' = [matched EXCEPT ![s] = @ \cup {order_id[s]}]
              /\ Goto(s, "match")
           \/ UNCHANGED matched /\ Goto(s, "next")
  BY DEF GetReturns
<1>2. /\ pc[s] = "wait" /\ waiting' = [waiting EXCEPT ![s] = {}]
      /\ UNCHANGED <<hook, promises, shared, order_id, trades>>
  BY DEF GetReturns
<1>3. PICK label \in {"match", "next"} : Goto(s, label)
  BY <1>1
<1>4. Owed' /\ Served' /\ ValuesRight' /\ BrokenMeansMissing'
  BY <1>2, <1>3, PromiseSideKept DEF Labels
<1>5. TypeOK /\ order_id[s] \in Nat /\ order_id[s] <= NumOrders
  BY IdxType DEF IInv, TypeOK
<1>6. h \in Hooks /\ hook[h].src = s /\ hook[h].self_order_id = order_id[s]
  BY <1>5 DEF IInv, WaitsRight, TypeOK
<1>7. pc' = [pc EXCEPT ![s] = label]
  BY <1>3 DEF Goto
<1>8. TypeOK'
  <2>1. CASE UNCHANGED matched
    BY <1>1, <1>2, <1>5, <1>7, <2>1 DEF TypeOK, Labels
  <2>2. CASE matched' = [matched EXCEPT ![s] = @ \cup {order_id[s]}]
    <3>1. order_id[s] \in 1..NumOrders
      BY <1>5 DEF IInv, WaitsRight, TypeOK
    <3> QED BY <1>1, <1>2, <1>5, <1>7, <2>2, <3>1 DEF TypeOK, Labels
  <2> QED BY <1>1, <2>1, <2>2
<1>9. WaitsRight' /\ FuturesOwn'
  BY <1>1, <1>2, <1>5, <1>7 DEF IInv, TypeOK, WaitsRight, FuturesOwn
<1>10. MatchedTaken'
  <2>1. \A r \in Stocks : matched'[r] \subseteq matched[r] \cup {order_id[s]}
    BY <1>1, <1>5 DEF TypeOK
  <2>2. \A r \in Stocks \ {s} : matched'[r] = matched[r]
    BY <1>1, <1>5 DEF TypeOK
  <2> QED BY <1>2, <1>5, <2>1, <2>2 DEF IInv, MatchedTaken
<1>11. FuturesRight'
  <2> SUFFICES ASSUME NEW r \in Stocks, pc'[r] # "done", NEW g \in Hooks, hook[g].src = r
               PROVE  /\ hook[g].self_order_id > order_id[r] => g \in futures'[r]
                      /\ g \in futures'[r] /\ ~CheckerSticks(r) =>
                           \/ hook[g].self_order_id > order_id[r]
                           \/ hook[g].self_order_id = order_id[r] /\ pc'[r] \in {"wait", "exit"}
    BY <1>2 DEF FuturesRight, CheckerSticks
  <2>1. CASE r # s
    BY <1>1, <1>5, <1>7, <2>1 DEF IInv, TypeOK, FuturesRight
  <2>2. CASE r = s
    <3>1. futures'[s] = futures[s] \ {h}
      BY <1>1, <1>5 DEF TypeOK
    <3>2. /\ hook[g].self_order_id > order_id[s] => g \in futures[s]
          /\ g \in futures[s] /\ ~CheckerSticks(s) =>
               hook[g].self_order_id > order_id[s] \/ hook[g].self_order_id = order_id[s]
      BY <1>2, <2>2 DEF IInv, FuturesRight
    <3>3. ~CheckerSticks(s) /\ hook[g].self_order_id = order_id[s] => g = h
      BY <1>6, <2>2 DEF CheckerSticks
    <3>4. hook[g].self_order_id \in Nat
      BY <1>5, TableType
    <3> QED BY <1>5, <1>6, <2>2, <3>1, <3>2, <3>3, <3>4
  <2> QED BY <2>1, <2>2
<1>12. HooksHonoured'
  <2> SUFFICES ASSUME NEW g \in Hooks, ~CheckerSticks(hook[g].src),
                      hook[g].self_order_id \in matched'[hook[g].src]
               PROVE  shared[g] = Pass
    BY <1>2 DEF HooksHonoured, CheckerSticks
  <2>1. CASE hook[g].self_order_id \in matched[hook[g].src]
    BY <2>1 DEF IInv, HooksHonoured
  <2>2. CASE hook[g].self_order_id \notin matched[hook[g].src]
    <3>1. hook[g].src = s /\ hook[g].self_order_id = order_id[s] /\ shared[h] = Pass
      BY <1>1, <1>5, <2>2, TableType DEF TypeOK
    <3>2. g = h
      BY <1>6, <3>1 DEF CheckerSticks
    <3> QED BY <3>1, <3>2
  <2> QED BY <2>1, <2>2
<1> QED BY <1>4, <1>8, <1>9, <1>10, <1>11, <1>12 DEF IInv

\* A wait that ends in a broken promise keeps the invariant.
LEMMA GetThrowsInv == ASSUME IInv, NEW s \in Stocks, GetThrows(s) PROVE IInv'
<1>1. Goto(s, "exit") /\ pc[s] = "wait"
  BY DEF GetThrows
<1>2. Owed' /\ Served' /\ ValuesRight' /\ BrokenMeansMissing'
  BY <1>1, PromiseSideKept DEF GetThrows, Labels
<1>3. /\ pc' = [pc EXCEPT ![s] = "exit"] /\ waiting' = [waiting EXCEPT ![s] = {}]
      /\ UNCHANGED <<hook, futures, promises, shared, order_id, trades, matched>>
  BY DEF GetThrows, Goto
<1>4. TypeOK'
  BY <1>3 DEF IInv, TypeOK, Labels
<1>5. WaitsRight' /\ FuturesOwn' /\ MatchedTaken'
  BY <1>3 DEF IInv, TypeOK, WaitsRight, FuturesOwn, MatchedTaken
<1>6. FuturesRight'
  BY <1>1, <1>3 DEF IInv, TypeOK, FuturesRight, CheckerSticks
<1>7. HooksHonoured'
  BY <1>3 DEF IInv, HooksHonoured, CheckerSticks
<1> QED BY <1>2, <1>4, <1>5, <1>6, <1>7 DEF IInv

-----------------------------------------------------------------------------
(* The steps of a notifier.                                                *)

\* A trade keeps the invariant.
LEMMA CommitInv == ASSUME IInv, NEW s \in Stocks, Commit(s) PROVE IInv'
<1>1. pc[s] = "match" /\ Goto(s, "notify")
  BY DEF Commit
<1>2. PICK v \in Volumes : trades' = [trades EXCEPT ![s] = Append(@, v)]
  BY DEF Commit
<1>3. UNCHANGED <<hook, futures, promises, shared, order_id, waiting, matched>>
  BY DEF Commit
<1>4. TypeOK /\ pc' = [pc EXCEPT ![s] = "notify"]
  BY <1>1 DEF IInv, Goto
<1>5. WaitsRight' /\ FuturesOwn' /\ FuturesRight' /\ MatchedTaken' /\ HooksHonoured'
  BY <1>1, <1>3, FutureSideKept DEF Labels
<1>6. TypeOK'
  BY <1>2, <1>3, <1>4 DEF TypeOK, Labels
<1>7. Owed'
  BY <1>1, <1>3, <1>4 DEF IInv, Owed, TypeOK
<1>8. /\ trades'[s] = Append(trades[s], v) /\ trades[s] \in Seq(Volumes)
      /\ \A t \in Stocks \ {s} : trades'[t] = trades[t]
  BY <1>2, <1>4 DEF TypeOK
<1>9. /\ idx(s)' = idx(s) + 1 /\ idx(s) \in Nat
      /\ \A k \in 1..idx(s) : trades'[s][k] = trades[s][k]
      /\ \A t \in Stocks \ {s} : idx(t)' = idx(t)
  BY <1>8 DEF idx
<1>10. Served'
  <2>0. \A t \in Stocks : pc'[t] = "notify" => idx(t)' > 0
    BY <1>4, <1>9 DEF IInv, Served, TypeOK
  <2> SUFFICES ASSUME NEW t \in Stocks, ~NotifierSticks(t), NEW h \in promises[t]
               PROVE  \/ hook[h].trade_id > idx(t)'
                      \/ hook[h].trade_id = idx(t)' /\ pc'[t] = "notify"
    BY <1>3, <2>0 DEF Served, NotifierSticks
  <2>1. h \in Hooks /\ hook[h].trade_id \in Nat
    BY <1>4, TableType DEF TypeOK
  <2>2. CASE t # s
    BY <1>4, <1>9, <2>2 DEF IInv, Served, TypeOK
  <2>3. CASE t = s
    <3>1. hook[h].trade_id > idx(s)
      BY <1>1, <2>3 DEF IInv, Served
    <3> QED BY <1>4, <1>9, <2>1, <2>3, <3>1 DEF TypeOK
  <2> QED BY <2>2, <2>3
<1>11. ValuesRight'
  <2> SUFFICES ASSUME NEW h \in Hooks, shared[h] \in {Pass, Drop},
                      NEW t \in Stocks, hook[h].target = t
               PROVE  /\ hook[h].trade_id \in 1..idx(t)'
                      /\ shared[h] = Pass <=> trades'[t][hook[h].trade_id] <= hook[h].threshold
    BY <1>3, <1>4, TableType DEF ValuesRight, idx
  <2>1. /\ hook[h].trade_id \in 1..idx(t)
        /\ shared[h] = Pass <=> trades[t][hook[h].trade_id] <= hook[h].threshold
    BY DEF IInv, ValuesRight
  <2>2. trades'[t][hook[h].trade_id] = trades[t][hook[h].trade_id]
    BY <1>8, <1>9, <2>1
  <2>3. hook[h].trade_id \in 1..idx(t)'
    BY <1>4, <1>9, <2>1, IdxType
  <2> QED BY <2>1, <2>2, <2>3
<1>12. BrokenMeansMissing'
  <2> SUFFICES ASSUME NEW h \in Hooks, shared[h] = Broken,
                      NEW t \in Stocks, hook[h].target = t, ~NotifierSticks(t)
               PROVE  pc'[t] \in {"exit", "done"} /\ idx(t)' < hook[h].trade_id
    BY <1>3, <1>4, TableType DEF BrokenMeansMissing, NotifierSticks, idx
  <2>1. pc[t] \in {"exit", "done"} /\ idx(t) < hook[h].trade_id
    BY DEF IInv, BrokenMeansMissing
  <2>2. t # s
    BY <1>1, <2>1
  <2> QED BY <1>4, <1>9, <2>1, <2>2 DEF TypeOK
<1> QED BY <1>5, <1>6, <1>7, <1>10, <1>11, <1>12 DEF IInv

\* Setting a promise keeps the invariant.
LEMMA NotifyInv == ASSUME IInv, NEW s \in Stocks, Notify(s) PROVE IInv'
<1>1. pc[s] = "notify"
  BY DEF Notify
<1>2. PICK h \in promises[s] :
        /\ hook[h].trade_id = idx(s)
        /\ shared' = [shared EXCEPT ![h] = Resolved(h, trades[s][idx(s)])]
        /\ promises' = [promises EXCEPT ![s] = @ \ {h}]
  BY DEF Notify, BackPromises
<1>3. UNCHANGED <<hook, futures, pc, order_id, trades, waiting, matched>>
  BY DEF Notify
<1>4. TypeOK
  BY DEF IInv
<1>5. h \in Hooks /\ hook[h].target = s /\ shared[h] = Unset
  BY <1>4 DEF IInv, Owed, TypeOK
<1>6. Resolved(h, trades[s][idx(s)]) \in {Pass, Drop}
  BY DEF Resolved
<1>7. /\ shared'[h] = Resolved(h, trades[s][idx(s)])
      /\ \A g \in Hooks \ {h} : shared'[g] = shared[g]
      /\ promises'[s] = promises[s] \ {h}
      /\ \A t \in Stocks \ {s} : promises'[t] = promises[t]
  BY <1>2, <1>4, <1>5 DEF TypeOK
<1>8. Goto(s, "notify")
  BY <1>1, <1>3, <1>4 DEF Goto, TypeOK
<1>9. WaitsRight' /\ FuturesOwn' /\ FuturesRight' /\ MatchedTaken' /\ HooksHonoured'
  <2>1. \A g \in Hooks : shared[g] = Pass => shared'[g] = Pass
    BY <1>5, <1>7 DEF Unset, Pass
  <2> QED BY <1>1, <1>3, <1>8, <2>1, FutureSideKept DEF Labels
<1>10. TypeOK'
  BY <1>2, <1>3, <1>4, <1>6 DEF TypeOK
<1>11. Owed'
  <2>1. shared'[h] # Unset
    BY <1>6, <1>7 DEF Unset, Pass, Drop
  <2>2. \A g \in Hooks : hook[g].target \in Stocks
    BY <1>4, TableType
  <2>3. \A t \in Stocks : promises'[t] \subseteq promises[t]
    BY <1>7
  <2>4. \A t \in Stocks : \A g \in promises'[t] : hook[g].target = t
    BY <2>3 DEF IInv, Owed
  <2>5. \A g \in Hooks : shared'[g] = Unset <=> g \in promises'[hook[g].target]
    BY <1>5, <1>7, <2>1, <2>2 DEF IInv, Owed
  <2>6. \A t \in Stocks : pc[t] = "done" => promises'[t] = {}
    BY <2>3 DEF IInv, Owed
  <2> QED BY <1>3, <2>4, <2>5, <2>6 DEF Owed
<1>12. Served'
  BY <1>3, <1>7 DEF IInv, Served, NotifierSticks, idx
<1>13. ValuesRight'
  <2>1. idx(s) \in 1..idx(s)
    BY <1>1, <1>4, IdxType DEF IInv, Served
  <2>2. shared'[h] = Pass <=> trades[hook[h].target][hook[h].trade_id] <= hook[h].threshold
    BY <1>2, <1>5, <1>7 DEF Resolved, Pass, Drop
  <2> SUFFICES ASSUME NEW g \in Hooks, shared'[g] \in {Pass, Drop}
               PROVE  /\ hook[g].trade_id \in 1..idx(hook[g].target)
                      /\ shared'[g] = Pass <=>
                           trades[hook[g].target][hook[g].trade_id] <= hook[g].threshold
    BY <1>3 DEF ValuesRight, idx
  <2>3. CASE g = h
    BY <1>2, <1>5, <2>1, <2>2, <2>3
  <2>4. CASE g # h
    BY <1>7, <2>4 DEF IInv, ValuesRight
  <2> QED BY <2>3, <2>4
<1>14. BrokenMeansMissing'
  <2>1. \A g \in Hooks : shared'[g] = Broken => shared[g] = Broken
    BY <1>6, <1>7 DEF Broken, Pass, Drop
  <2> QED BY <1>3, <2>1 DEF IInv, BrokenMeansMissing, NotifierSticks, idx
<1> QED BY <1>9, <1>10, <1>11, <1>12, <1>13, <1>14 DEF IInv

\* Going on once no promise is left to set keeps the invariant.
LEMMA NotifiedInv == ASSUME IInv, NEW s \in Stocks, Notified(s) PROVE IInv'
<1>1. pc[s] = "notify" /\ Goto(s, "match")
  BY DEF Notified
<1>2. UNCHANGED <<hook, futures, promises, shared, order_id, trades, waiting, matched>>
  BY DEF Notified
<1>3. TypeOK /\ pc' = [pc EXCEPT ![s] = "match"]
  BY <1>1 DEF IInv, Goto
<1>4. WaitsRight' /\ FuturesOwn' /\ FuturesRight' /\ MatchedTaken' /\ HooksHonoured'
  BY <1>1, <1>2, FutureSideKept DEF Labels
<1>5. TypeOK'
  BY <1>2, <1>3 DEF TypeOK, Labels
<1>6. Owed' /\ ValuesRight' /\ BrokenMeansMissing'
  <2>1. Owed'
    BY <1>1, <1>2, <1>3 DEF IInv, Owed, TypeOK
  <2>2. ValuesRight'
    BY <1>2 DEF IInv, ValuesRight, idx
  <2>3. \A t \in Stocks : pc[t] \in {"exit", "done"} => pc'[t] = pc[t]
    BY <1>1, <1>3 DEF TypeOK
  <2>4. BrokenMeansMissing'
    BY <1>2, <1>3, <2>3, TableType DEF IInv, BrokenMeansMissing, NotifierSticks, idx
  <2> QED BY <2>1, <2>2, <2>4
<1>7. \A h \in promises[s] : ~NotifierSticks(s) => hook[h].trade_id # idx(s)
  <2> SUFFICES ASSUME NEW h \in promises[s], ~NotifierSticks(s), hook[h].trade_id = idx(s)
               PROVE  FALSE
    OBVIOUS
  <2>1. \A g \in promises[s] : hook[g].trade_id \in Nat
    BY <1>3, TableType DEF TypeOK
  <2>2. \A g \in promises[s] : hook[g].trade_id >= idx(s)
    BY <1>3, <2>1, IdxType DEF IInv, Served
  <2>3. h \in BackPromises(s)
    BY <2>1, <2>2 DEF BackPromises
  <2> QED BY <2>3 DEF Notified
<1>8. Served'
  BY <1>2, <1>3, <1>7 DEF IInv, Served, NotifierSticks, idx, TypeOK
<1> QED BY <1>4, <1>5, <1>6, <1>8 DEF IInv

\* The end of an order keeps the invariant.
LEMMA OrderDoneInv == ASSUME IInv, NEW s \in Stocks, OrderDone(s) PROVE IInv'
<1>1. Goto(s, "next") /\ pc[s] = "match"
  BY DEF OrderDone
<1>2. Owed' /\ Served' /\ ValuesRight' /\ BrokenMeansMissing'
  BY <1>1, PromiseSideKept DEF OrderDone, Labels
<1>3. WaitsRight' /\ FuturesOwn' /\ FuturesRight' /\ MatchedTaken' /\ HooksHonoured'
  BY <1>1, FutureSideKept DEF OrderDone, Labels
<1>4. TypeOK'
  BY <1>1 DEF OrderDone, IInv, TypeOK, Goto, Labels
<1> QED BY <1>2, <1>3, <1>4 DEF IInv

\* The end of a stream keeps the invariant.
LEMMA StreamEndsInv == ASSUME IInv, NEW s \in Stocks, StreamEnds(s) PROVE IInv'
<1>1. Goto(s, "exit") /\ pc[s] = "next"
  BY DEF StreamEnds
<1>2. Owed' /\ Served' /\ ValuesRight' /\ BrokenMeansMissing'
  BY <1>1, PromiseSideKept DEF StreamEnds, Labels
<1>3. WaitsRight' /\ FuturesOwn' /\ FuturesRight' /\ MatchedTaken' /\ HooksHonoured'
  BY <1>1, FutureSideKept DEF StreamEnds, Labels
<1>4. TypeOK'
  BY <1>1 DEF StreamEnds, IInv, TypeOK, Goto, Labels
<1> QED BY <1>2, <1>3, <1>4 DEF IInv

-----------------------------------------------------------------------------
(* The end of a thread.                                                    *)

\* A promise that is destroyed unset keeps the invariant.
LEMMA BreakPromiseInv == ASSUME IInv, NEW s \in Stocks, BreakPromise(s) PROVE IInv'
<1>1. pc[s] = "exit"
  BY DEF BreakPromise
<1>2. PICK h \in promises[s] :
        /\ shared' = [shared EXCEPT ![h] = Broken]
        /\ promises' = [promises EXCEPT ![s] = @ \ {h}]
  BY DEF BreakPromise
<1>3. UNCHANGED <<hook, futures, pc, order_id, trades, waiting, matched>>
  BY DEF BreakPromise
<1>4. TypeOK
  BY DEF IInv
<1>5. h \in Hooks /\ hook[h].target = s /\ shared[h] = Unset
  BY <1>4 DEF IInv, Owed, TypeOK
<1>6. /\ shared'[h] = Broken
      /\ \A g \in Hooks \ {h} : shared'[g] = shared[g]
      /\ promises'[s] = promises[s] \ {h}
      /\ \A t \in Stocks \ {s} : promises'[t] = promises[t]
  BY <1>2, <1>4, <1>5 DEF TypeOK
<1>7. Goto(s, "exit")
  BY <1>1, <1>3, <1>4 DEF Goto, TypeOK
<1>8. WaitsRight' /\ FuturesOwn' /\ FuturesRight' /\ MatchedTaken' /\ HooksHonoured'
  <2>1. \A g \in Hooks : shared[g] = Pass => shared'[g] = Pass
    BY <1>5, <1>6 DEF Unset, Pass
  <2> QED BY <1>1, <1>3, <1>7, <2>1, FutureSideKept DEF Labels
<1>9. TypeOK'
  BY <1>2, <1>3, <1>4 DEF TypeOK
<1>10. Owed'
  <2>1. shared'[h] # Unset
    BY <1>6 DEF Unset, Broken
  <2>2. \A g \in Hooks : hook[g].target \in Stocks
    BY <1>4, TableType
  <2>3. \A t \in Stocks : promises'[t] \subseteq promises[t]
    BY <1>6
  <2>4. \A t \in Stocks : \A g \in promises'[t] : hook[g].target = t
    BY <2>3 DEF IInv, Owed
  <2>5. \A g \in Hooks : shared'[g] = Unset <=> g \in promises'[hook[g].target]
    BY <1>5, <1>6, <2>1, <2>2 DEF IInv, Owed
  <2>6. \A t \in Stocks : pc[t] = "done" => promises'[t] = {}
    BY <2>3 DEF IInv, Owed
  <2> QED BY <1>3, <2>4, <2>5, <2>6 DEF Owed
<1>11. Served'
  BY <1>3, <1>6 DEF IInv, Served, NotifierSticks, idx
<1>12. ValuesRight'
  <2>1. \A g \in Hooks : shared'[g] \in {Pass, Drop} => shared'[g] = shared[g]
    BY <1>6 DEF Broken, Pass, Drop
  <2> QED BY <1>3, <2>1 DEF IInv, ValuesRight, idx
<1>13. BrokenMeansMissing'
  <2>1. ~NotifierSticks(s) => idx(s) < hook[h].trade_id
    BY <1>1, <1>4, <1>5, IdxType, TableType DEF IInv, Served
  <2> SUFFICES ASSUME NEW g \in Hooks, shared'[g] = Broken, ~NotifierSticks(hook[g].target)
               PROVE  /\ pc[hook[g].target] \in {"exit", "done"}
                      /\ idx(hook[g].target) < hook[g].trade_id
    BY <1>3 DEF BrokenMeansMissing, NotifierSticks, idx
  <2>2. CASE g = h
    BY <1>1, <1>5, <2>1, <2>2
  <2>3. CASE g # h
    BY <1>6, <2>3 DEF IInv, BrokenMeansMissing
  <2> QED BY <2>2, <2>3
<1> QED BY <1>8, <1>9, <1>10, <1>11, <1>12, <1>13 DEF IInv

\* The exit of a stock's thread keeps the invariant.
LEMMA ExitInv == ASSUME IInv, NEW s \in Stocks, Exit(s) PROVE IInv'
<1>1. pc[s] = "exit" /\ promises[s] = {}
  BY DEF Exit, AllDestroyed
<1>2. /\ futures' = [futures EXCEPT ![s] = {}] /\ pc' = [pc EXCEPT ![s] = "done"]
      /\ UNCHANGED <<hook, promises, shared, order_id, trades, waiting, matched>>
  BY DEF Exit, Goto
<1>3. TypeOK
  BY DEF IInv
<1>4. TypeOK'
  BY <1>2, <1>3 DEF TypeOK, Labels
<1>5. Owed'
  BY <1>1, <1>2, <1>3 DEF IInv, Owed, TypeOK
<1>6. Served'
  BY <1>1, <1>2, <1>3 DEF IInv, Served, NotifierSticks, idx, TypeOK
<1>7. WaitsRight'
  BY <1>1, <1>2, <1>3 DEF IInv, WaitsRight, TypeOK
<1>8. FuturesOwn' /\ MatchedTaken'
  BY <1>2, <1>3 DEF IInv, FuturesOwn, MatchedTaken, TypeOK
<1>9. FuturesRight'
  BY <1>2, <1>3 DEF IInv, FuturesRight, CheckerSticks, TypeOK
<1>10. ValuesRight' /\ HooksHonoured'
  BY <1>2 DEF IInv, ValuesRight, idx, HooksHonoured, CheckerSticks
<1>11. BrokenMeansMissing'
  <2>1. \A t \in Stocks : pc[t] \in {"exit", "done"} => pc'[t] \in {"exit", "done"}
    BY <1>2, <1>3 DEF TypeOK
  <2> QED BY <1>2, <1>3, <2>1, TableType DEF IInv, BrokenMeansMissing, NotifierSticks, idx
<1> QED BY <1>4, <1>5, <1>6, <1>7, <1>8, <1>9, <1>10, <1>11 DEF IInv

\* A step that changes nothing keeps the invariant.
LEMMA StutterInv == ASSUME IInv, UNCHANGED vars PROVE IInv'
<1> USE DEF vars
<1>1. TypeOK' /\ Owed' /\ Served' /\ WaitsRight' /\ FuturesOwn' /\ MatchedTaken'
  BY DEF IInv, TypeOK, Owed, Served, NotifierSticks, idx, WaitsRight, FuturesOwn, MatchedTaken
<1>2. FuturesRight' /\ HooksHonoured'
  BY DEF IInv, FuturesRight, CheckerSticks, HooksHonoured
<1>3. ValuesRight' /\ BrokenMeansMissing'
  BY DEF IInv, ValuesRight, idx, BrokenMeansMissing, NotifierSticks
<1> QED BY <1>1, <1>2, <1>3 DEF IInv

-----------------------------------------------------------------------------
(* The theorems.                                                           *)

\* Every step keeps the invariant.
LEMMA Inductive == IInv /\ [Next]_vars => IInv'
<1> SUFFICES ASSUME IInv, [Next]_vars PROVE IInv'
  OBVIOUS
<1>1. ASSUME NEW s \in Stocks, Step(s) PROVE IInv'
  BY <1>1, OpenInv, NextOrderInv, NextHookedInv, GetReturnsInv, GetThrowsInv, CommitInv,
    NotifyInv, NotifiedInv, OrderDoneInv, StreamEndsInv, BreakPromiseInv, ExitInv DEF Step
<1>2. CASE Joined \/ UNCHANGED vars
  BY <1>2, StutterInv DEF Joined
<1> QED BY <1>1, <1>2 DEF Next

\* The inductive invariant holds in every state of the hook machinery.
THEOREM InvariantHolds == Spec => []IInv
BY InitInv, Inductive, PTL DEF Spec

\* The hook machinery keeps its types.
THEOREM TypeCorrect == Spec => []TypeOK
<1>1. IInv => TypeOK
  BY DEF IInv
<1> QED BY <1>1, InvariantHolds, PTL

\* No thread waits for one that has returned.
THEOREM NoThreadOrphaned == Spec => []NoOrphanWait
<1>1. IInv => NoOrphanWait
  <2> SUFFICES ASSUME IInv, NEW s \in Stocks, NEW h \in waiting[s], shared[h] = Unset
               PROVE  /\ pc[hook[h].target] # "done"
                      /\ h \in promises[hook[h].target]
    BY DEF NoOrphanWait
  <2>1. h \in Hooks /\ hook[h].target \in Stocks
    BY TableType DEF IInv, TypeOK
  <2> QED BY <2>1 DEF IInv, Owed
<1> QED BY <1>1, InvariantHolds, PTL

\* A future yields what its trade's volume says.
THEOREM ResultsRight == Spec => []ValuesRight
<1>1. IInv => ValuesRight
  BY DEF IInv
<1> QED BY <1>1, InvariantHolds, PTL

\* A hooked order is matched only if its hook passed.
THEOREM OrdersHonourHooks == Spec => []HooksHonoured
<1>1. IInv => HooksHonoured
  BY DEF IInv
<1> QED BY <1>1, InvariantHolds, PTL

\* A promise breaks only if its trade never comes.
THEOREM OnlyMissingBreak == Spec => []BrokenMeansMissing
<1>1. IInv => BrokenMeansMissing
  BY DEF IInv
<1> QED BY <1>1, InvariantHolds, PTL

-----------------------------------------------------------------------------
(* The day.                                                                *)


Theirs(s) == engine[s][peer.matched[s]]

On(s, n) == {h \in Hooks : hook[h].src = s /\ hook[h].self_order_id = n}

\* What the day was given does not change.
DayFixed ==
  /\ engine \in [Stocks -> Engines]
  /\ peer \in DayRecords
  /\ IsDay(peer)

\* The trades made are the ones earned, and all of them between two orders.
TradesEarned ==
  \A s \in Stocks :
    /\ Begins(trades[s], Earned(s))
    /\ pc[s] \notin {"match", "notify"} => trades[s] = Earned(s)

\* The first n orders of s are decided, each by the hooks on it.
JudgedUpTo(s, n) ==
  \A k \in 1..n :
    /\ \A h \in On(s, k) : shared[h] \in {Pass, Drop}
    /\ k \in matched[s] <=> \A h \in On(s, k) : shared[h] = Pass

Running == {"start", "next", "match", "notify"}

\* Nothing is matched that is not decided, and a thread that runs has decided
\* all it has taken.
Judged ==
  \A s \in Stocks :
    /\ JudgedUpTo(s, Decided(s))
    /\ matched[s] \subseteq 1..Decided(s)
    /\ pc[s] \in Running => Decided(s) = order_id[s]
    /\ pc[s] = "wait" => order_id[s] > 0 /\ waiting[s] # {}

\* Both traders have decided alike what both have decided.
PeerAgrees ==
  \A s \in Stocks : \A n \in 1..Decided(s) :
    n <= peer.taken[s] => (n \in matched[s] <=> n \in peer.matched[s])

DInv ==
  /\ IInv
  /\ DayFixed
  /\ TradesEarned
  /\ NoneSticks => Judged /\ PeerAgrees

-----------------------------------------------------------------------------
(* Beginnings of sequences.                                                *)

\* The types of a stock's trades and of both traders' decisions.
LEMMA EarnedType ==
  ASSUME IInv, DayFixed, NEW s \in Stocks
  PROVE  /\ Earned(s) \in Seq(Volumes) /\ trades[s] \in Seq(Volumes)
         /\ Theirs(s) \in Seq(Volumes)
         /\ matched[s] \in SUBSET Orders /\ peer.matched[s] \in SUBSET Orders
         /\ peer.taken[s] \in 0..NumOrders
         /\ engine[s] \in Engines
<1>1. engine[s] \in Engines /\ matched[s] \in SUBSET Orders /\ peer.matched[s] \in SUBSET Orders
  BY DEF IInv, TypeOK, DayFixed, DayRecords, Orders
<1>2. engine[s] \in [SUBSET Orders -> Seq(Volumes)]
  BY <1>1, EngineAssumption
<1> QED BY <1>1, <1>2 DEF Earned, Theirs, IInv, TypeOK, DayFixed, DayRecords

\* A beginning of a beginning is a beginning.
LEMMA BeginsTrans ==
  ASSUME NEW p \in Seq(Volumes), NEW q \in Seq(Volumes), NEW r \in Seq(Volumes),
         Begins(p, q), Begins(q, r)
  PROVE  Begins(p, r)
BY DEF Begins

\* Of two beginnings of one sequence one begins the other.
LEMMA TwoBeginnings ==
  ASSUME NEW p \in Seq(Volumes), NEW q \in Seq(Volumes), NEW r \in Seq(Volumes),
         Begins(p, r), Begins(q, r)
  PROVE  Begins(p, q) \/ Begins(q, p)
BY DEF Begins

\* More orders by rising id: the trades made before stay.
LEMMA EarnsOn ==
  ASSUME NEW e \in Engines, NEW A \in SUBSET Orders, NEW B \in SUBSET Orders,
         NEW n \in 0..NumOrders, A = B \cap (1..n)
  PROVE  Begins(e[A], e[B])
BY EngineAssumption

\* A stock takes at most the orders there are.
LEMMA TakenType ==
  ASSUME IInv, NEW s \in Stocks
  PROVE  order_id[s] \in 0..NumOrders /\ NumOrders \in Nat
BY HookAssumption DEF IInv, TypeOK

\* A stock has decided every order it took, or all but the last.
LEMMA DecidedCases ==
  ASSUME NEW s \in Stocks
  PROVE  Decided(s) \in {order_id[s], order_id[s] - 1}
BY DEF Decided

\* What both traders have traded of a stock never differs.
LEMMA Comparable ==
  ASSUME DInv, NoneSticks, NEW s \in Stocks
  PROVE  Begins(trades[s], Theirs(s)) \/ Begins(Theirs(s), trades[s])
<1> DEFINE d == Decided(s)
           t == peer.taken[s]
<1>1. IInv /\ DayFixed /\ Judged /\ PeerAgrees
  BY DEF DInv
<1>2. d \in {order_id[s], order_id[s] - 1} /\ order_id[s] \in 0..NumOrders /\ NumOrders \in Nat
  BY <1>1, TakenType, DecidedCases
<1>3. /\ matched[s] \subseteq 1..d /\ peer.matched[s] \subseteq 1..t /\ t \in 0..NumOrders
      /\ \A n \in 1..d : n <= t => (n \in matched[s] <=> n \in peer.matched[s])
  BY <1>1, EarnedType DEF Judged, DayFixed, IsDay, PeerAgrees
<1>4. Begins(trades[s], Earned(s))
  BY DEF DInv, TradesEarned
<1> HIDE DEF d, t
<1>5. CASE d >= t
  <2>1. peer.matched[s] = matched[s] \cap (1..t)
    BY <1>2, <1>3, <1>5
  <2>2. Begins(Theirs(s), Earned(s))
    BY <1>1, <1>3, <2>1, EarnedType, EarnsOn DEF Theirs, Earned
  <2> QED BY <1>1, <1>4, <2>2, EarnedType, TwoBeginnings
<1>6. CASE d < t
  <2>1. CASE d >= 0
    <3>1. matched[s] = peer.matched[s] \cap (1..d) /\ d \in 0..NumOrders
      BY <1>2, <1>3, <1>6, <2>1
    <3>2. Begins(Earned(s), Theirs(s))
      BY <1>1, <3>1, EarnedType, EarnsOn DEF Theirs, Earned
    <3> QED BY <1>1, <1>4, <3>2, EarnedType, BeginsTrans
  <2>2. CASE d < 0
    <3>1. matched[s] = peer.matched[s] \cap (1..0) /\ 0 \in 0..NumOrders
      BY <1>2, <1>3, <2>2
    <3>2. Begins(Earned(s), Theirs(s))
      BY <1>1, <3>1, EarnedType, EarnsOn DEF Theirs, Earned
    <3> QED BY <1>1, <1>4, <3>2, EarnedType, BeginsTrans
  <2> QED BY <1>2, <2>1, <2>2
<1> QED BY <1>2, <1>3, <1>5, <1>6

\* So a hook decides an order as it did at the other trader.
LEMMA HookDecides ==
  ASSUME DInv, NoneSticks, NEW h \in Hooks, shared[h] \in {Pass, Drop},
         hook[h].self_order_id \in 1..peer.taken[hook[h].src]
  PROVE  shared[h] = Pass <=> hook[h].self_order_id \in peer.matched[hook[h].src]
<1> DEFINE s == hook[h].src
           n == hook[h].self_order_id
           t == hook[h].target
           k == hook[h].trade_id
<1>1. s \in Stocks /\ t \in Stocks
  BY TableType DEF DInv, IInv
<1>2. k \in 1..Len(trades[t]) /\ (shared[h] = Pass <=> trades[t][k] <= hook[h].threshold)
  BY DEF DInv, IInv, ValuesRight, idx
<1>3. On(s, n) = {h}
  BY <1>1 DEF NoneSticks, CheckerSticks, On
<1>4. k \in DOMAIN Theirs(t) /\ (n \in peer.matched[s] <=> Theirs(t)[k] <= hook[h].threshold)
  BY <1>1, <1>3 DEF DInv, DayFixed, IsDay, On, Theirs
<1>5. Theirs(t)[k] = trades[t][k]
  <2>1. trades[t] \in Seq(Volumes) /\ Theirs(t) \in Seq(Volumes)
    BY <1>1, EarnedType DEF DInv
  <2>2. Begins(trades[t], Theirs(t)) \/ Begins(Theirs(t), trades[t])
    BY <1>1, Comparable
  <2> HIDE DEF t, k
  <2>3. k \in 1..Len(Theirs(t))
    BY <1>4, <2>1
  <2> QED BY <1>2, <2>1, <2>2, <2>3 DEF Begins
<1> QED BY <1>2, <1>4, <1>5

-----------------------------------------------------------------------------
(* Steps that decide nothing.                                              *)

\* Where no checker sticks an order has at most one hook.
LEMMA OneHook ==
  ASSUME NoneSticks, NEW g \in Hooks, NEW h \in Hooks, hook[g].src \in Stocks,
         hook[g].src = hook[h].src, hook[g].self_order_id = hook[h].self_order_id
  PROVE  g = h /\ hook[g].self_order_id # 0
BY DEF NoneSticks, CheckerSticks

\* The thread moves on without an order or a hook.
LEMMA MoveKeeps ==
  ASSUME DInv, NoneSticks, UNCHANGED <<hook, order_id, shared, matched, engine, peer, waiting>>,
         \A s \in Stocks : /\ pc'[s] = "wait" <=> pc[s] = "wait"
                           /\ pc'[s] \in Running => pc[s] \in Running
  PROVE  Judged' /\ PeerAgrees'
<1>1. \A s \in Stocks : Decided(s)' = Decided(s)
  BY DEF Decided
<1>2. \A s \in Stocks : \A n : n = Decided(s) => (JudgedUpTo(s, n) => JudgedUpTo(s, n)')
  BY DEF JudgedUpTo, On
<1>3. \A s \in Stocks : JudgedUpTo(s, Decided(s))'
  BY <1>1, <1>2 DEF DInv, Judged, JudgedUpTo, On
<1>4. Judged'
  BY <1>1, <1>3 DEF DInv, Judged
<1>5. PeerAgrees'
  BY <1>1 DEF DInv, PeerAgrees
<1> QED BY <1>4, <1>5

\* A promise is set or broken: it was not one of an order already decided.
LEMMA SettleKeeps ==
  ASSUME DInv, NoneSticks, UNCHANGED <<hook, order_id, pc, matched, engine, peer, waiting>>,
         NEW h \in Hooks, shared[h] = Unset, shared'[h] \in {Broken, Pass, Drop},
         \A g \in Hooks \ {h} : shared'[g] = shared[g]
  PROVE  Judged' /\ PeerAgrees'
<1>1. IInv /\ Judged /\ PeerAgrees
  BY DEF DInv
<1>2. ASSUME NEW s \in Stocks
      PROVE  Decided(s)' = Decided(s)
  <2>1. \A g \in Hooks : shared[g] = Broken => shared'[g] = Broken
    BY DEF Unset, Broken
  <2>2. CASE pc[s] = "wait" \/ \E g \in On(s, order_id[s]) : shared[g] = Broken
    BY <2>1, <2>2 DEF Decided, On
  <2>3. CASE pc[s] # "wait" /\ \A g \in On(s, order_id[s]) : shared[g] # Broken
    <3>1. Decided(s) = order_id[s]
      BY <2>3 DEF Decided, On
    <3>2. h \notin On(s, order_id[s])
      <4> SUFFICES ASSUME h \in On(s, order_id[s]) PROVE FALSE
        OBVIOUS
      <4>1. order_id[s] # 0
        BY OneHook DEF On
      <4>2. order_id[s] \in 1..Decided(s)
        BY <1>1, <3>1, <4>1, TakenType
      <4> QED BY <1>1, <4>2 DEF Judged, JudgedUpTo, Unset, Pass, Drop
    <3>3. \A g \in On(s, order_id[s]) : shared'[g] # Broken
      BY <2>3, <3>2 DEF On
    <3> QED BY <2>3, <3>1, <3>3 DEF Decided, On
  <2> QED BY <2>2, <2>3
<1>3. ASSUME NEW s \in Stocks
      PROVE  JudgedUpTo(s, Decided(s))'
  <2>1. \A k \in 1..Decided(s) : \A g \in On(s, k) : shared'[g] = shared[g]
    BY <1>1 DEF Judged, JudgedUpTo, On, Unset, Pass, Drop
  <2> QED BY <1>1, <1>2, <2>1 DEF Judged, JudgedUpTo, On
<1>4. Judged'
  BY <1>1, <1>2, <1>3 DEF Judged
<1>5. PeerAgrees'
  BY <1>1, <1>2 DEF PeerAgrees
<1> QED BY <1>4, <1>5

-----------------------------------------------------------------------------
(* Steps that take or decide an order.                                     *)

\* An order is taken: what is decided of the other stocks stays.
LEMMA OthersKept ==
  ASSUME DInv, NoneSticks, NEW s \in Stocks, NEW r \in Stocks \ {s},
         UNCHANGED <<hook, shared, engine, peer>>,
         order_id'[r] = order_id[r], pc'[r] = pc[r], matched'[r] = matched[r],
         waiting'[r] = waiting[r]
  PROVE  /\ Decided(r)' = Decided(r)
         /\ JudgedUpTo(r, Decided(r))'
         /\ matched'[r] \subseteq 1..Decided(r)'
         /\ pc'[r] \in Running => Decided(r)' = order_id'[r]
         /\ pc'[r] = "wait" => order_id'[r] > 0 /\ waiting'[r] # {}
         /\ \A n \in 1..Decided(r)' :
              n <= peer.taken[r] => (n \in matched'[r] <=> n \in peer.matched[r])
<1>1. Decided(r)' = Decided(r)
  BY DEF Decided
<1>2. JudgedUpTo(r, Decided(r))'
  BY <1>1 DEF DInv, Judged, JudgedUpTo, On
<1> QED BY <1>1, <1>2 DEF DInv, Judged, PeerAgrees

\* The order n of s becomes decided, as the hooks on it say.
LEMMA DecideKeeps ==
  ASSUME DInv, NoneSticks, NEW s \in Stocks, NEW n \in Nat,
         UNCHANGED <<hook, shared, engine, peer>>,
         n = Decided(s) + 1, n > 0,
         order_id' = [order_id EXCEPT ![s] = n],
         \A h \in On(s, n) : shared[h] \in {Pass, Drop},
         matched' = [matched EXCEPT ![s] =
                       IF \A h \in On(s, n) : shared[h] = Pass THEN @ \cup {n} ELSE @],
         waiting' = [waiting EXCEPT ![s] = {}],
         NEW label \in Running, Goto(s, label)
  PROVE  Judged' /\ PeerAgrees'
<1>1. TypeOK /\ IInv /\ DayFixed /\ Judged /\ PeerAgrees
  BY DEF DInv, IInv
<1>2. /\ pc' = [pc EXCEPT ![s] = label] /\ order_id'[s] = n /\ pc'[s] = label
      /\ matched'[s] = IF \A h \in On(s, n) : shared[h] = Pass
                       THEN matched[s] \cup {n} ELSE matched[s]
  BY <1>1 DEF Goto, TypeOK
<1>3. \A r \in Stocks \ {s} :
        /\ order_id'[r] = order_id[r] /\ pc'[r] = pc[r] /\ matched'[r] = matched[r]
        /\ waiting'[r] = waiting[r]
  BY <1>1, <1>2 DEF TypeOK
<1>4. Decided(s)' = n
  BY <1>2 DEF Decided, On, Running, Pass, Drop, Broken
<1>5. n \notin matched[s] /\ matched[s] \subseteq 1..(n - 1) /\ Decided(s) = n - 1
  BY <1>1, DecidedCases, TakenType DEF Judged
<1>6. JudgedUpTo(s, Decided(s))'
  <2>1. JudgedUpTo(s, n - 1)
    BY <1>1, <1>5 DEF Judged
  <2> SUFFICES ASSUME NEW k \in 1..n
               PROVE  /\ \A h \in On(s, k) : shared[h] \in {Pass, Drop}
                      /\ k \in matched'[s] <=> \A h \in On(s, k) : shared[h] = Pass
    BY <1>4 DEF JudgedUpTo, On
  <2>2. CASE k = n
    BY <1>2, <1>5, <2>2
  <2>3. CASE k # n
    <3>1. k \in 1..(n - 1) /\ (k \in matched'[s] <=> k \in matched[s])
      BY <1>2, <2>3
    <3> QED BY <2>1, <3>1 DEF JudgedUpTo
  <2> QED BY <2>2, <2>3
<1>7. Judged'
  <2>1. matched'[s] \subseteq 1..n
    BY <1>2, <1>5
  <2>2. \A r \in Stocks \ {s} :
          /\ JudgedUpTo(r, Decided(r))'
          /\ matched'[r] \subseteq 1..Decided(r)'
          /\ pc'[r] \in Running => Decided(r)' = order_id'[r]
          /\ pc'[r] = "wait" => order_id'[r] > 0 /\ waiting'[r] # {}
    BY <1>3, OthersKept
  <2>3. pc'[s] # "wait"
    BY <1>2 DEF Running
  <2> QED BY <1>2, <1>4, <1>6, <2>1, <2>2, <2>3 DEF Judged
<1>8. n <= peer.taken[s] => (n \in matched'[s] <=> n \in peer.matched[s])
  <2> SUFFICES ASSUME n <= peer.taken[s]
               PROVE  n \in matched'[s] <=> n \in peer.matched[s]
    OBVIOUS
  <2>0. n \in 1..peer.taken[s]
    BY <1>1, EarnedType
  <2>1. CASE On(s, n) = {}
    <3>1. n \in peer.matched[s]
      BY <1>1, <2>0, <2>1 DEF DayFixed, IsDay, On
    <3> QED BY <1>2, <2>1, <3>1
  <2>2. CASE On(s, n) # {}
    <3>1. PICK h \in On(s, n) : TRUE
      BY <2>2
    <3>2. On(s, n) = {h}
      BY <3>1, OneHook DEF On
    <3>3. shared[h] = Pass <=> n \in peer.matched[s]
      BY <2>0, <3>1, HookDecides DEF On
    <3> QED BY <1>2, <1>5, <3>2, <3>3
  <2> QED BY <2>1, <2>2
<1>9. PeerAgrees'
  <2>1. \A r \in Stocks \ {s} : \A k \in 1..Decided(r)' :
          k <= peer.taken[r] => (k \in matched'[r] <=> k \in peer.matched[r])
    BY <1>3, OthersKept
  <2>2. ASSUME NEW k \in 1..n, k <= peer.taken[s]
        PROVE  k \in matched'[s] <=> k \in peer.matched[s]
    <3>1. CASE k = n
      BY <1>8, <2>2, <3>1
    <3>2. CASE k # n
      <4>1. k \in 1..Decided(s) /\ (k \in matched'[s] <=> k \in matched[s])
        BY <1>2, <1>5, <3>2
      <4> QED BY <1>1, <2>2, <4>1 DEF PeerAgrees
    <3> QED BY <3>1, <3>2
  <2> QED BY <1>4, <2>1, <2>2 DEF PeerAgrees
<1> QED BY <1>7, <1>9

\* Taking an order without hooks keeps the decisions a day's and the peer's.
LEMMA NextOrderKeeps ==
  ASSUME DInv, NoneSticks, NEW s \in Stocks, NextOrder(s), UNCHANGED <<engine, peer>>
  PROVE  Judged' /\ PeerAgrees'
<1> DEFINE n == order_id[s] + 1
<1>1. TypeOK /\ IInv /\ pc[s] = "next" /\ order_id[s] \in 0..NumOrders /\ NumOrders \in Nat
  BY TakenType DEF DInv, IInv, NextOrder
<1>2. n \in Nat /\ n > 0 /\ Decided(s) = order_id[s]
  BY <1>1 DEF DInv, Judged, Running
<1>3. On(s, n) = {}
  BY <1>1, NoneHooked DEF NextOrder, NoneSticks, On
<1>4. waiting[s] = {}
  BY <1>1 DEF IInv, WaitsRight
<1>5. /\ order_id' = [order_id EXCEPT ![s] = n]
      /\ matched' = [matched EXCEPT ![s] = @ \cup {n}]
      /\ waiting' = [waiting EXCEPT ![s] = {}]
      /\ Goto(s, "match") /\ UNCHANGED <<hook, shared>>
  BY <1>1, <1>4 DEF NextOrder, Take, TypeOK
<1>6. matched' = [matched EXCEPT ![s] =
                    IF \A h \in On(s, n) : shared[h] = Pass THEN @ \cup {n} ELSE @]
  BY <1>3, <1>5
<1>7. n = Decided(s) + 1 /\ "match" \in Running /\ \A h \in On(s, n) : shared[h] \in {Pass, Drop}
  BY <1>2, <1>3 DEF Running
<1> HIDE DEF n
<1> QED BY <1>2, <1>5, <1>6, <1>7, DecideKeeps

\* A wait that returns keeps the decisions a day's and the peer's.
LEMMA GetReturnsKeeps ==
  ASSUME DInv, NoneSticks, NEW s \in Stocks, GetReturns(s), UNCHANGED <<engine, peer>>
  PROVE  Judged' /\ PeerAgrees'
<1> DEFINE n == order_id[s]
<1>1. TypeOK /\ IInv /\ pc[s] = "wait" /\ n \in 0..NumOrders /\ NumOrders \in Nat
  BY TakenType DEF DInv, IInv, GetReturns
<1>2. n \in Nat /\ n > 0 /\ Decided(s) = n - 1
  BY <1>1 DEF DInv, Judged, Decided
<1>3. PICK h \in waiting[s] :
        /\ shared[h] \in {Pass, Drop}
        /\ IF shared[h] = Pass
           THEN /\ matched' = [matched EXCEPT ![s] = @ \cup {n}]
                /\ Goto(s, "match")
           ELSE /\ UNCHANGED matched
                /\ Goto(s, "next")
  BY DEF GetReturns
<1>4. h \in Hooks /\ h \in On(s, n)
  BY <1>1 DEF IInv, WaitsRight, TypeOK, On
<1>5. On(s, n) = {h}
  BY <1>4, OneHook DEF On
<1>6. order_id' = [order_id EXCEPT ![s] = n]
  BY <1>1 DEF GetReturns, TypeOK
<1>7. matched' = [matched EXCEPT ![s] =
                    IF \A g \in On(s, n) : shared[g] = Pass THEN @ \cup {n} ELSE @]
  BY <1>1, <1>3, <1>5 DEF TypeOK
<1>8. PICK label \in Running : Goto(s, label)
  BY <1>3 DEF Running
<1>9. waiting' = [waiting EXCEPT ![s] = {}] /\ UNCHANGED <<hook, shared>>
  BY DEF GetReturns
<1>10. n = Decided(s) + 1 /\ \A g \in On(s, n) : shared[g] \in {Pass, Drop}
  BY <1>2, <1>3, <1>5
<1> HIDE DEF n
<1> QED BY <1>2, <1>6, <1>7, <1>8, <1>9, <1>10, DecideKeeps

\* The order at hand stays undecided.
LEMMA UndecidedKeeps ==
  ASSUME DInv, NoneSticks, NEW s \in Stocks, UNCHANGED <<hook, shared, engine, peer, matched>>,
         Decided(s)' = Decided(s), pc'[s] \notin Running,
         pc'[s] = "wait" => order_id'[s] > 0 /\ waiting'[s] # {},
         \A r \in Stocks \ {s} : /\ order_id'[r] = order_id[r] /\ pc'[r] = pc[r]
                                 /\ waiting'[r] = waiting[r]
  PROVE  Judged' /\ PeerAgrees'
<1>1. \A r \in Stocks \ {s} :
        /\ JudgedUpTo(r, Decided(r))'
        /\ matched'[r] \subseteq 1..Decided(r)'
        /\ pc'[r] \in Running => Decided(r)' = order_id'[r]
        /\ pc'[r] = "wait" => order_id'[r] > 0 /\ waiting'[r] # {}
        /\ \A n \in 1..Decided(r)' :
             n <= peer.taken[r] => (n \in matched'[r] <=> n \in peer.matched[r])
  BY OthersKept
<1>2. JudgedUpTo(s, Decided(s))' /\ matched'[s] \subseteq 1..Decided(s)'
  BY DEF DInv, Judged, JudgedUpTo, On
<1>3. Judged'
  BY <1>1, <1>2 DEF Judged
<1>4. PeerAgrees'
  BY <1>1 DEF DInv, PeerAgrees
<1> QED BY <1>3, <1>4

\* Taking an order with hooks decides nothing yet.
LEMMA NextHookedKeeps ==
  ASSUME DInv, NoneSticks, NEW s \in Stocks, NextHooked(s), UNCHANGED <<engine, peer>>
  PROVE  Judged' /\ PeerAgrees'
<1>1. TypeOK /\ IInv /\ pc[s] = "next" /\ order_id[s] \in 0..NumOrders /\ NumOrders \in Nat
  BY TakenType DEF DInv, IInv, NextHooked
<1>2. /\ order_id'[s] = order_id[s] + 1 /\ pc'[s] = "wait" /\ waiting'[s] # {}
      /\ \A r \in Stocks \ {s} : /\ order_id'[r] = order_id[r] /\ pc'[r] = pc[r]
                                 /\ waiting'[r] = waiting[r]
      /\ UNCHANGED <<hook, shared, matched>>
  BY <1>1 DEF NextHooked, Take, Goto, TypeOK
<1>3. Decided(s) = order_id[s]
  BY <1>1 DEF DInv, Judged, Running
<1>4. Decided(s)' = Decided(s)
  BY <1>1, <1>2, <1>3 DEF Decided
<1>5. pc'[s] \notin Running /\ order_id'[s] > 0
  BY <1>1, <1>2 DEF Running
<1> QED BY <1>2, <1>4, <1>5, UndecidedKeeps

\* A broken promise keeps the decisions a day's and the peer's.
LEMMA GetThrowsKeeps ==
  ASSUME DInv, NoneSticks, NEW s \in Stocks, GetThrows(s), UNCHANGED <<engine, peer>>
  PROVE  Judged' /\ PeerAgrees'
<1>1. TypeOK /\ IInv /\ pc[s] = "wait"
  BY DEF DInv, IInv, GetThrows
<1>2. PICK h \in waiting[s] : shared[h] = Broken
  BY DEF GetThrows
<1>3. h \in On(s, order_id[s])
  BY <1>1 DEF IInv, WaitsRight, TypeOK, On
<1>4. /\ pc'[s] = "exit" /\ order_id'[s] = order_id[s]
      /\ \A r \in Stocks \ {s} : /\ order_id'[r] = order_id[r] /\ pc'[r] = pc[r]
                                 /\ waiting'[r] = waiting[r]
      /\ UNCHANGED <<hook, shared, matched>>
  BY <1>1 DEF GetThrows, Goto, TypeOK
<1>5. Decided(s)' = Decided(s)
  BY <1>1, <1>2, <1>3, <1>4 DEF Decided, On
<1> QED BY <1>4, <1>5, UndecidedKeeps DEF Running

-----------------------------------------------------------------------------
(* The trades.                                                             *)

\* A step that matches nothing keeps what is traded a beginning of what is earned.
LEMMA EarnedKept ==
  ASSUME DInv, NEW s \in Stocks, UNCHANGED <<trades, matched, engine>>,
         pc'[s] \notin {"match", "notify"} => trades[s] = Earned(s)
  PROVE  Begins(trades'[s], Earned(s)') /\ (pc'[s] \notin {"match", "notify"} => trades'[s] = Earned(s)')
BY DEF DInv, TradesEarned, Earned

\* An order that is matched makes the trades earned more, at the end.
LEMMA MatchEarns ==
  ASSUME DInv, NEW s \in Stocks, UNCHANGED <<trades, engine>>,
         pc[s] \notin {"match", "notify"}, pc'[s] = "match",
         NEW n \in Orders, matched[s] \subseteq 1..n,
         matched' = [matched EXCEPT ![s] = @ \cup {n}]
  PROVE  Begins(trades'[s], Earned(s)')
<1>1. matched[s] \in SUBSET Orders /\ engine[s] \in Engines /\ NumOrders \in Nat
  BY EarnedType, TakenType DEF DInv
<1>2. matched'[s] = matched[s] \cup {n}
  BY DEF DInv, IInv, TypeOK
<1>3. trades[s] = Earned(s)
  BY DEF DInv, TradesEarned
<1>4. CASE n \in matched[s]
  <2>1. Earned(s)' = Earned(s)
    BY <1>2, <1>4 DEF Earned
  <2> QED BY <2>1 DEF DInv, TradesEarned
<1>5. CASE n \notin matched[s]
  <2>1. matched[s] = matched'[s] \cap (1..(n - 1)) /\ n - 1 \in 0..NumOrders
    BY <1>1, <1>2, <1>5 DEF Orders
  <2>2. matched'[s] \in SUBSET Orders
    BY <1>1, <1>2
  <2>3. Begins(engine[s][matched[s]], engine[s][matched'[s]])
    BY <1>1, <2>1, <2>2, EarnsOn
  <2> QED BY <1>3, <2>3 DEF Earned
<1> QED BY <1>4, <1>5

\* Recording the next trade earned keeps what is traded a beginning of it.
LEMMA FollowEarns ==
  ASSUME DInv, NEW s \in Stocks, Follows(s), UNCHANGED <<matched, engine>>
  PROVE  /\ Begins(trades'[s], Earned(s)')
         /\ trades'[s] = trades[s] => trades[s] = Earned(s)
<1>1. /\ Earned(s)' = Earned(s) /\ Begins(trades[s], Earned(s))
      /\ Earned(s) \in Seq(Volumes) /\ trades[s] \in Seq(Volumes)
      /\ trades'[s] = IF idx(s) < Len(Earned(s))
                      THEN Append(trades[s], Earned(s)[idx(s) + 1]) ELSE trades[s]
  BY EarnedType DEF DInv, IInv, TypeOK, TradesEarned, Earned, Follows
<1>2. CASE idx(s) < Len(Earned(s))
  <2>1. /\ Len(trades'[s]) = Len(trades[s]) + 1
        /\ trades'[s][Len(trades[s]) + 1] = Earned(s)[Len(trades[s]) + 1]
        /\ \A i \in 1..Len(trades[s]) : trades'[s][i] = trades[s][i]
    BY <1>1, <1>2 DEF idx
  <2> QED BY <1>1, <1>2, <2>1 DEF idx, Begins
<1>3. CASE ~(idx(s) < Len(Earned(s)))
  BY <1>1, <1>3 DEF idx, Begins
<1> QED BY <1>2, <1>3

\* Every step keeps what is traded a beginning of what is earned.
LEMMA EarnedInv ==
  ASSUME DInv, NEW s \in Stocks, DayStep(s), UNCHANGED <<engine, peer>>
  PROVE  TradesEarned'
<1>1. TypeOK /\ IInv
  BY DEF DInv, IInv
<1>2. ASSUME NEW r \in Stocks \ {s}
      PROVE  /\ Begins(trades'[r], Earned(r)')
             /\ pc'[r] \notin {"match", "notify"} => trades'[r] = Earned(r)'
  <2>1. pc'[r] = pc[r] /\ trades'[r] = trades[r] /\ matched'[r] = matched[r]
    <3>1. CASE Open(s) \/ NextOrder(s) \/ NextHooked(s) \/ GetThrows(s)
      BY <1>1, <3>1 DEF Open, NextOrder, NextHooked, GetThrows, Goto, TypeOK
    <3>2. CASE GetReturns(s)
      BY <1>1, <3>2 DEF GetReturns, Goto, TypeOK
    <3>3. CASE Commit(s) \/ Notify(s) \/ Notified(s) \/ OrderDone(s)
      BY <1>1, <3>3 DEF Commit, Notify, Notified, OrderDone, Goto, TypeOK
    <3>4. CASE StreamEnds(s) \/ BreakPromise(s) \/ Exit(s)
      BY <1>1, <3>4 DEF StreamEnds, BreakPromise, Exit, Goto, TypeOK
    <3> QED BY <3>1, <3>2, <3>3, <3>4 DEF DayStep, Step
  <2> QED BY <2>1 DEF DInv, TradesEarned, Earned
<1>3. /\ Begins(trades'[s], Earned(s)')
      /\ pc'[s] \notin {"match", "notify"} => trades'[s] = Earned(s)'
  <2>1. CASE NextOrder(s)
    <3>1. /\ pc[s] = "next" /\ pc'[s] = "match" /\ UNCHANGED trades
          /\ matched' = [matched EXCEPT ![s] = @ \cup {order_id[s] + 1}]
      BY <1>1, <2>1 DEF NextOrder, Goto, TypeOK
    <3>2. order_id[s] + 1 \in Orders /\ matched[s] \subseteq 1..(order_id[s] + 1)
      BY <1>1, <2>1, TakenType, EarnedType DEF NextOrder, MoreOrders, Orders, IInv, MatchedTaken, DInv
    <3> QED BY <3>1, <3>2, MatchEarns
  <2>2. CASE GetReturns(s)
    <3>1. PICK h \in waiting[s] :
            IF shared[h] = Pass
            THEN /\ matched' = [matched EXCEPT ![s] = @ \cup {order_id[s]}]
                 /\ Goto(s, "match")
            ELSE UNCHANGED matched /\ Goto(s, "next")
      BY <2>2 DEF GetReturns
    <3>2. pc[s] = "wait" /\ UNCHANGED trades
      BY <2>2 DEF GetReturns
    <3>3. CASE shared[h] = Pass
      <4>1. pc'[s] = "match" /\ matched' = [matched EXCEPT ![s] = @ \cup {order_id[s]}]
        BY <1>1, <3>1, <3>3 DEF Goto, TypeOK
      <4>2. order_id[s] \in Orders /\ matched[s] \subseteq 1..order_id[s]
        BY <1>1, TakenType, EarnedType DEF Orders, IInv, MatchedTaken, WaitsRight, DInv
      <4> QED BY <3>2, <4>1, <4>2, MatchEarns
    <3>4. CASE shared[h] # Pass
      BY <3>1, <3>2, <3>4, EarnedKept DEF DInv, TradesEarned
    <3> QED BY <3>3, <3>4
  <2>3. CASE Commit(s) \/ OrderDone(s)
    <3>1. pc[s] = "match" /\ Follows(s) /\ UNCHANGED matched
      BY <2>3 DEF Commit, OrderDone, DayStep
    <3>2. pc'[s] = "notify" \/ UNCHANGED trades
      BY <1>1, <2>3 DEF Commit, OrderDone, Goto, TypeOK
    <3> QED BY <3>1, <3>2, FollowEarns DEF Earned
  <2>4. CASE Open(s) \/ NextHooked(s) \/ GetThrows(s) \/ StreamEnds(s) \/ BreakPromise(s) \/ Exit(s)
    <3>1. pc[s] \notin {"match", "notify"} /\ UNCHANGED <<trades, matched>>
      BY <2>4 DEF Open, NextHooked, GetThrows, StreamEnds, BreakPromise, Exit
    <3> QED BY <3>1, EarnedKept DEF DInv, TradesEarned
  <2>5. CASE Notify(s) \/ Notified(s)
    <3>1. pc'[s] \in {"match", "notify"} /\ UNCHANGED <<trades, matched>>
      BY <1>1, <2>5 DEF Notify, Notified, Goto, TypeOK
    <3> QED BY <3>1, EarnedKept
  <2> QED BY <2>1, <2>2, <2>3, <2>4, <2>5 DEF DayStep, Step
<1> QED BY <1>2, <1>3 DEF TradesEarned

-----------------------------------------------------------------------------
(* The invariant.                                                          *)

\* The whole day starts in its invariant.
LEMMA DayInitInv == DayInit => DInv
<1> SUFFICES ASSUME DayInit PROVE DInv
  OBVIOUS
<1>1. IInv /\ DayFixed
  BY InitInv DEF DayInit, DayFixed
<1>2. /\ \A s \in Stocks : /\ pc[s] = "start" /\ order_id[s] = 0 /\ trades[s] = <<>>
                           /\ matched[s] = {} /\ waiting[s] = {}
      /\ \A h \in Hooks : shared[h] = Unset
  BY DEF DayInit, Init
<1>3. \A s \in Stocks : Decided(s) = 0
  BY <1>2 DEF Decided, Unset, Broken
<1>4. TradesEarned
  <2> SUFFICES ASSUME NEW s \in Stocks PROVE Earned(s) = <<>>
    BY <1>2 DEF TradesEarned, Begins
  <2>1. engine[s] \in Engines /\ {} \in SUBSET Orders /\ 0 \in 0..NumOrders /\ {} \subseteq 1..0
    BY <1>1, HookAssumption DEF DayFixed
  <2>2. Len(engine[s][{}]) <= 0
    BY <2>1, EngineAssumption
  <2>3. Earned(s) \in Seq(Volumes) /\ Earned(s) = engine[s][{}]
    BY <1>1, <1>2, EarnedType DEF Earned
  <2>4. Len(Earned(s)) = 0
    BY <2>2, <2>3
  <2> QED BY <2>3, <2>4
<1>5. Judged /\ PeerAgrees
  BY <1>2, <1>3 DEF Judged, PeerAgrees, JudgedUpTo
<1> QED BY <1>1, <1>4, <1>5 DEF DInv

\* Every step of a stock keeps the decisions a day's and the peer's.
LEMMA DayStepKeeps ==
  ASSUME DInv, NoneSticks, NEW s \in Stocks, DayStep(s), UNCHANGED <<engine, peer>>
  PROVE  Judged' /\ PeerAgrees'
<1>1. TypeOK /\ IInv
  BY DEF DInv, IInv
<1>2. CASE NextOrder(s) \/ NextHooked(s) \/ GetReturns(s) \/ GetThrows(s)
  BY <1>2, NextOrderKeeps, NextHookedKeeps, GetReturnsKeeps, GetThrowsKeeps
<1>3. CASE Open(s) \/ Commit(s) \/ Notified(s) \/ OrderDone(s) \/ StreamEnds(s) \/ Exit(s)
  <2>1. PICK label \in {"next", "notify", "match", "exit", "done"} :
          /\ Goto(s, label)
          /\ label \in Running => pc[s] \in Running
    BY <1>3 DEF Open, Commit, Notified, OrderDone, StreamEnds, Exit, Running
  <2>2. pc[s] # "wait" /\ pc' = [pc EXCEPT ![s] = label]
    BY <1>3, <2>1 DEF Open, Commit, Notified, OrderDone, StreamEnds, Exit, Goto
  <2>3. UNCHANGED <<hook, order_id, shared, matched, waiting>>
    BY <1>3 DEF Open, Commit, Notified, OrderDone, StreamEnds, Exit
  <2>4. \A r \in Stocks : /\ pc'[r] = "wait" <=> pc[r] = "wait"
                          /\ pc'[r] \in Running => pc[r] \in Running
    BY <1>1, <2>1, <2>2 DEF TypeOK
  <2> QED BY <2>3, <2>4, MoveKeeps
<1>4. CASE Notify(s) \/ BreakPromise(s)
  <2>1. PICK h \in promises[s], v \in {Broken, Pass, Drop} :
          shared' = [shared EXCEPT ![h] = v]
    BY <1>4 DEF Notify, BreakPromise, BackPromises, Resolved
  <2>2. h \in Hooks /\ shared[h] = Unset
    BY <1>1 DEF IInv, Owed, TypeOK
  <2>3. shared'[h] \in {Broken, Pass, Drop} /\ \A g \in Hooks \ {h} : shared'[g] = shared[g]
    BY <1>1, <2>1, <2>2 DEF TypeOK
  <2>4. UNCHANGED <<hook, order_id, pc, matched, waiting>>
    BY <1>4 DEF Notify, BreakPromise
  <2> QED BY <2>2, <2>3, <2>4, SettleKeeps
<1> QED BY <1>2, <1>3, <1>4 DEF DayStep, Step

\* No step changes the hooks.
LEMMA HookFixed == ASSUME NEW s \in Stocks, Step(s) PROVE UNCHANGED hook
<1>1. CASE Open(s) \/ NextOrder(s) \/ NextHooked(s) \/ GetReturns(s) \/ GetThrows(s)
  BY <1>1 DEF Open, NextOrder, NextHooked, GetReturns, GetThrows
<1>2. CASE Commit(s) \/ Notify(s) \/ Notified(s) \/ OrderDone(s)
  BY <1>2 DEF Commit, Notify, Notified, OrderDone
<1>3. CASE StreamEnds(s) \/ BreakPromise(s) \/ Exit(s)
  BY <1>3 DEF StreamEnds, BreakPromise, Exit
<1> QED BY <1>1, <1>2, <1>3 DEF Step

\* Every step of the day keeps its invariant.
LEMMA DayInductive == DInv /\ [DayNext]_dayVars => DInv'
<1> SUFFICES ASSUME DInv, [DayNext]_dayVars PROVE DInv'
  OBVIOUS
<1>1. UNCHANGED <<engine, peer>> /\ [Next]_vars
  BY DEF DayNext, dayVars, DayStep, Next
<1>2. IInv' /\ UNCHANGED hook
  BY <1>1, Inductive, HookFixed DEF DInv, Next, Joined, vars
<1>3. DayFixed'
  BY <1>1, <1>2 DEF DInv, DayFixed, IsDay
<1>4. (NoneSticks <=> NoneSticks')
  BY <1>2 DEF NoneSticks, CheckerSticks
<1>5. ASSUME NEW s \in Stocks, DayStep(s)
      PROVE  TradesEarned' /\ (NoneSticks => Judged' /\ PeerAgrees')
  BY <1>1, <1>5, EarnedInv, DayStepKeeps
<1>6. CASE UNCHANGED vars
  <2>1. TradesEarned'
    BY <1>1, <1>6 DEF vars, DInv, TradesEarned, Earned
  <2>2. NoneSticks => Judged' /\ PeerAgrees'
    BY <1>1, <1>6, MoveKeeps DEF vars
  <2> QED BY <1>2, <1>3, <1>4, <2>1, <2>2 DEF DInv
<1> QED BY <1>2, <1>3, <1>4, <1>5, <1>6 DEF DInv, DayNext, dayVars, Joined

\* The inductive invariant of the day holds in every state.
THEOREM DayInvariant == DaySpec => []DInv
BY DayInitInv, DayInductive, PTL DEF DaySpec

-----------------------------------------------------------------------------
(* The theorems.                                                           *)

\* The decisions of a trader are always those of a day: each is what the
\* trades made by the orders it decided say.
THEOREM DecidedByTrades == DaySpec => []OwnDay
<1>1. DInv => OwnDay
  <2> SUFFICES ASSUME DInv, NoneSticks, NEW s \in Stocks
               PROVE  /\ matched[s] \subseteq 1..Decided(s)
                      /\ \A n \in 1..Decided(s) :
                           /\ \A h \in On(s, n) :
                                hook[h].trade_id \in DOMAIN Earned(hook[h].target)
                           /\ n \in matched[s] <=>
                                \A h \in On(s, n) :
                                  Earned(hook[h].target)[hook[h].trade_id] <= hook[h].threshold
    BY TableType DEF OwnDay, IsDay, On, Earned, DInv, IInv
  <2>1. Judged
    BY DEF DInv
  <2>2. ASSUME NEW n \in 1..Decided(s), NEW h \in On(s, n)
        PROVE  /\ hook[h].trade_id \in DOMAIN Earned(hook[h].target)
               /\ shared[h] = Pass <=>
                    Earned(hook[h].target)[hook[h].trade_id] <= hook[h].threshold
    <3>1. h \in Hooks /\ shared[h] \in {Pass, Drop}
      BY <2>1, <2>2 DEF Judged, JudgedUpTo, On
    <3>2. PICK t \in Stocks : t = hook[h].target
      BY <3>1, TableType DEF DInv, IInv
    <3>3. /\ hook[h].trade_id \in 1..Len(trades[t])
          /\ shared[h] = Pass <=> trades[t][hook[h].trade_id] <= hook[h].threshold
      BY <3>1, <3>2 DEF DInv, IInv, ValuesRight, idx
    <3>4. Begins(trades[t], Earned(t)) /\ Earned(t) \in Seq(Volumes) /\ trades[t] \in Seq(Volumes)
      BY EarnedType DEF DInv, TradesEarned
    <3> QED BY <3>2, <3>3, <3>4 DEF Begins
  <2> QED BY <2>1, <2>2 DEF Judged, JudgedUpTo
<1> QED BY <1>1, DayInvariant, PTL

\* Two traders that decided every order of a stock made the same trades.
LEMMA BothComplete ==
  ASSUME DInv, NoneSticks, NEW s \in Stocks, pc[s] \in {"exit", "done"},
         Decided(s) = NumOrders, peer.taken[s] = NumOrders
  PROVE  trades[s] = Theirs(s)
<1>1. trades[s] = Earned(s) /\ Judged /\ PeerAgrees /\ IsDay(peer)
  BY DEF DInv, TradesEarned, DayFixed
<1>2. matched[s] \subseteq 1..NumOrders /\ peer.matched[s] \subseteq 1..NumOrders
  BY <1>1 DEF Judged, IsDay
<1>3. \A n \in 1..NumOrders : n \in matched[s] <=> n \in peer.matched[s]
  BY <1>1, TakenType DEF PeerAgrees, DInv
<1>4. matched[s] = peer.matched[s]
  BY <1>2, <1>3
<1> QED BY <1>1, <1>4 DEF Earned, Theirs

\* Both traders write the same trades.
THEOREM SameTrades == DaySpec => []TradersAgree
<1>1. DInv => TradersAgree
  BY Comparable, BothComplete DEF TradersAgree, Theirs
<1> QED BY <1>1, DayInvariant, PTL

-----------------------------------------------------------------------------
(* No thread is left behind.                                               *)

\* As long as nothing failed to start, no hook of the day is broken.
Unbroken ==
  /\ \A s \in Stocks : pc[s] = "start" => order_id[s] = 0
  /\ NoneSticks /\ AllStarted =>
       /\ \A h \in Hooks : hook[h].self_order_id <= NumOrders => shared[h] # Broken
       /\ \A s \in Stocks : pc[s] \in {"exit", "done"} => order_id[s] = NumOrders

\* A stock that ended with no promise broken has the trades its peer has.
LEMMA EndedComplete ==
  ASSUME DInv, Unbroken, NoneSticks, AllStarted, NEW s \in Stocks, pc[s] \in {"exit", "done"}
  PROVE  trades[s] = Theirs(s)
<1>1. order_id[s] = NumOrders /\ NumOrders \in Nat
  BY HookAssumption DEF Unbroken
<1>2. Decided(s) = NumOrders
  BY <1>1 DEF Decided, Unbroken
<1> QED BY <1>2, BothComplete DEF AllStarted

\* Where nothing sticks and every stock starts, a step breaks no promise.
LEMMA UnbrokenInv ==
  ASSUME DInv, Unbroken, NEW s \in Stocks, DayStep(s), UNCHANGED <<engine, peer>>
  PROVE  Unbroken'
<1>1. TypeOK /\ IInv
  BY DEF DInv, IInv
<1>2. UNCHANGED hook
  BY HookFixed DEF DayStep
<1>3. (NoneSticks <=> NoneSticks') /\ (\A t \in Stocks : NotifierSticks(t) <=> NotifierSticks(t)')
  BY <1>2 DEF NoneSticks, CheckerSticks, NotifierSticks
<1>4. CASE Open(s)
  <2>1. UNCHANGED <<order_id, shared>> /\ pc[s] = "start" /\ order_id[s] = 0
    BY <1>4 DEF Open, Unbroken
  <2>2. PICK label \in {"next", "exit"} : pc' = [pc EXCEPT ![s] = label]
    BY <1>4 DEF Open, Goto
  <2>3. AllStarted' => AllStarted
    BY <1>1, <1>3, <2>1, <2>2 DEF AllStarted, TypeOK
  <2>4. AllStarted' => label = "next"
    BY <1>1, <2>1, <2>2 DEF AllStarted, TypeOK
  <2> QED BY <1>1, <1>2, <1>3, <2>1, <2>2, <2>3, <2>4 DEF Unbroken, TypeOK
<1>5. CASE NextOrder(s) \/ NextHooked(s)
  <2>1. UNCHANGED shared /\ \A r \in Stocks \ {s} : order_id'[r] = order_id[r]
    BY <1>1, <1>5 DEF NextOrder, NextHooked, Take, TypeOK
  <2>2. PICK label \in {"match", "wait"} : pc' = [pc EXCEPT ![s] = label]
    BY <1>5 DEF NextOrder, NextHooked, Goto
  <2>3. pc[s] = "next"
    BY <1>5 DEF NextOrder, NextHooked
  <2>4. AllStarted' => AllStarted
    BY <1>1, <1>3, <2>1, <2>2, <2>3 DEF AllStarted, TypeOK
  <2> QED BY <1>1, <1>2, <1>3, <2>1, <2>2, <2>3, <2>4 DEF Unbroken, TypeOK
<1>6. CASE GetReturns(s) \/ Commit(s) \/ Notified(s) \/ OrderDone(s) \/ Exit(s)
  <2>1. UNCHANGED <<order_id, shared>>
    BY <1>6 DEF GetReturns, Commit, Notified, OrderDone, Exit
  <2>2. PICK label \in {"match", "next", "notify", "done"} :
          /\ pc' = [pc EXCEPT ![s] = label]
          /\ IF label = "done" THEN pc[s] = "exit" ELSE pc[s] \in {"wait", "match", "notify"}
    BY <1>6 DEF GetReturns, Commit, Notified, OrderDone, Exit, Goto
  <2>3. \A r \in Stocks : /\ pc'[r] \in {"exit", "done"} <=> pc[r] \in {"exit", "done"}
                          /\ pc'[r] = "start" => pc[r] = "start"
    BY <1>1, <2>2 DEF TypeOK
  <2>4. AllStarted' => AllStarted
    BY <1>3, <2>1, <2>3 DEF AllStarted
  <2> QED BY <1>2, <1>3, <2>1, <2>3, <2>4 DEF Unbroken
<1>7. CASE Notify(s)
  <2>1. UNCHANGED <<order_id, pc>>
    BY <1>7 DEF Notify
  <2>2. PICK h \in promises[s], v \in {Pass, Drop} : shared' = [shared EXCEPT ![h] = v]
    BY <1>7 DEF Notify, BackPromises, Resolved
  <2>3. \A g \in Hooks : shared'[g] = Broken => shared[g] = Broken
    BY <1>1, <2>2 DEF TypeOK, Broken, Pass, Drop
  <2>4. AllStarted' => AllStarted
    BY <1>3, <2>1 DEF AllStarted
  <2> QED BY <1>2, <1>3, <2>1, <2>3, <2>4 DEF Unbroken
<1>8. CASE GetThrows(s)
  <2>1. UNCHANGED <<order_id, shared>> /\ pc[s] = "wait" /\ pc' = [pc EXCEPT ![s] = "exit"]
    BY <1>8 DEF GetThrows, Goto
  <2>2. PICK h \in waiting[s] : shared[h] = Broken
    BY <1>8 DEF GetThrows
  <2>3. h \in Hooks /\ hook[h].self_order_id <= NumOrders
    BY <1>1, TakenType DEF IInv, WaitsRight, TypeOK
  <2>4. AllStarted' => AllStarted
    BY <1>1, <1>3, <2>1 DEF AllStarted, TypeOK
  <2>5. ~(NoneSticks /\ AllStarted)
    BY <2>2, <2>3 DEF Unbroken
  <2> QED BY <1>1, <1>3, <2>1, <2>4, <2>5 DEF Unbroken, TypeOK
<1>9. CASE StreamEnds(s)
  <2>1. /\ UNCHANGED <<order_id, shared>> /\ pc[s] = "next" /\ pc' = [pc EXCEPT ![s] = "exit"]
        /\ ~(order_id[s] < NumOrders)
    BY <1>9 DEF StreamEnds, Goto, MoreOrders
  <2>2. order_id[s] = NumOrders
    BY <1>1, <2>1, TakenType
  <2>3. AllStarted' => AllStarted
    BY <1>1, <1>3, <2>1 DEF AllStarted, TypeOK
  <2> QED BY <1>1, <1>2, <1>3, <2>1, <2>2, <2>3 DEF Unbroken, TypeOK
<1>10. CASE BreakPromise(s)
  <2>1. UNCHANGED <<order_id, pc, trades>> /\ pc[s] = "exit"
    BY <1>10 DEF BreakPromise
  <2>2. PICK h \in promises[s] : shared' = [shared EXCEPT ![h] = Broken]
    BY <1>10 DEF BreakPromise
  <2>3. AllStarted' => AllStarted
    BY <1>3, <2>1 DEF AllStarted
  <2>4. h \in Hooks /\ hook[h].target = s
    BY <1>1 DEF IInv, Owed, TypeOK
  <2>5. NoneSticks /\ AllStarted => ~(hook[h].self_order_id <= NumOrders)
    <3> SUFFICES ASSUME NoneSticks, AllStarted, hook[h].self_order_id <= NumOrders
                 PROVE  FALSE
      OBVIOUS
    <3>1. hook[h].src \in Stocks /\ hook[h].self_order_id \in Nat /\ hook[h].self_order_id # 0
      BY <1>1, <2>4, TableType, OneHook
    <3>2. hook[h].self_order_id \in 1..peer.taken[hook[h].src]
      BY <3>1, HookAssumption DEF AllStarted
    <3>3. hook[h].trade_id \in DOMAIN Theirs(s)
      BY <2>4, <3>1, <3>2 DEF DInv, DayFixed, IsDay, Theirs
    <3>4. trades[s] = Theirs(s) /\ trades[s] \in Seq(Volumes)
      BY <2>1, EndedComplete, EarnedType DEF DInv
    <3>5. hook[h].trade_id > Len(trades[s])
      BY <1>1, <2>1 DEF AllStarted, IInv, Served, idx
    <3> QED BY <3>3, <3>4, <3>5
  <2>6. \A g \in Hooks \ {h} : shared'[g] = shared[g]
    BY <1>1, <2>2 DEF TypeOK
  <2> QED BY <1>2, <1>3, <2>1, <2>3, <2>5, <2>6 DEF Unbroken
<1> QED BY <1>4, <1>5, <1>6, <1>7, <1>8, <1>9, <1>10 DEF DayStep, Step

\* If the day can be gone through, no thread that starts returns before it has.
THEOREM DayGoesThrough == DaySpec => []NoneLeftBehind
<1>1. DayInit => Unbroken
  BY DEF DayInit, Init, Unbroken, Unset, Broken
<1>2. DInv /\ Unbroken /\ [DayNext]_dayVars => Unbroken'
  <2> SUFFICES ASSUME DInv, Unbroken, [DayNext]_dayVars PROVE Unbroken'
    OBVIOUS
  <2>1. ASSUME NEW s \in Stocks, DayStep(s), UNCHANGED <<engine, peer>> PROVE Unbroken'
    BY <2>1, UnbrokenInv
  <2>2. CASE UNCHANGED dayVars
    BY <2>2 DEF dayVars, vars, Unbroken, NoneSticks, AllStarted, CheckerSticks, NotifierSticks
  <2> QED BY <2>1, <2>2 DEF DayNext, dayVars, Joined
<1>3. DInv /\ Unbroken => NoneLeftBehind
  BY EndedComplete DEF NoneLeftBehind, Theirs
<1> QED BY <1>1, <1>2, <1>3, DayInvariant, PTL DEF DaySpec
=============================================================================
