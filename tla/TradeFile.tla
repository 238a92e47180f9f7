----------------------------- MODULE TradeFile ------------------------------
(***************************************************************************)
(* The file of one stock's trades (src/persister.cpp) through several runs *)
(* of the trader.  A Persister stretches the file to its full size, maps   *)
(* it, writes a record per trade, and its destructor cuts the file to the  *)
(* trades made.  Three things happen to it meanwhile: process_stock is     *)
(* left by an exception, the process ends under it, or the host goes down. *)
(*                                                                         *)
(* Record k of a day is the number k: a run of the same day makes the same *)
(* trades again (theorem SameTrades of TradingDayProofs).                  *)
(***************************************************************************)
EXTENDS Integers, Sequences

CONSTANTS
  MaxTrades,  \* max_trade_cnt
  NumTrades,  \* trades of the day
  Lives,      \* bound: runs of the process
  OldFiles    \* what may be in the file before the first run

Zero == 0        \* what ftruncate fills a file with
Foreign == -1    \* a record of another day

Records == {Zero, Foreign} \cup 1..MaxTrades

Files == {f \in Seq(Records) : Len(f) <= MaxTrades}

ASSUME FileAssumption ==
  /\ MaxTrades \in Nat
  /\ NumTrades \in 0..MaxTrades  \* one trade per order at most: SlotsLeft
  /\ Lives \in Nat               \* of MatchingProofs
  /\ OldFiles \subseteq {f \in Files : \A i \in DOMAIN f : f[i] = Foreign}

VARIABLES
  file,     \* what programs see of the file
  disk,     \* what is left of it if the power fails
  pc,       \* where the thread of the stock is; "off": no process
  mapped,   \* the Persister objects whose tp is not null
  now_cnt,
  spoilt,   \* a system call of ~Persister failed in this run
  torn,     \* a host that went down changed the file since it was last cut
  lives

vars == <<file, disk, pc, mapped, now_cnt, spoilt, torn, lives>>

-----------------------------------------------------------------------------

\* ftruncate
Resize(f, n) == [i \in 1..n |-> IF i \in DOMAIN f THEN f[i] ELSE Zero]

Go(from, to) == pc = from /\ pc' = to

\* process_stock has encoded its orders and constructs a Persister.
Start ==
  /\ lives < Lives
  /\ Go("off", "open")
  /\ lives' = lives + 1
  /\ now_cnt' = 0
  /\ spoilt' = FALSE
  /\ UNCHANGED <<file, disk, mapped, torn>>

\* open(): O_CREAT and no O_TRUNC, so an old file is kept.  Each of the three
\* calls may fail; the exception ends the thread.
OpenFile ==
  /\ Go("open", "stretch") \/ Go("open", "gone")
  /\ UNCHANGED <<file, disk, mapped, now_cnt, spoilt, torn, lives>>

FullSize == MaxTrades

Stretch ==
  /\ \/ Go("stretch", "map") /\ file' = Resize(file, FullSize)
     \/ Go("stretch", "gone") /\ UNCHANGED file
  /\ UNCHANGED <<disk, mapped, now_cnt, spoilt, torn, lives>>

MapFile ==
  /\ \/ Go("map", "move") /\ mapped' = {"argument"}
     \/ Go("map", "gone") /\ UNCHANGED mapped
  /\ UNCHANGED <<file, disk, now_cnt, spoilt, torn, lives>>

\* Mistake: tp is copied.
Copied == {"argument", "member"}

\* tp(std::exchange(another.tp, nullptr)): the Processor's member has it.
Moved == {"member"}

MoveObject ==
  /\ Go("move", "drop")
  /\ mapped' = Moved
  /\ UNCHANGED <<file, disk, now_cnt, spoilt, torn, lives>>

\* ~Persister of the constructor's argument: it returns at once if tp is null.
DropArgument ==
  /\ Go("drop", "trade")
  /\ file' = IF "argument" \in mapped THEN Resize(file, 0) ELSE file
  /\ mapped' = mapped \ {"argument"}
  /\ UNCHANGED <<disk, now_cnt, spoilt, torn, lives>>

\* now_cnt++, records counted from 1.
Slot == now_cnt + 1

Persist ==
  /\ pc = "trade"
  /\ now_cnt < NumTrades
  /\ file' = [file EXCEPT ![Slot] = now_cnt + 1]
  /\ now_cnt' = now_cnt + 1
  /\ UNCHANGED <<disk, pc, mapped, spoilt, torn, lives>>

\* process_stock is left, by its end or by an exception, at any trade;
\* ~Persister of the member: munmap.
Unmap ==
  /\ Go("trade", "cut")
  /\ mapped' = {}
  /\ UNCHANGED <<file, disk, now_cnt, spoilt, torn, lives>>

\* Mistake: one record more.
LongCut == now_cnt + 1

CutSize == now_cnt

\* The failures of the destructor are only logged.
Cut ==
  /\ Go("cut", "sync")
  /\ \/ file' = Resize(file, CutSize) /\ torn' = FALSE /\ UNCHANGED spoilt
     \/ spoilt' = TRUE /\ UNCHANGED <<file, torn>>
  /\ UNCHANGED <<disk, mapped, now_cnt, lives>>

\* Mistake: no fsync.
Unsynced == disk

Synced == file

Sync ==
  /\ Go("sync", "closed")
  /\ \/ disk' = Synced /\ UNCHANGED spoilt
     \/ spoilt' = TRUE /\ UNCHANGED disk
  /\ UNCHANGED <<file, mapped, now_cnt, torn, lives>>

\* The console is left by q or at the end of its input, main returns, and
\* the thread is gone wherever it was (or the process is killed).
ProcessEnds ==
  /\ pc # "off"
  /\ pc' = "off"
  /\ mapped' = {}
  /\ UNCHANGED <<file, disk, now_cnt, spoilt, torn, lives>>

\* The kernel writes the size or a record to the disk, whenever it likes.
WriteBack ==
  /\ \/ disk' = Resize(disk, Len(file))
     \/ \E i \in DOMAIN disk \cap DOMAIN file : disk' = [disk EXCEPT ![i] = file[i]]
  /\ UNCHANGED <<file, pc, mapped, now_cnt, spoilt, torn, lives>>

\* The host goes down: what is on the disk is left.
HostCrash ==
  /\ file' = disk
  /\ torn' = (torn \/ file # disk)
  /\ pc' = "off"
  /\ mapped' = {}
  /\ now_cnt' = 0
  /\ UNCHANGED <<disk, spoilt, lives>>

Init ==
  /\ file \in OldFiles
  /\ disk = file
  /\ pc = "off"
  /\ mapped = {}
  /\ now_cnt = 0
  /\ spoilt = FALSE
  /\ torn = FALSE
  /\ lives = 0

Next ==
  \/ Start \/ OpenFile \/ Stretch \/ MapFile \/ MoveObject \/ DropArgument
  \/ Persist \/ Unmap \/ Cut \/ Sync \/ ProcessEnds \/ WriteBack \/ HostCrash

Spec == Init /\ [][Next]_vars

-----------------------------------------------------------------------------
(* Properties.                                                             *)

\* The trades made in this run are in the file, in their places, whatever
\* earlier runs left there, also after the process ended in mid-day; and the
\* next one has a place: while trades are made the mapping is there and the
\* file covers it (persister.cpp:40, persister.h:32, config.cpp:98).
TradesStand ==
  /\ \A i \in 1..now_cnt : i \in DOMAIN file /\ file[i] = i
  /\ pc = "trade" => mapped = {"member"} /\ Len(file) = MaxTrades

\* A file that has not its full size holds trades of the day from the first
\* on, without a gap, a zero or a record of an earlier day: only a file of
\* full size is unfinished (persister.cpp:19, persister.cpp:53).
CutIsClean ==
  Len(file) < MaxTrades /\ ~torn =>
    \/ \A i \in DOMAIN file : file[i] = i
    \/ \A i \in DOMAIN file : file[i] = Foreign

\* A file that was closed without an error is on the disk as a whole, and
\* holds exactly the trades made, over whatever was there before.
ClosedIsDurable ==
  pc = "closed" /\ ~spoilt => /\ disk = file
                              /\ file = [i \in 1..now_cnt |-> i]
=============================================================================
