--------------------------- MODULE TradeFileProofs --------------------------
(***************************************************************************)
(* Proofs about TradeFile, for any size of the file, any number of trades  *)
(* and of runs and whatever an earlier day left: what the file holds while *)
(* trades are made, after it was cut, and on the disk.                     *)
(***************************************************************************)
EXTENDS TradeFile, SequenceTheorems, TLAPS

\* Types; pc is any of the places of the thread.
TypeOK ==
  /\ file \in Files /\ disk \in Files
  /\ pc \in {"off", "open", "stretch", "map", "move", "drop", "trade", "cut", "sync", "closed", "gone"}
  /\ now_cnt \in 0..NumTrades
  /\ spoilt \in BOOLEAN /\ torn \in BOOLEAN

\* Who has the mapping, and when the file has its full size.
MappingRight ==
  /\ pc = "move" => mapped = {"argument"}
  /\ pc \in {"drop", "trade"} => mapped = {"member"}
  /\ pc \in {"map", "move", "drop", "trade", "cut"} => Len(file) = MaxTrades

\* No trade is made before the member has the mapping.
NoneYet == pc \in {"open", "stretch", "map", "move", "drop"} => now_cnt = 0

\* The trades counted are in the file.
Recorded == \A i \in 1..now_cnt : i \in DOMAIN file /\ file[i] = i

\* Nothing has failed before the file is cut; if nothing has failed then, it
\* holds the trades made.
CutRight ==
  /\ pc \in {"open", "stretch", "map", "move", "drop", "trade", "cut"} => ~spoilt
  /\ pc \in {"sync", "closed"} /\ ~spoilt => file = [i \in 1..now_cnt |-> i]
  /\ pc = "closed" /\ ~spoilt => disk = file

\* The inductive invariant.
Inv == TypeOK /\ MappingRight /\ NoneYet /\ Recorded /\ CutIsClean /\ CutRight

USE FileAssumption

\* A file of n records is a sequence of that length.
LEMMA FileOf ==
  ASSUME NEW n \in 0..MaxTrades, NEW f \in [1..n -> Records]
  PROVE  f \in Files /\ Len(f) = n
<1>1. f \in Seq(Records)
      BY SeqDef
<1>2. Len(f) = n
      BY <1>1, LenProperties
<1> QED
    BY <1>1, <1>2 DEF Files

\* The other way round.
LEMMA FileIs ==
  ASSUME NEW f \in Files
  PROVE  /\ Len(f) \in 0..MaxTrades
         /\ DOMAIN f = 1..Len(f)
         /\ f \in [1..Len(f) -> Records]
BY LenProperties DEF Files

\* ftruncate makes a file of the size asked for that keeps what fits.
LEMMA Resized ==
  ASSUME NEW f \in Files, NEW n \in 0..MaxTrades
  PROVE  /\ Resize(f, n) \in Files
         /\ Len(Resize(f, n)) = n
         /\ DOMAIN Resize(f, n) = 1..n
         /\ \A i \in 1..n : i \in DOMAIN f => Resize(f, n)[i] = f[i]
         /\ n = Len(f) => Resize(f, n) = f
<1>1. Resize(f, n) \in [1..n -> Records]
      BY FileIs DEF Resize, Records
<1>2. Resize(f, n) \in Files /\ Len(Resize(f, n)) = n
      BY <1>1, FileOf
<1>3. n = Len(f) => Resize(f, n) = f
      BY FileIs DEF Resize
<1> QED
    BY <1>1, <1>2, <1>3 DEF Resize

\* An earlier day's file is no trade of today, and no run has begun.
LEMMA InitInv == Init => Inv
<1> SUFFICES ASSUME Init PROVE Inv
    OBVIOUS
<1>1. file \in Files /\ \A i \in DOMAIN file : file[i] = Foreign
      BY DEF Init
<1>2. TypeOK
  <2>1. spoilt \in BOOLEAN /\ torn \in BOOLEAN
        BY Zenon DEF Init
  <2> QED
      BY <1>1, <2>1 DEF Init, TypeOK
<1>3. MappingRight /\ NoneYet /\ CutRight
      BY DEF Init, MappingRight, NoneYet, CutRight
<1>4. Recorded
      BY DEF Init, Recorded
<1>5. CutIsClean
      BY <1>1 DEF CutIsClean
<1> QED
    BY <1>2, <1>3, <1>4, <1>5 DEF Inv

-----------------------------------------------------------------------------
(* One lemma per action.                                                   *)

\* A run begins with no trades; the file is as it was left.
LEMMA StartInv == Inv /\ Start => Inv'
<1> SUFFICES ASSUME Inv, Start PROVE Inv'
    OBVIOUS
<1> USE DEF Inv, Start, Go
<1>1. TypeOK'
  <2>1. spoilt' \in BOOLEAN
        BY Zenon
  <2> QED
      BY <2>1 DEF TypeOK
<1>2. MappingRight' /\ NoneYet' /\ CutRight'
      BY DEF MappingRight, NoneYet, CutRight
<1>3. Recorded'
      BY DEF Recorded
<1>4. CutIsClean'
      BY DEF CutIsClean
<1> QED
    BY <1>1, <1>2, <1>3, <1>4

\* open() changes nothing in the file.
LEMMA OpenInv == Inv /\ OpenFile => Inv'
<1> SUFFICES ASSUME Inv, OpenFile PROVE Inv'
    OBVIOUS
<1> USE DEF Inv, OpenFile, Go
<1>1. TypeOK'
      BY DEF TypeOK
<1>2. MappingRight' /\ NoneYet' /\ CutRight'
      BY DEF MappingRight, NoneYet, CutRight
<1>3. Recorded'
      BY DEF Recorded
<1>4. CutIsClean'
      BY DEF CutIsClean
<1> QED
    BY <1>1, <1>2, <1>3, <1>4

\* The file gets its full size; there are no trades yet to be lost.
LEMMA StretchInv == Inv /\ Stretch => Inv'
<1> SUFFICES ASSUME Inv, Stretch PROVE Inv'
    OBVIOUS
<1> USE DEF Inv, Stretch, Go
<1>1. CASE pc' = "map" /\ file' = Resize(file, FullSize)
  <2>1. file' \in Files /\ Len(file') = MaxTrades
        BY <1>1, Resized DEF TypeOK, FullSize
  <2>2. TypeOK'
        BY <1>1, <2>1 DEF TypeOK
  <2>3. MappingRight' /\ NoneYet' /\ CutRight'
        BY <1>1, <2>1 DEF MappingRight, NoneYet, CutRight
  <2>4. Recorded'
        BY DEF Recorded, NoneYet
  <2>5. CutIsClean'
        BY <2>1 DEF CutIsClean
  <2> QED
      BY <2>2, <2>3, <2>4, <2>5
<1>2. CASE pc' = "gone" /\ UNCHANGED file
  <2>1. TypeOK'
        BY <1>2 DEF TypeOK
  <2>2. MappingRight' /\ NoneYet' /\ CutRight'
        BY <1>2 DEF MappingRight, NoneYet, CutRight
  <2>3. Recorded' /\ CutIsClean'
        BY <1>2 DEF Recorded, CutIsClean
  <2> QED
      BY <2>1, <2>2, <2>3
<1> QED
    BY <1>1, <1>2

\* The argument gets the mapping; the file stays as it is.
LEMMA MapInv == Inv /\ MapFile => Inv'
<1> SUFFICES ASSUME Inv, MapFile PROVE Inv'
    OBVIOUS
<1> USE DEF Inv, MapFile, Go
<1>1. TypeOK'
      BY DEF TypeOK
<1>2. MappingRight' /\ NoneYet' /\ CutRight'
      BY DEF MappingRight, NoneYet, CutRight
<1>3. Recorded'
      BY DEF Recorded
<1>4. CutIsClean'
      BY DEF CutIsClean
<1> QED
    BY <1>1, <1>2, <1>3, <1>4

\* The mapping goes from the argument to the member.
LEMMA MoveInv == Inv /\ MoveObject => Inv'
<1> SUFFICES ASSUME Inv, MoveObject PROVE Inv'
    OBVIOUS
<1> USE DEF Inv, MoveObject, Moved, Go
<1>1. TypeOK'
      BY DEF TypeOK
<1>2. MappingRight' /\ NoneYet' /\ CutRight'
      BY DEF MappingRight, NoneYet, CutRight
<1>3. Recorded'
      BY DEF Recorded
<1>4. CutIsClean'
      BY DEF CutIsClean
<1> QED
    BY <1>1, <1>2, <1>3, <1>4

\* The destructor of the argument finds no mapping and leaves the file alone.
LEMMA DropInv == Inv /\ DropArgument => Inv'
<1> SUFFICES ASSUME Inv, DropArgument PROVE Inv'
    OBVIOUS
<1> USE DEF Inv, DropArgument, Go
<1>1. UNCHANGED file /\ mapped' = {"member"}
      BY DEF MappingRight
<1>2. TypeOK'
      BY <1>1 DEF TypeOK
<1>3. MappingRight' /\ NoneYet' /\ CutRight'
      BY <1>1 DEF MappingRight, NoneYet, CutRight
<1>4. Recorded'
      BY <1>1 DEF Recorded
<1>5. CutIsClean'
      BY <1>1 DEF CutIsClean
<1> QED
    BY <1>2, <1>3, <1>4, <1>5

\* A record goes behind those that are there, inside the file.
LEMMA PersistInv == Inv /\ Persist => Inv'
<1> SUFFICES ASSUME Inv, Persist PROVE Inv'
    OBVIOUS
<1> USE DEF Inv, Persist, Slot
<1>1. /\ file \in [1..MaxTrades -> Records] /\ DOMAIN file = 1..MaxTrades
      /\ now_cnt + 1 \in 1..MaxTrades /\ now_cnt + 1 \in 0..NumTrades
      BY FileIs DEF TypeOK, MappingRight
<1>2. file' \in [1..MaxTrades -> Records]
      BY <1>1 DEF Records
<1>3. file' \in Files /\ Len(file') = MaxTrades
  <2> HIDE DEF Inv, Persist
  <2> QED
      BY <1>2, FileOf
<1>4. TypeOK'
      BY <1>1, <1>3 DEF TypeOK
<1>5. MappingRight' /\ NoneYet' /\ CutRight'
      BY <1>3 DEF MappingRight, NoneYet, CutRight
<1>6. Recorded'
  <2> SUFFICES ASSUME NEW i \in 1..(now_cnt + 1) PROVE i \in DOMAIN file' /\ file'[i] = i
      BY DEF Recorded
  <2>1. CASE i = now_cnt + 1
        BY <1>1, <1>2, <2>1
  <2>2. CASE i \in 1..now_cnt
        BY <1>1, <2>2 DEF Recorded, TypeOK
  <2> QED
      BY <2>1, <2>2 DEF TypeOK
<1>7. CutIsClean'
      BY <1>3 DEF CutIsClean
<1> QED
    BY <1>4, <1>5, <1>6, <1>7

\* The mapping goes away; the records stay in the file.
LEMMA UnmapInv == Inv /\ Unmap => Inv'
<1> SUFFICES ASSUME Inv, Unmap PROVE Inv'
    OBVIOUS
<1> USE DEF Inv, Unmap, Go
<1>1. TypeOK'
      BY DEF TypeOK
<1>2. MappingRight' /\ NoneYet' /\ CutRight'
      BY DEF MappingRight, NoneYet, CutRight
<1>3. Recorded'
      BY DEF Recorded
<1>4. CutIsClean'
      BY DEF CutIsClean
<1> QED
    BY <1>1, <1>2, <1>3, <1>4

\* The file is cut to the trades made, which are all there; or the call fails
\* and the file keeps its size.
LEMMA CutInv == Inv /\ Cut => Inv'
<1> SUFFICES ASSUME Inv, Cut PROVE Inv'
    OBVIOUS
<1> USE DEF Inv, Cut, CutSize, Go
<1>1. CASE file' = Resize(file, now_cnt) /\ torn' = FALSE /\ UNCHANGED spoilt
  <2>1. now_cnt \in 0..MaxTrades
        BY DEF TypeOK
  <2>2. /\ file' \in Files /\ Len(file') = now_cnt /\ DOMAIN file' = 1..now_cnt
        /\ \A i \in 1..now_cnt : file'[i] = i
        BY <1>1, <2>1, Resized DEF TypeOK, Recorded
  <2>3. file' = [i \in 1..now_cnt |-> i]
        BY <2>1, <2>2, FileIs
  <2>4. TypeOK'
        BY <1>1, <2>2 DEF TypeOK
  <2>5. MappingRight' /\ NoneYet' /\ CutRight'
        BY <1>1, <2>3 DEF MappingRight, NoneYet, CutRight
  <2>6. Recorded' /\ CutIsClean'
        BY <2>2 DEF Recorded, CutIsClean
  <2> QED
      BY <2>4, <2>5, <2>6
<1>2. CASE spoilt' = TRUE /\ UNCHANGED <<file, torn>>
  <2>1. TypeOK'
        BY <1>2 DEF TypeOK
  <2>2. MappingRight' /\ NoneYet' /\ CutRight'
        BY <1>2 DEF MappingRight, NoneYet, CutRight
  <2>3. Recorded' /\ CutIsClean'
        BY <1>2 DEF Recorded, CutIsClean
  <2> QED
      BY <2>1, <2>2, <2>3
<1> QED
    BY <1>1, <1>2

\* fsync puts the file on the disk as it is, or fails.
LEMMA SyncInv == Inv /\ Sync => Inv'
<1> SUFFICES ASSUME Inv, Sync PROVE Inv'
    OBVIOUS
<1> USE DEF Inv, Sync, Synced, Go
<1>1. TypeOK'
      BY DEF TypeOK
<1>2. MappingRight' /\ NoneYet' /\ CutRight'
      BY DEF MappingRight, NoneYet, CutRight
<1>3. Recorded'
      BY DEF Recorded
<1>4. CutIsClean'
      BY DEF CutIsClean
<1> QED
    BY <1>1, <1>2, <1>3, <1>4

\* The file stays as it is when the process ends.
LEMMA EndsInv == Inv /\ ProcessEnds => Inv'
<1> SUFFICES ASSUME Inv, ProcessEnds PROVE Inv'
    OBVIOUS
<1> USE DEF Inv, ProcessEnds
<1>1. TypeOK'
      BY DEF TypeOK
<1>2. MappingRight' /\ NoneYet' /\ CutRight'
      BY DEF MappingRight, NoneYet, CutRight
<1>3. Recorded'
      BY DEF Recorded
<1>4. CutIsClean'
      BY DEF CutIsClean
<1> QED
    BY <1>1, <1>2, <1>3, <1>4

\* What is written to the disk is in the file: a disk that has it all stays.
LEMMA WriteBackInv == Inv /\ WriteBack => Inv'
<1> SUFFICES ASSUME Inv, WriteBack PROVE Inv'
    OBVIOUS
<1>1. /\ file \in Files /\ disk \in Files /\ UNCHANGED <<file, pc, mapped, now_cnt, spoilt, torn, lives>>
      BY DEF Inv, TypeOK, WriteBack
<1>2. disk' \in Files /\ (disk = file => disk' = file)
  <2>1. CASE disk' = Resize(disk, Len(file))
    <3>1. Len(file) \in 0..MaxTrades
          BY <1>1, FileIs
    <3> QED
        BY <1>1, <2>1, <3>1, Resized
  <2>2. CASE \E i \in DOMAIN disk \cap DOMAIN file : disk' = [disk EXCEPT ![i] = file[i]]
    <3>1. PICK i \in DOMAIN disk \cap DOMAIN file : disk' = [disk EXCEPT ![i] = file[i]]
          BY <2>2
    <3>2. PICK n \in 0..MaxTrades : disk \in [1..n -> Records]
          BY <1>1, FileIs
    <3>3. file[i] \in Records
          BY <1>1, <3>1, FileIs
    <3>4. disk' \in [1..n -> Records]
          BY <3>1, <3>2, <3>3
    <3>5. disk' \in Files
          BY <3>2, <3>4, FileOf
    <3>6. disk = file => disk' = disk
          BY <3>1, <3>2
    <3> QED
        BY <3>5, <3>6
  <2> QED
      BY <2>1, <2>2 DEF WriteBack
<1>3. TypeOK'
      BY <1>1, <1>2 DEF Inv, TypeOK
<1>4. MappingRight' /\ NoneYet' /\ Recorded' /\ CutIsClean'
      BY <1>1 DEF Inv, MappingRight, NoneYet, Recorded, CutIsClean
<1>5. CutRight'
      BY <1>1, <1>2 DEF Inv, CutRight
<1> QED
    BY <1>3, <1>4, <1>5 DEF Inv

\* What is left is what was on the disk; it is the same as before if that was
\* everything, and torn otherwise.
LEMMA CrashInv == Inv /\ HostCrash => Inv'
<1> SUFFICES ASSUME Inv, HostCrash PROVE Inv'
    OBVIOUS
<1> USE DEF Inv, HostCrash
<1>1. TypeOK'
      BY DEF TypeOK
<1>2. MappingRight' /\ NoneYet' /\ CutRight'
      BY DEF MappingRight, NoneYet, CutRight
<1>3. Recorded'
      BY DEF Recorded
<1>4. CutIsClean'
      BY DEF CutIsClean, TypeOK
<1> QED
    BY <1>1, <1>2, <1>3, <1>4

\* Nothing changes.
LEMMA StutterInv == Inv /\ UNCHANGED vars => Inv'
<1> SUFFICES ASSUME Inv, UNCHANGED vars PROVE Inv'
    OBVIOUS
<1> USE DEF Inv, vars
<1>1. TypeOK'
      BY DEF TypeOK
<1>2. MappingRight' /\ NoneYet' /\ CutRight'
      BY DEF MappingRight, NoneYet, CutRight
<1>3. Recorded' /\ CutIsClean'
      BY DEF Recorded, CutIsClean
<1> QED
    BY <1>1, <1>2, <1>3

\* In every state of every sequence of runs.
THEOREM Invariance == Spec => []Inv
<1>1. Inv /\ [Next]_vars => Inv'
      BY StartInv, OpenInv, StretchInv, MapInv, MoveInv, DropInv, PersistInv, UnmapInv,
         CutInv, SyncInv, EndsInv, WriteBackInv, CrashInv, StutterInv DEF Next
<1> QED
    BY InitInv, <1>1, PTL DEF Spec

-----------------------------------------------------------------------------
(* The theorems.                                                           *)

\* Whatever earlier runs and crashes left, the trades of this run are in the
\* file in their places, and the next one has a place (persister.cpp:38).
THEOREM TradesInPlace == Spec => []TradesStand
<1>1. Inv => TradesStand
      BY DEF Inv, MappingRight, Recorded, TradesStand
<1> QED
    BY Invariance, <1>1, PTL

\* A file below its full size holds trades of one day from the first on,
\* unless the host went down (persister.cpp:19, persister.cpp:53).
THEOREM ShortFilesClean == Spec => []CutIsClean
<1>1. Inv => CutIsClean
      BY DEF Inv
<1> QED
    BY Invariance, <1>1, PTL

\* A file closed without an error is on the disk and holds the trades made,
\* no more and no less (persister.cpp:49-64).
THEOREM ClosedFilesLast == Spec => []ClosedIsDurable
<1>1. Inv => ClosedIsDurable
      BY DEF Inv, CutRight, ClosedIsDurable
<1> QED
    BY Invariance, <1>1, PTL
=============================================================================
