------------------------ MODULE LibraryContent_proofs ------------------------
(***************************************************************************)
(* Proofs about LibraryContent, for every size of the library and any      *)
(* number of threads.                                                      *)
(***************************************************************************)
EXTENDS LibraryContent, TLAPS

InTable(p) == p \in 0 .. nowPlayingMax

(* What a thread knows by itself, whatever the others do.                  *)
LocalInv ==
    \A t \in Threads :
        /\ pc[t] = "test" => op[t] \in {"next", "prev"}
        /\ pc[t] \in {"load", "store"} => op[t] \in Moves
        /\ pc[t] = "assign" => InTable(val[t])
        /\ pc[t] \in {"drop", "blank"} => cursor # "open"

(* Where a command given alone takes the position p.                       *)
Target(o, p, v) ==
    /\ o = "next"   => v = IF p = nowPlayingMax THEN 0 ELSE p + 1
    /\ o = "prev"   => v = IF p = 0 THEN nowPlayingMax ELSE p - 1
    /\ o = "random" => InTable(v)

Alone == \A t, u \in Threads : pc[t] # "idle" /\ pc[u] # "idle" => t = u

SoloStep(t) ==
    /\ pc[t] = "load" /\ op[t] = "next" => nowPlayingPos < nowPlayingMax
    /\ pc[t] = "load" /\ op[t] = "prev" => nowPlayingPos > 0
    /\ pc[t] = "store" => Target(op[t], nowPlayingPos, val[t])
    /\ pc[t] = "read" /\ cursor = "open" => row = nowPlayingPos
    /\ pc[t] = "assign" /\ ~crashed => val[t] = nowPlayingPos

Loading(t) == pc[t] \in {"move", "read", "assign"}

FileInv == cursor = "open" /\ (\A t \in Threads : ~Loading(t))
             => nowPlayingFile = nowPlayingPos

(* As long as no two commands overlapped.                                  *)
SoloInv ==
    ~overlapped => /\ Alone
                   /\ InTable(nowPlayingPos)
                   /\ \A t \in Threads : SoloStep(t)
                   /\ FileInv

(* A position outside the table is about to be found out.                  *)
Discovers(t) == \/ pc[t] = "move"
                \/ pc[t] = "read" /\ (cursor = "open" => row = Clamped(nowPlayingPos))

RecoverInv ==
    ~crashed /\ ~InTable(nowPlayingPos) => \E t \in Threads : Discovers(t)

IInv == TypeOK /\ LocalInv /\ SoloInv /\ RecoverInv /\ CrashNeedsOverlapOrStop

-----------------------------------------------------------------------------
LEMMA MaxFacts == nowPlayingMax \in Nat /\ nowPlayingMax = Rows - 1
BY RowsAssumption DEF nowPlayingMax

LEMMA ClampedFacts ==
    ASSUME NEW p \in Int
    PROVE  /\ Clamped(p) \in Int
           /\ InTable(p) <=> InTable(Clamped(p))
           /\ InTable(p) => Clamped(p) = p
BY RowsAssumption DEF Clamped, InTable, nowPlayingMax

(* What Goto does to the program counters.                                 *)
LEMMA GotoFacts ==
    ASSUME TypeOK, NEW t \in Threads, NEW from, NEW to \in PC, Goto(t, from, to)
    PROVE  /\ pc' \in [Threads -> PC] /\ pc[t] = from /\ pc'[t] = to
           /\ \A u \in Threads : u # t => pc'[u] = pc[u]
BY DEF TypeOK, Goto

LEMMA InitIInv == Init => IInv
<1> SUFFICES ASSUME Init PROVE IInv
  OBVIOUS
<1>1. TypeOK
  <2>1. nowPlayingPos \in 0 .. nowPlayingMax /\ nowPlayingPos \in Int
    BY MaxFacts DEF Init
  <2>2. /\ pc \in [Threads -> PC] /\ op \in [Threads -> Operations \cup {"none"}]
        /\ val \in [Threads -> Int]
    BY DEF Init, PC
  <2>3. QED
    BY <2>1, <2>2 DEF Init, TypeOK
<1>2. LocalInv /\ RecoverInv /\ CrashNeedsOverlapOrStop
  BY DEF Init, LocalInv, RecoverInv, CrashNeedsOverlapOrStop, InTable
<1>3. SoloInv
  BY DEF Init, SoloInv, Alone, SoloStep, FileInv, InTable
<1>4. QED
  BY <1>1, <1>2, <1>3 DEF IInv

LEMMA CallIInv ==
    ASSUME IInv, ~crashed, NEW t \in Threads, NEW o \in Operations, Call(t, o)
    PROVE  IInv'
<1> DEFINE to == CASE o \in {"next", "prev"} -> "test"
                   [] o = "random"           -> "load"
                   [] o = "cleanup"          -> "close"
<1>1. /\ to \in {"test", "load", "close"}
      /\ to = "test" => o \in {"next", "prev"}
      /\ to = "load" => o = "random"
  BY DEF Operations, Moves
<1>2. /\ Goto(t, "idle", to)
      /\ op' = [op EXCEPT ![t] = o]
      /\ overlapped' = (overlapped \/ \E u \in Threads : pc[u] # "idle")
      /\ UNCHANGED <<nowPlayingPos, nowPlayingFile, cursor, row, val, crashed,
                     cmd>>
  BY DEF Call
<1> HIDE DEF to
<1>3. TypeOK
  BY DEF IInv
<1>4. /\ pc' \in [Threads -> PC] /\ pc[t] = "idle" /\ pc'[t] = to
      /\ \A u \in Threads : u # t => pc'[u] = pc[u]
  BY <1>1, <1>2, <1>3, GotoFacts DEF PC
<1>5. /\ op'[t] = o /\ op' \in [Threads -> Operations \cup {"none"}]
      /\ \A u \in Threads : u # t => op'[u] = op[u]
  BY <1>2, <1>3 DEF TypeOK
<1>6. TypeOK'
  BY <1>2, <1>3, <1>4, <1>5 DEF TypeOK
<1>7. LocalInv'
  BY <1>1, <1>2, <1>4, <1>5 DEF IInv, LocalInv, Moves
<1>8. SoloInv'
  <2> SUFFICES ASSUME ~overlapped'
               PROVE  Alone' /\ InTable(nowPlayingPos)'
                      /\ (\A u \in Threads : SoloStep(u)') /\ FileInv'
    BY DEF SoloInv
  <2>1. ~overlapped /\ \A u \in Threads : pc[u] = "idle"
    BY <1>2
  <2>2. InTable(nowPlayingPos)' /\ Alone'
    BY <1>2, <1>4, <2>1 DEF IInv, SoloInv, InTable, Alone
  <2>3. \A u \in Threads : SoloStep(u)'
    BY <1>1, <1>4, <1>5, <2>1 DEF SoloStep
  <2>4. FileInv'
    BY <1>2, <2>1 DEF IInv, SoloInv, FileInv, Loading
  <2>5. QED
    BY <2>2, <2>3, <2>4
<1>9. RecoverInv'
  BY <1>2, <1>4 DEF IInv, RecoverInv, Discovers, InTable
<1>10. CrashNeedsOverlapOrStop'
  BY <1>2 DEF CrashNeedsOverlapOrStop
<1>11. QED
  BY <1>6, <1>7, <1>8, <1>9, <1>10 DEF IInv

(* Test and Load choose the value to assign.                               *)
LEMMA TestIInv == ASSUME IInv, ~crashed, NEW t \in Threads, Test(t) PROVE IInv'
<1> DEFINE to == IF AtEnd(t) THEN "store" ELSE "load"
           v  == IF AtEnd(t) /\ op[t] = "prev" THEN nowPlayingMax ELSE 0
<1>1. /\ Goto(t, "test", to) /\ val' = [val EXCEPT ![t] = v]
      /\ UNCHANGED <<nowPlayingPos, nowPlayingFile, cursor, row, op, crashed,
                     overlapped, cmd>>
  BY DEF Test
<1>2. TypeOK /\ to \in {"store", "load"} /\ v \in Int /\ nowPlayingMax \in Nat
  BY MaxFacts DEF IInv
<1> HIDE DEF to, v
<1>3. /\ pc' \in [Threads -> PC] /\ pc[t] = "test" /\ pc'[t] = to
      /\ \A u \in Threads : u # t => pc'[u] = pc[u]
  BY <1>1, <1>2, GotoFacts DEF PC
<1>4. /\ val' \in [Threads -> Int] /\ val'[t] = v
      /\ \A u \in Threads : u # t => val'[u] = val[u]
  BY <1>1, <1>2 DEF TypeOK
<1>5. op[t] \in {"next", "prev"}
  BY <1>3 DEF IInv, LocalInv
<1>6. TypeOK'
  BY <1>1, <1>2, <1>3, <1>4 DEF TypeOK
<1>7. LocalInv'
  BY <1>1, <1>2, <1>3, <1>4, <1>5 DEF IInv, LocalInv, Moves, InTable
<1>8. SoloInv'
  <2> SUFFICES ASSUME ~overlapped'
               PROVE  Alone' /\ InTable(nowPlayingPos)'
                      /\ (\A u \in Threads : SoloStep(u)') /\ FileInv'
    BY DEF SoloInv
  <2>1. /\ Alone /\ InTable(nowPlayingPos) /\ FileInv
        /\ \A u \in Threads : SoloStep(u)
    BY <1>1 DEF IInv, SoloInv
  <2>2. Alone' /\ InTable(nowPlayingPos)'
    BY <1>1, <1>3, <2>1 DEF Alone, InTable
  <2>3. ASSUME NEW u \in Threads PROVE SoloStep(u)'
    <3>1. CASE u # t
      BY <1>1, <1>3, <1>4, <2>1, <3>1 DEF SoloStep, Target, InTable
    <3>2. CASE u = t
      BY <1>1, <1>2, <1>3, <1>4, <1>5, <2>1, <3>2
         DEF SoloStep, Target, InTable, AtEnd, to, v
    <3>3. QED
      BY <3>1, <3>2
  <2>4. FileInv'
    BY <1>1, <1>3, <2>1 DEF FileInv, Loading
  <2>5. QED
    BY <2>2, <2>3, <2>4
<1>9. RecoverInv'
  BY <1>1, <1>3 DEF IInv, RecoverInv, Discovers, InTable
<1>10. CrashNeedsOverlapOrStop'
  BY <1>1 DEF IInv, CrashNeedsOverlapOrStop
<1>11. QED
  BY <1>6, <1>7, <1>8, <1>9, <1>10 DEF IInv

LEMMA LoadIInv == ASSUME IInv, ~crashed, NEW t \in Threads, Load(t) PROVE IInv'
<1>1. /\ TypeOK /\ nowPlayingPos \in Int /\ nowPlayingMax \in Nat
      /\ op[t] \in Moves
  BY MaxFacts DEF IInv, TypeOK, LocalInv, Load, Goto
<1>2. PICK v \in CASE op[t] = "next"   -> {nowPlayingPos + 1}
                   [] op[t] = "prev"   -> {nowPlayingPos - 1}
                   [] op[t] = "random" -> 0 .. nowPlayingMax :
          val' = [val EXCEPT ![t] = v]
  BY DEF Load
<1>3. /\ v \in Int
      /\ op[t] = "next" => v = nowPlayingPos + 1
      /\ op[t] = "prev" => v = nowPlayingPos - 1
      /\ op[t] = "random" => v \in 0 .. nowPlayingMax
  BY <1>1, <1>2 DEF Moves
<1>4. /\ Goto(t, "load", "store")
      /\ UNCHANGED <<nowPlayingPos, nowPlayingFile, cursor, row, op, crashed,
                     overlapped, cmd>>
  BY DEF Load
<1>5. /\ pc' \in [Threads -> PC] /\ pc[t] = "load" /\ pc'[t] = "store"
      /\ \A u \in Threads : u # t => pc'[u] = pc[u]
  BY <1>1, <1>4, GotoFacts DEF PC
<1>6. /\ val' \in [Threads -> Int] /\ val'[t] = v
      /\ \A u \in Threads : u # t => val'[u] = val[u]
  BY <1>1, <1>2, <1>3 DEF TypeOK
<1>7. TypeOK'
  BY <1>1, <1>4, <1>5, <1>6 DEF TypeOK
<1>8. LocalInv'
  BY <1>1, <1>4, <1>5, <1>6 DEF IInv, LocalInv, InTable
<1>9. SoloInv'
  <2> SUFFICES ASSUME ~overlapped'
               PROVE  Alone' /\ InTable(nowPlayingPos)'
                      /\ (\A u \in Threads : SoloStep(u)') /\ FileInv'
    BY DEF SoloInv
  <2>1. /\ Alone /\ InTable(nowPlayingPos) /\ FileInv
        /\ \A u \in Threads : SoloStep(u)
    BY <1>4 DEF IInv, SoloInv
  <2>2. Alone' /\ InTable(nowPlayingPos)'
    BY <1>4, <1>5, <2>1 DEF Alone, InTable
  <2>3. ASSUME NEW u \in Threads PROVE SoloStep(u)'
    <3>1. CASE u # t
      BY <1>4, <1>5, <1>6, <2>1, <3>1 DEF SoloStep, Target, InTable
    <3>2. CASE u = t
      <4>1. /\ op[t] = "next" => nowPlayingPos < nowPlayingMax
            /\ op[t] = "prev" => nowPlayingPos > 0
        BY <1>5, <2>1 DEF SoloStep
      <4>2. Target(op[t], nowPlayingPos, v)
        BY <1>1, <1>3, <4>1 DEF Target, Moves, InTable
      <4>3. QED
        BY <1>4, <1>5, <1>6, <3>2, <4>2 DEF SoloStep, Target, InTable
    <3>3. QED
      BY <3>1, <3>2
  <2>4. FileInv'
    BY <1>4, <1>5, <2>1 DEF FileInv, Loading
  <2>5. QED
    BY <2>2, <2>3, <2>4
<1>10. RecoverInv'
  BY <1>4, <1>5 DEF IInv, RecoverInv, Discovers, InTable
<1>11. CrashNeedsOverlapOrStop'
  BY <1>4 DEF IInv, CrashNeedsOverlapOrStop
<1>12. QED
  BY <1>7, <1>8, <1>9, <1>10, <1>11 DEF IInv

LEMMA StoreIInv == ASSUME IInv, ~crashed, NEW t \in Threads, Store(t) PROVE IInv'
<1>1. /\ Goto(t, "store", "move") /\ nowPlayingPos' = val[t] /\ cmd' = op[t]
      /\ val' = [val EXCEPT ![t] = 0]
      /\ UNCHANGED <<nowPlayingFile, cursor, row, op, crashed, overlapped>>
  BY DEF Store
<1>2. TypeOK /\ val[t] \in Int /\ nowPlayingPos \in Int /\ nowPlayingMax \in Nat
  BY MaxFacts DEF IInv, TypeOK
<1>3. /\ pc' \in [Threads -> PC] /\ pc[t] = "store" /\ pc'[t] = "move"
      /\ \A u \in Threads : u # t => pc'[u] = pc[u]
  BY <1>1, <1>2, GotoFacts DEF PC
<1>4. /\ val' \in [Threads -> Int]
      /\ \A u \in Threads : u # t => val'[u] = val[u]
  BY <1>1, <1>2 DEF TypeOK
<1>5. op[t] \in Moves
  BY <1>3 DEF IInv, LocalInv
<1>6. TypeOK'
  BY <1>1, <1>2, <1>3, <1>4, <1>5 DEF TypeOK
<1>7. LocalInv'
  BY <1>1, <1>3, <1>4 DEF IInv, LocalInv, InTable
<1>8. SoloInv'
  <2> SUFFICES ASSUME ~overlapped'
               PROVE  Alone' /\ InTable(nowPlayingPos)'
                      /\ (\A u \in Threads : SoloStep(u)') /\ FileInv'
    BY DEF SoloInv
  <2>1. /\ Alone /\ InTable(nowPlayingPos)
        /\ Target(op[t], nowPlayingPos, val[t])
    BY <1>1, <1>3 DEF IInv, SoloInv, SoloStep
  <2>2. InTable(nowPlayingPos)'
    BY <1>1, <1>2, <1>5, <2>1 DEF Target, InTable, Moves
  <2>3. Alone' /\ \A u \in Threads : u # t => pc'[u] = "idle"
    BY <1>3, <2>1 DEF Alone
  <2>4. (\A u \in Threads : SoloStep(u)') /\ FileInv'
    BY <1>3, <2>3 DEF SoloStep, FileInv, Loading
  <2>5. QED
    BY <2>2, <2>3, <2>4
<1>9. RecoverInv'
  BY <1>3 DEF RecoverInv, Discovers
<1>10. CrashNeedsOverlapOrStop'
  BY <1>1 DEF IInv, CrashNeedsOverlapOrStop
<1>11. QED
  BY <1>6, <1>7, <1>8, <1>9, <1>10 DEF IInv

-----------------------------------------------------------------------------
(* Move, Read and Assign fetch the path.                                   *)
LEMMA MoveIInv == ASSUME IInv, ~crashed, NEW t \in Threads, Move(t) PROVE IInv'
<1>1. /\ Goto(t, "move", "read") /\ crashed' = (cursor # "open")
      /\ row' = IF cursor = "open" THEN Clamped(nowPlayingPos) ELSE row
      /\ UNCHANGED <<nowPlayingPos, nowPlayingFile, cursor, op, val, overlapped,
                     cmd>>
  BY DEF Move
<1>2. TypeOK /\ nowPlayingPos \in Int
  BY DEF IInv, TypeOK
<1>3. /\ pc' \in [Threads -> PC] /\ pc[t] = "move" /\ pc'[t] = "read"
      /\ \A u \in Threads : u # t => pc'[u] = pc[u]
  BY <1>1, <1>2, GotoFacts DEF PC
<1>4. TypeOK'
  BY <1>1, <1>2, <1>3, ClampedFacts DEF TypeOK
<1>5. LocalInv'
  BY <1>1, <1>3 DEF IInv, LocalInv, InTable
<1>6. SoloInv'
  <2> SUFFICES ASSUME ~overlapped'
               PROVE  Alone' /\ InTable(nowPlayingPos)'
                      /\ (\A u \in Threads : SoloStep(u)') /\ FileInv'
    BY DEF SoloInv
  <2>1. Alone /\ InTable(nowPlayingPos)
    BY <1>1 DEF IInv, SoloInv
  <2>2. InTable(nowPlayingPos)'
    BY <1>1, <2>1 DEF InTable
  <2>3. Alone' /\ \A u \in Threads : u # t => pc'[u] = "idle"
    BY <1>3, <2>1 DEF Alone
  <2>4. cursor' = "open" => row' = nowPlayingPos'
    BY <1>1, <1>2, <2>1, ClampedFacts
  <2>5. (\A u \in Threads : SoloStep(u)') /\ FileInv'
    BY <1>3, <2>3, <2>4 DEF SoloStep, FileInv, Loading
  <2>6. QED
    BY <2>2, <2>3, <2>5
<1>7. RecoverInv'
  <2>1. cursor' = "open" => row' = Clamped(nowPlayingPos)'
    BY <1>1 DEF Clamped
  <2>2. Discovers(t)'
    BY <1>3, <2>1 DEF Discovers
  <2>3. QED
    BY <2>2 DEF RecoverInv
<1>8. CrashNeedsOverlapOrStop'
  BY <1>1 DEF CrashNeedsOverlapOrStop
<1>9. QED
  BY <1>4, <1>5, <1>6, <1>7, <1>8 DEF IInv

LEMMA ReadIInv == ASSUME IInv, ~crashed, NEW t \in Threads, Read(t) PROVE IInv'
<1> DEFINE v == IF Readable THEN row ELSE 0
<1>1. /\ Goto(t, "read", "assign") /\ crashed' = ~Readable
      /\ val' = [val EXCEPT ![t] = v]
      /\ UNCHANGED <<nowPlayingPos, nowPlayingFile, cursor, row, op, overlapped,
                     cmd>>
  BY DEF Read
<1>2. TypeOK /\ nowPlayingPos \in Int /\ nowPlayingMax \in Nat
  BY MaxFacts DEF IInv, TypeOK
<1>3. InTable(v) /\ v \in Int
  BY <1>2 DEF Readable, InTable
<1>4. Readable => v = row
  OBVIOUS
<1>5. Readable <=> cursor = "open" /\ InTable(row)
  BY DEF Readable, InTable
<1> HIDE DEF v
<1>6. /\ pc' \in [Threads -> PC] /\ pc[t] = "read" /\ pc'[t] = "assign"
      /\ \A u \in Threads : u # t => pc'[u] = pc[u]
  BY <1>1, <1>2, GotoFacts DEF PC
<1>7. /\ val' \in [Threads -> Int] /\ val'[t] = v
      /\ \A u \in Threads : u # t => val'[u] = val[u]
  BY <1>1, <1>2, <1>3 DEF TypeOK
<1>8. TypeOK'
  BY <1>1, <1>2, <1>6, <1>7 DEF TypeOK
<1>9. LocalInv'
  BY <1>1, <1>3, <1>6, <1>7 DEF IInv, LocalInv, InTable
<1>10. SoloInv'
  <2> SUFFICES ASSUME ~overlapped'
               PROVE  Alone' /\ InTable(nowPlayingPos)'
                      /\ (\A u \in Threads : SoloStep(u)') /\ FileInv'
    BY DEF SoloInv
  <2>1. Alone /\ InTable(nowPlayingPos)
        /\ (cursor = "open" => row = nowPlayingPos)
    BY <1>1, <1>6 DEF IInv, SoloInv, SoloStep
  <2>2. InTable(nowPlayingPos)'
    BY <1>1, <2>1 DEF InTable
  <2>3. Alone' /\ \A u \in Threads : u # t => pc'[u] = "idle"
    BY <1>6, <2>1 DEF Alone
  <2>4. ~crashed' => val'[t] = nowPlayingPos'
    BY <1>1, <1>4, <1>5, <1>7, <2>1
  <2>5. (\A u \in Threads : SoloStep(u)') /\ FileInv'
    BY <1>6, <2>3, <2>4 DEF SoloStep, FileInv, Loading
  <2>6. QED
    BY <2>2, <2>3, <2>5
<1>11. RecoverInv'
  <2> SUFFICES ASSUME ~crashed', ~InTable(nowPlayingPos)'
               PROVE  \E u \in Threads : Discovers(u)'
    BY DEF RecoverInv
  <2>1. PICK u \in Threads : Discovers(u)
    BY <1>1 DEF IInv, RecoverInv, InTable
  <2>2. u # t
    BY <1>1, <1>2, <1>5, <1>6, <2>1, ClampedFacts DEF Discovers, InTable
  <2>3. Discovers(u)'
    BY <1>1, <1>6, <2>1, <2>2 DEF Discovers, Clamped
  <2>4. QED
    BY <2>3
<1>12. CrashNeedsOverlapOrStop'
  <2>1. ~overlapped /\ cursor = "open" => InTable(row)
    BY <1>6 DEF IInv, SoloInv, SoloStep
  <2>2. QED
    BY <1>1, <1>5, <2>1 DEF CrashNeedsOverlapOrStop
<1>13. QED
  BY <1>8, <1>9, <1>10, <1>11, <1>12 DEF IInv

LEMMA AssignIInv ==
    ASSUME IInv, ~crashed, NEW t \in Threads, Assign(t) PROVE IInv'
<1>1. /\ Goto(t, "assign", "idle") /\ nowPlayingFile' = val[t]
      /\ op' = [op EXCEPT ![t] = "none"] /\ val' = [val EXCEPT ![t] = 0]
      /\ UNCHANGED <<nowPlayingPos, cursor, row, crashed, overlapped, cmd>>
  BY DEF Assign, Return
<1>2. TypeOK
  BY DEF IInv
<1>3. /\ pc' \in [Threads -> PC] /\ pc[t] = "assign" /\ pc'[t] = "idle"
      /\ \A u \in Threads : u # t => pc'[u] = pc[u]
  BY <1>1, <1>2, GotoFacts DEF PC
<1>4. /\ val' \in [Threads -> Int] /\ op' \in [Threads -> Operations \cup {"none"}]
      /\ \A u \in Threads : u # t => val'[u] = val[u] /\ op'[u] = op[u]
  BY <1>1, <1>2 DEF TypeOK
<1>5. InTable(val[t])
  BY <1>3 DEF IInv, LocalInv
<1>6. TypeOK'
  BY <1>1, <1>2, <1>3, <1>4, <1>5 DEF TypeOK, InTable
<1>7. LocalInv'
  BY <1>1, <1>3, <1>4 DEF IInv, LocalInv, InTable
<1>8. SoloInv'
  <2> SUFFICES ASSUME ~overlapped'
               PROVE  Alone' /\ InTable(nowPlayingPos)'
                      /\ (\A u \in Threads : SoloStep(u)') /\ FileInv'
    BY DEF SoloInv
  <2>1. Alone /\ InTable(nowPlayingPos) /\ val[t] = nowPlayingPos
    BY <1>1, <1>3 DEF IInv, SoloInv, SoloStep
  <2>2. InTable(nowPlayingPos)'
    BY <1>1, <2>1 DEF InTable
  <2>3. \A u \in Threads : pc'[u] = "idle"
    BY <1>3, <2>1 DEF Alone
  <2>4. Alone' /\ (\A u \in Threads : SoloStep(u)') /\ FileInv'
    BY <1>1, <2>1, <2>3 DEF Alone, SoloStep, FileInv, Loading
  <2>5. QED
    BY <2>2, <2>4
<1>9. RecoverInv'
  BY <1>1, <1>3 DEF IInv, RecoverInv, Discovers, InTable, Clamped
<1>10. CrashNeedsOverlapOrStop'
  BY <1>1 DEF IInv, CrashNeedsOverlapOrStop
<1>11. QED
  BY <1>6, <1>7, <1>8, <1>9, <1>10 DEF IInv

-----------------------------------------------------------------------------
(* CleanUp() takes the cursor away and leaves the position alone.          *)
LEMMA CleanUpIInv ==
    ASSUME IInv, ~crashed, NEW t \in Threads, Close(t) \/ Drop(t) \/ Blank(t)
    PROVE  IInv'
<1>1. /\ TypeOK /\ pc[t] \in {"close", "drop", "blank"}
      /\ pc' = [pc EXCEPT ![t] = pc'[t]] /\ pc'[t] \in {"drop", "blank", "idle"}
      /\ pc' \in [Threads -> PC]
      /\ \A u \in Threads : u # t => pc'[u] = pc[u]
  <2>1. TypeOK
    BY DEF IInv
  <2>2. CASE Close(t)
    BY <2>1, <2>2 DEF Close, Goto, TypeOK, PC
  <2>3. CASE Drop(t)
    BY <2>1, <2>3 DEF Drop, Goto, TypeOK, PC
  <2>4. CASE Blank(t)
    BY <2>1, <2>4 DEF Blank, Goto, TypeOK, PC
  <2>5. QED
    BY <2>1, <2>2, <2>3, <2>4
<1>2. /\ cursor' \in {"closed", "null"} \/ cursor' = cursor
      /\ cursor' # "open"
      /\ nowPlayingFile' \in {nowPlayingFile, NoFile}
      /\ UNCHANGED <<nowPlayingPos, row, crashed, overlapped, cmd>>
  BY DEF IInv, LocalInv, Close, Drop, Blank, Goto
<1>3. /\ val' \in [Threads -> Int] /\ op' \in [Threads -> Operations \cup {"none"}]
      /\ \A u \in Threads : u # t => val'[u] = val[u] /\ op'[u] = op[u]
  BY <1>1 DEF TypeOK, Close, Drop, Blank, Return
<1>4. TypeOK'
  BY <1>1, <1>2, <1>3 DEF TypeOK
<1>5. LocalInv'
  BY <1>1, <1>2, <1>3 DEF IInv, LocalInv, InTable
<1>6. SoloInv'
  <2> SUFFICES ASSUME ~overlapped'
               PROVE  Alone' /\ InTable(nowPlayingPos)'
                      /\ (\A u \in Threads : SoloStep(u)') /\ FileInv'
    BY DEF SoloInv
  <2>1. Alone /\ InTable(nowPlayingPos)
    BY <1>2 DEF IInv, SoloInv
  <2>2. InTable(nowPlayingPos)'
    BY <1>2, <2>1 DEF InTable
  <2>3. Alone' /\ \A u \in Threads : u # t => pc'[u] = "idle"
    BY <1>1, <2>1 DEF Alone
  <2>4. (\A u \in Threads : SoloStep(u)') /\ FileInv'
    BY <1>1, <1>2, <2>3 DEF SoloStep, FileInv
  <2>5. QED
    BY <2>2, <2>3, <2>4
<1>7. RecoverInv'
  BY <1>1, <1>2 DEF IInv, RecoverInv, Discovers, InTable
<1>8. CrashNeedsOverlapOrStop'
  BY <1>2 DEF CrashNeedsOverlapOrStop
<1>9. QED
  BY <1>4, <1>5, <1>6, <1>7, <1>8 DEF IInv

LEMMA NextIInv == IInv /\ [Next]_vars => IInv'
<1> SUFFICES ASSUME IInv, [Next]_vars PROVE IInv'
  OBVIOUS
<1>1. CASE Next
  <2>1. PICK t \in Threads : Step(t)
    BY <1>1 DEF Next
  <2>2. ~crashed
    BY <1>1 DEF Next
  <2>3. QED
    BY <2>1, <2>2, CallIInv, TestIInv, LoadIInv, StoreIInv, MoveIInv, ReadIInv,
       AssignIInv, CleanUpIInv DEF Step
<1>2. CASE UNCHANGED vars
  BY <1>2 DEF vars, IInv, TypeOK, LocalInv, SoloInv, Alone, SoloStep, Target,
              FileInv, Loading, RecoverInv, Discovers, InTable, Clamped,
              CrashNeedsOverlapOrStop
<1>3. QED
  BY <1>1, <1>2

-----------------------------------------------------------------------------
(* The invariants of the library's content hold in every state it reaches. *)
THEOREM LibraryInvariance == Spec => []IInv
<1>1. QED
  BY InitIInv, NextIInv, PTL DEF Spec

(* The variables keep their types, through every race of the commands.     *)
THEOREM LibraryTypeCorrect == Spec => []TypeOK
<1>1. IInv => TypeOK
  BY DEF IInv
<1>2. QED
  BY <1>1, LibraryInvariance, PTL

(* After any sequence of commands that do not overlap, the path handed to  *)
(* the player is the one of the row at nowPlayingPos.                      *)
THEOREM FileIsAtPosition == Spec => []FileMatchesPosition
<1>1. IInv => FileMatchesPosition
  BY DEF IInv, SoloInv, FileInv, FileMatchesPosition, Quiet, Loading
<1>2. QED
  BY <1>1, LibraryInvariance, PTL

(* NextTrack(), PrevTrack() and RandomTrack() throw only when they overlap *)
(* each other or come after CleanUp(), in a library of any size.           *)
THEOREM CrashesAreExplained == Spec => []CrashNeedsOverlapOrStop
<1>1. IInv => CrashNeedsOverlapOrStop
  BY DEF IInv
<1>2. QED
  BY <1>1, LibraryInvariance, PTL

(* However many commands raced, when all have returned and the process is  *)
(* alive nowPlayingPos names a row again.                                  *)
THEOREM RacesRecover == Spec => []PositionRecovers
<1>1. IInv => PositionRecovers
  <2>1. ASSUME Quiet, NEW t \in Threads PROVE ~Discovers(t)
    BY <2>1 DEF Quiet, Discovers
  <2>2. QED
    BY <2>1 DEF IInv, RecoverInv, PositionRecovers, InTable
<1>2. QED
  BY <1>1, LibraryInvariance, PTL

-----------------------------------------------------------------------------
(* The ring: only Store(t) moves the position, to the target its thread    *)
(* computed, and only a call that overlaps another gives the ring up.      *)
LEMMA ModFacts ==
    ASSUME NEW p \in 0 .. Rows - 1
    PROVE  /\ p = Rows - 1 => (p + 1) % Rows = 0
           /\ p # Rows - 1 => (p + 1) % Rows = p + 1
           /\ p = 0 => (p + Rows - 1) % Rows = Rows - 1
           /\ p # 0 => (p + Rows - 1) % Rows = p - 1
BY RowsAssumption

LEMMA InitRing == Init => Ring!Init
BY RowsAssumption DEF Init, Ring!Init, nowPlayingMax

LEMMA StoreMovesOn ==
    ASSUME IInv, ~overlapped, NEW t \in Threads, Store(t)
    PROVE  Ring!Next
<1>1. /\ nowPlayingPos' = val[t] /\ cmd' = op[t] /\ pc[t] = "store"
      /\ ~overlapped'
      /\ op[t] \in {"next", "prev", "random"}
      /\ nowPlayingPos \in 0 .. Rows - 1 /\ nowPlayingPos # -1
      /\ Target(op[t], nowPlayingPos, val[t])
  BY RowsAssumption
     DEF Store, Goto, IInv, LocalInv, Moves, SoloInv, SoloStep, InTable,
         nowPlayingMax
<1>2. ASSUME NEW c, NEW p, cmd' = c, nowPlayingPos' = p
      PROVE  Ring!Step(c, p)
  BY <1>1, <1>2 DEF Ring!Step, Ring!Nowhere
<1>3. CASE op[t] = "next"
  BY <1>1, <1>2, <1>3, ModFacts DEF Target, nowPlayingMax, Ring!NextTrack, Ring!Next
<1>4. CASE op[t] = "prev"
  BY <1>1, <1>2, <1>4, ModFacts DEF Target, nowPlayingMax, Ring!PrevTrack, Ring!Next
<1>5. CASE op[t] = "random"
  BY <1>1, <1>2, <1>5 DEF Target, InTable, nowPlayingMax, Ring!RandomTrack, Ring!Next
<1>6. QED
  BY <1>1, <1>3, <1>4, <1>5

LEMMA CallGivesUp ==
    ASSUME IInv, NEW t \in Threads, NEW o \in Operations, Call(t, o)
    PROVE  [Ring!Next]_(Ring!vars)
<1>1. UNCHANGED <<nowPlayingPos, cmd>> /\ (overlapped => overlapped')
  BY DEF Call
<1>2. CASE ~overlapped /\ overlapped'
  <2>1. nowPlayingPos # -1
    BY <1>2, RowsAssumption DEF IInv, SoloInv, InTable, nowPlayingMax
  <2>2. Ring!GiveUp
    BY <1>2, <2>1 DEF Ring!GiveUp, Ring!Step, Ring!Nowhere
  <2>3. QED
    BY <2>2 DEF Ring!Next
<1>3. CASE overlapped /\ overlapped'
  BY <1>3 DEF Ring!vars
<1>4. CASE ~overlapped /\ ~overlapped'
  BY <1>1, <1>4 DEF Ring!vars
<1>5. QED
  BY <1>1, <1>2, <1>3, <1>4

LEMMA StepImplements == IInv /\ [Next]_vars => [Ring!Next]_(Ring!vars)
<1> SUFFICES ASSUME IInv, [Next]_vars PROVE [Ring!Next]_(Ring!vars)
  OBVIOUS
<1>1. CASE Next
  <2>1. PICK t \in Threads : Step(t)
    BY <1>1 DEF Next
  <2>2. CASE Store(t) /\ ~overlapped
    BY <2>2, StoreMovesOn
  <2>3. CASE Store(t) /\ overlapped
    BY <2>3 DEF Store, Ring!vars
  <2>4. CASE \E o \in Operations : Call(t, o)
    BY <2>4, CallGivesUp
  <2>5. CASE \/ Test(t) \/ Load(t) \/ Move(t) \/ Read(t) \/ Assign(t)
             \/ Close(t) \/ Drop(t) \/ Blank(t)
    BY <2>5 DEF Test, Load, Move, Read, Assign, Close, Drop, Blank, Ring!vars
  <2>6. QED
    BY <2>1, <2>2, <2>3, <2>4, <2>5 DEF Step
<1>2. CASE UNCHANGED vars
  BY <1>2 DEF vars, Ring!vars
<1>3. QED
  BY <1>1, <1>2

(* The library is the ring of tracks the service expects, whatever its     *)
(* size, until two commands overlap.                                       *)
THEOREM RingRefinement == Spec => ImplementsRing
<1>1. QED
  BY InitIInv, NextIInv, InitRing, StepImplements, PTL
     DEF Spec, ImplementsRing, Ring!Spec
=============================================================================
