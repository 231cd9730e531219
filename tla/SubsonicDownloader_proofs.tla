---------------------- MODULE SubsonicDownloader_proofs ----------------------
(***************************************************************************)
(* Proofs about SubsonicDownloader, for any number of jobs and threads.    *)
(* Two changes of the list may overlap and leave anything in it; what is   *)
(* proved is what that cannot touch, and what holds until then.            *)
(***************************************************************************)
EXTENDS SubsonicDownloader, SequenceTheorems, TLAPS

(* What each thread knows, whatever the others do to the list.             *)
MainInv ==
    /\ main.at # "idle" => main.job \in asked
    /\ main.at = "count" => main.seen < Len(array)

ThreadInv ==
    \A t \in Threads :
        /\ pc[t] # "none" => asked # {}
        /\ pc[t] = "fetch" => array # <<>>
        /\ pc[t] = "scan" => at[t] <= seen[t] + 1
        /\ pc[t] = "shift" => at[t] <= seen[t]
        /\ pc[t] = "shrink" => at[t] = seen[t]
        /\ pc[t] \in {"download", "report", "clear"} => job[t] \in Jobs
        /\ pc[t] = "clear" => job[t] \in ended

(* At most one change of the list is under way, it has read the size that  *)
(* is there, and a removal that shifts leaves nothing out but its job.     *)
Solo ==
    /\ Adding => \A t \in Threads : ~Changing(t)
    /\ \A t, u \in Threads : Changing(t) /\ Changing(u) => t = u
    /\ Adding => main.seen = size
    /\ main.at = "count" => array[main.seen + 1] = main.job
    /\ \A t \in Threads : Changing(t) => seen[t] = size
    /\ \A t \in Threads : pc[t] = "shift" =>
          \/ array[at[t]] = job[t]
          \/ at[t] > 1 /\ array[at[t]] = array[at[t] - 1]
    /\ \A t \in Threads : pc[t] = "shrink" => array[at[t]] = NoJob

SoloInv == risked # asked => Solo

(* Before any overlap: the list has every job once, and nothing behind its *)
(* end but the job that is being added; a thread about to remove a job     *)
(* finds it first in the list, or not at all.                              *)
OnceInv ==
    /\ \A i, k \in DOMAIN Waiting : Waiting[i] = Waiting[k] => i = k
    /\ \A i \in DOMAIN Waiting :
          Waiting[i] \in asked /\ (Adding => Waiting[i] # main.job)
    /\ \A i \in size + 1 .. Len(array) :
          array[i] = NoJob \/ (main.at = "count" /\ i = size + 1)

First(j) ==
    /\ j \in asked
    /\ \A i \in DOMAIN Waiting : Waiting[i] = j => i = 1
    /\ Adding /\ main.job = j => size = 0

RemoveInv ==
    \A t \in Threads :
        /\ pc[t] \in {"remove", "scan"} => job[t] = NoJob \/ First(job[t])
        /\ Taking(t) => /\ job[t] \in asked
                        /\ \A i \in DOMAIN Waiting : Waiting[i] # job[t]

SoundInv == risked = {} => OnceInv /\ RemoveInv

IInv == /\ TypeOK /\ MainInv /\ ThreadInv /\ SoloInv /\ SoundInv
        /\ NoJobLost /\ NoLostWakeup

-----------------------------------------------------------------------------
LEMMA InitIInv == Init => IInv
<1> SUFFICES ASSUME Init PROVE IInv
  OBVIOUS
<1>1. /\ array = <<>> /\ array \in Seq(Jobs \cup {NoJob}) /\ Len(array) = 0
      /\ size = 0 /\ main = NotAdding /\ asked = {} /\ risked = {}
      /\ \A t \in Threads : pc[t] = "none"
  BY DEF Init
<1>2. TypeOK
  <2>1. size \in 0 .. Len(array) /\ 1 \in 1 .. Len(array) + 1
    BY <1>1
  <2>2. main \in [at : {"idle", "put", "count", "queued"},
                  job : Jobs \cup {NoJob}, seen : 0 .. Len(array)]
    BY <1>1, <2>1 DEF NotAdding
  <2>3. /\ pc \in [Threads -> PC] /\ job \in [Threads -> Jobs \cup {NoJob}]
        /\ seen \in [Threads -> 0 .. Len(array)]
        /\ at \in [Threads -> 1 .. Len(array) + 1]
    BY <1>1, <2>1 DEF Init, PC
  <2>4. QED
    BY <1>1, <2>1, <2>2, <2>3 DEF Init, TypeOK
<1>3. MainInv /\ ThreadInv /\ SoloInv
  BY <1>1 DEF MainInv, ThreadInv, SoloInv, NotAdding
<1>4. SoundInv
  <2>1. DOMAIN Waiting = {} /\ ~Adding
    BY <1>1 DEF Waiting, Taking, Adding, NotAdding
  <2>2. QED
    BY <1>1, <2>1 DEF SoundInv, OnceInv, RemoveInv, Taking
<1>5. NoJobLost /\ NoLostWakeup
  BY <1>1 DEF NoJobLost, NoLostWakeup
<1>6. QED
  BY <1>2, <1>3, <1>4, <1>5 DEF IInv

(* Where the list is sound, the first of two overlapping changes is yet to *)
(* come.                                                                   *)
LEMMA SoundIsSolo ==
    ASSUME IInv, risked = {}, asked # {}
    PROVE  Solo /\ OnceInv /\ RemoveInv
BY DEF IInv, SoloInv, SoundInv

(* The jobs waiting, without or with a job that is being taken out.        *)
LEMMA WaitingFull ==
    ASSUME \A t \in Threads : ~Taking(t)
    PROVE  Waiting = [i \in 1 .. size |-> array[i]]
BY DEF Waiting, Behind

LEMMA WaitingTaken ==
    ASSUME NEW t \in Threads, Taking(t), \A u \in Threads : Taking(u) => u = t
    PROVE  Waiting = [i \in 1 .. size - 1 |->
                        array[IF at[t] <= i THEN i + 1 ELSE i]]
BY DEF Waiting, Behind

-----------------------------------------------------------------------------
(* The main thread: add() reads the size, writes the cell behind the last, *)
(* and the size.                                                           *)
LEMMA ReceiveIInv == ASSUME IInv, Receive PROVE IInv'
<1> DEFINE j == NewJob
<1>1. /\ TypeOK /\ main.at = "idle" /\ asked # Jobs
      /\ asked' = asked \cup {j}
      /\ risked' = IF \E t \in Threads : Changing(t) THEN asked' ELSE risked
      /\ main' = [at |-> "put", job |-> j, seen |-> size]
      /\ UNCHANGED <<array, size, isDownloading, pc, job, seen, at, ended>>
  BY DEF IInv, Receive, list, call
<1>2. j \in Jobs /\ j \notin asked
  <2>1. \E k \in Jobs : k \notin asked
    BY <1>1 DEF TypeOK
  <2>2. QED
    BY <2>1 DEF NewJob
<1> HIDE DEF j
<1>3. /\ main'.at = "put" /\ main'.job = j /\ main'.seen = size
      /\ ~Adding /\ Adding'
  BY <1>1 DEF Adding
<1>4. TypeOK'
  BY <1>1, <1>2 DEF TypeOK
<1>5. MainInv' /\ ThreadInv'
  BY <1>1, <1>3 DEF IInv, MainInv, ThreadInv
<1>6. ASSUME risked' # asked' PROVE Solo'
  <2>1. \A t \in Threads : ~Changing(t)
    BY <1>1, <1>6
  <2>2. QED
    BY <1>1, <1>3, <2>1 DEF Solo, Changing
<1>7. NoJobLost'
  <2> SUFFICES ASSUME NEW k \in asked' \ risked', k # j
               PROVE  \/ Queued(k)
                      \/ \E t \in Threads : pc[t] \in Holding /\ job[t] = k
                      \/ k \in ended
    BY <1>1, <1>3 DEF NoJobLost, Queued
  <2>1. k \in asked \ risked
    BY <1>1
  <2>2. QED
    BY <1>3, <2>1 DEF IInv, NoJobLost
<1>8. NoLostWakeup'
  BY <1>3 DEF NoLostWakeup
<1>9. ASSUME risked' = {} PROVE OnceInv' /\ RemoveInv'
  <2>1. /\ risked = {} /\ OnceInv /\ RemoveInv
        /\ \A t \in Threads : ~Changing(t)
    BY <1>1, <1>9 DEF IInv, SoundInv
  <2>2. Waiting' = Waiting
    BY <1>1 DEF Waiting, Behind, Taking
  <2>3. \A i \in DOMAIN Waiting : Waiting[i] \in asked /\ Waiting[i] # j
    BY <1>2, <2>1 DEF OnceInv
  <2>4. OnceInv'
    BY <1>1, <1>3, <2>1, <2>2, <2>3 DEF OnceInv
  <2>5. RemoveInv'
    BY <1>1, <1>2, <1>3, <2>1, <2>2 DEF RemoveInv, First, Taking
  <2>6. QED
    BY <2>4, <2>5
<1>10. QED
  BY <1>4, <1>5, <1>6, <1>7, <1>8, <1>9 DEF IInv, SoloInv, SoundInv

LEMMA PutIInv == ASSUME IInv, Put PROVE IInv'
<1>1. /\ TypeOK /\ main.at = "put" /\ main' = [main EXCEPT !.at = "count"]
      /\ array' = IF main.seen = Len(array) THEN Append(array, main.job)
                  ELSE [array EXCEPT ![main.seen + 1] = main.job]
      /\ UNCHANGED <<size, isDownloading, pc, job, seen, at, asked, risked, ended>>
  BY DEF IInv, Put, call
<1>2. /\ main'.at = "count" /\ main'.job = main.job /\ main'.seen = main.seen
      /\ main.seen \in 0 .. Len(array) /\ main.job \in Jobs \cup {NoJob}
      /\ Adding /\ Adding'
  BY <1>1 DEF Adding, TypeOK
<1>3. /\ array' \in Seq(Jobs \cup {NoJob})
      /\ Len(array) \in Nat /\ Len(array') >= Len(array)
      /\ main.seen < Len(array') /\ array'[main.seen + 1] = main.job
      /\ \A i \in 1 .. Len(array) : i # main.seen + 1 => array'[i] = array[i]
      /\ Len(array') > Len(array) => main.seen = Len(array) /\ Len(array') = Len(array) + 1
  <2>0. array \in Seq(Jobs \cup {NoJob})
    BY <1>1 DEF TypeOK
  <2>1. CASE main.seen = Len(array)
    BY <1>1, <1>2, <2>0, <2>1
  <2>2. CASE main.seen # Len(array)
    BY <1>1, <1>2, <2>0, <2>2
  <2>3. QED
    BY <2>1, <2>2
<1>4. TypeOK'
  <2>1. /\ size' \in 0 .. Len(array') /\ main'.seen \in 0 .. Len(array')
        /\ 0 .. Len(array) \subseteq 0 .. Len(array')
        /\ 1 .. Len(array) + 1 \subseteq 1 .. Len(array') + 1
    BY <1>1, <1>2, <1>3 DEF TypeOK
  <2>2. main' \in [at : {"idle", "put", "count", "queued"},
                   job : Jobs \cup {NoJob}, seen : 0 .. Len(array')]
    BY <1>1, <1>2, <2>1 DEF TypeOK
  <2>3. seen' \in [Threads -> 0 .. Len(array')] /\ at' \in [Threads -> 1 .. Len(array') + 1]
    BY <1>1, <2>1 DEF TypeOK
  <2>4. QED
    BY <1>1, <1>3, <2>1, <2>2, <2>3 DEF TypeOK
<1>5. MainInv' /\ ThreadInv'
  <2>1. array # <<>> => array' # <<>>
    BY <1>3, <1>1 DEF TypeOK
  <2>2. QED
    BY <1>1, <1>2, <1>3, <2>1 DEF IInv, MainInv, ThreadInv
<1>6. ASSUME risked # asked PROVE Solo'
  <2>1. Solo /\ \A t \in Threads : ~Changing(t)
    BY <1>2, <1>6 DEF IInv, SoloInv, Solo
  <2>2. QED
    BY <1>1, <1>2, <1>3, <2>1 DEF Solo, Changing, Adding
<1>7. NoJobLost'
  <2> SUFFICES ASSUME NEW k \in asked \ risked, k # main.job
               PROVE  \/ Queued(k)'
                      \/ \E t \in Threads : pc[t] \in Holding /\ job[t] = k
                      \/ k \in ended
    BY <1>1, <1>2 DEF NoJobLost
  <2>1. main.seen = size /\ size \in 0 .. Len(array)
    BY <1>1, <1>2 DEF IInv, SoloInv, Solo, TypeOK
  <2>2. Queued(k) => Queued(k)'
    BY <1>1, <1>3, <2>1 DEF Queued
  <2>3. QED
    BY <2>2 DEF IInv, NoJobLost
<1>8. NoLostWakeup'
  BY <1>2 DEF NoLostWakeup
<1>9. ASSUME risked = {} PROVE OnceInv' /\ RemoveInv'
  <2>1. /\ asked # {} /\ Solo /\ OnceInv /\ RemoveInv
        /\ main.job \in asked
    BY <1>1, <1>9, SoundIsSolo DEF IInv, MainInv
  <2>2. /\ main.seen = size /\ size \in 0 .. Len(array)
        /\ \A t \in Threads : ~Changing(t)
    BY <1>1, <1>2, <2>1 DEF Solo, TypeOK
  <2>3. Waiting' = Waiting
    <3>1. Waiting = [i \in 1 .. size |-> array[i]]
      BY <2>2, WaitingFull DEF Taking, Changing
    <3>2. Waiting' = [i \in 1 .. size |-> array'[i]]
      BY <1>1, <2>2 DEF Waiting, Behind, Taking, Changing
    <3>3. \A i \in 1 .. size : array'[i] = array[i]
      BY <1>3, <2>2
    <3>4. QED
      BY <3>1, <3>2, <3>3
  <2>4. OnceInv'
    <3>1. \A i \in size + 1 .. Len(array') : array'[i] = NoJob \/ i = size + 1
      BY <1>1, <1>2, <1>3, <2>1, <2>2 DEF OnceInv
    <3>2. QED
      BY <1>1, <1>2, <2>1, <2>3, <3>1 DEF OnceInv
  <2>5. RemoveInv'
    BY <1>1, <1>2, <2>1, <2>3 DEF RemoveInv, First, Taking
  <2>6. QED
    BY <2>4, <2>5
<1>10. QED
  BY <1>1, <1>4, <1>5, <1>6, <1>7, <1>8, <1>9 DEF IInv, SoloInv, SoundInv

LEMMA CountIInv == ASSUME IInv, Count PROVE IInv'
<1>1. /\ TypeOK /\ main.at = "count" /\ main' = [main EXCEPT !.at = "queued"]
      /\ size' = main.seen + 1
      /\ UNCHANGED <<array, isDownloading, pc, job, seen, at, asked, risked, ended>>
  BY DEF IInv, Count, call
<1>2. /\ main'.at = "queued" /\ main'.job = main.job /\ main'.seen = main.seen
      /\ main.seen \in 0 .. Len(array) /\ main.seen < Len(array)
      /\ Len(array) \in Nat /\ Adding /\ ~Adding'
  BY <1>1 DEF Adding, TypeOK, IInv, MainInv
<1>3. TypeOK'
  <2>1. size' \in 0 .. Len(array')
    BY <1>1, <1>2
  <2>2. main' \in [at : {"idle", "put", "count", "queued"},
                   job : Jobs \cup {NoJob}, seen : 0 .. Len(array')]
    BY <1>1 DEF TypeOK
  <2>3. QED
    BY <1>1, <2>1, <2>2 DEF TypeOK
<1>4. MainInv' /\ ThreadInv'
  BY <1>1, <1>2 DEF IInv, MainInv, ThreadInv
<1>5. ASSUME risked # asked PROVE Solo'
  <2>1. Solo /\ \A t \in Threads : ~Changing(t)
    BY <1>2, <1>5 DEF IInv, SoloInv, Solo
  <2>2. QED
    BY <1>1, <1>2, <2>1 DEF Solo, Changing
<1>6. NoJobLost'
  <2> SUFFICES ASSUME NEW k \in asked \ risked
               PROVE  \/ Queued(k)'
                      \/ \E t \in Threads : pc[t] \in Holding /\ job[t] = k
                      \/ k \in ended
    BY <1>1 DEF NoJobLost
  <2>1. /\ main.seen = size /\ size \in Nat
        /\ array[size + 1] = main.job
    BY <1>1, <1>2 DEF IInv, SoloInv, Solo, TypeOK
  <2>2. Queued(k) \/ k = main.job => Queued(k)'
    BY <1>1, <2>1 DEF Queued
  <2>3. QED
    BY <2>2 DEF IInv, NoJobLost
<1>7. NoLostWakeup'
  BY <1>2 DEF NoLostWakeup
<1>8. ASSUME risked = {} PROVE OnceInv' /\ RemoveInv'
  <2>1. /\ asked # {} /\ Solo /\ OnceInv /\ RemoveInv
        /\ main.job \in asked
    BY <1>1, <1>8, SoundIsSolo DEF IInv, MainInv
  <2>2. /\ main.seen = size /\ size \in 0 .. Len(array) /\ size' = size + 1
        /\ array[size + 1] = main.job
        /\ \A t \in Threads : ~Changing(t)
    BY <1>1, <1>2, <2>1 DEF Solo, TypeOK
  <2>3. Waiting = [i \in 1 .. size |-> array[i]]
    BY <2>2, WaitingFull DEF Taking, Changing
  <2>4. Waiting' = [i \in 1 .. size + 1 |-> array[i]]
    BY <1>1, <2>2 DEF Waiting, Behind, Taking, Changing
  <2>5. OnceInv'
    <3>1. \A i \in 1 .. size : array[i] \in asked /\ array[i] # main.job
      BY <1>2, <2>1, <2>3 DEF OnceInv
    <3>2. \A i, k \in 1 .. size : array[i] = array[k] => i = k
      BY <2>1, <2>3 DEF OnceInv
    <3>3. \A i, k \in 1 .. size + 1 : array[i] = array[k] => i = k
      BY <2>2, <3>1, <3>2
    <3>4. \A i \in size' + 1 .. Len(array) : array[i] = NoJob
      BY <2>1, <2>2 DEF OnceInv
    <3>5. \A i \in 1 .. size + 1 : array[i] \in asked
      BY <2>1, <2>2, <3>1
    <3>6. QED
      BY <1>1, <1>2, <2>4, <3>3, <3>4, <3>5 DEF OnceInv
  <2>6. RemoveInv'
    <3>1. ASSUME NEW k, First(k) PROVE First(k)'
      <4>1. CASE k = main.job
        <5>1. size = 0
          BY <1>2, <3>1, <4>1 DEF First
        <5>2. QED
          BY <1>1, <1>2, <2>4, <3>1, <5>1 DEF First
      <4>2. CASE k # main.job
        <5>1. \A i \in 1 .. size : array[i] = k => i = 1
          BY <2>3, <3>1 DEF First
        <5>2. \A i \in 1 .. size + 1 : array[i] = k => i = 1
          BY <2>2, <4>2, <5>1
        <5>3. QED
          BY <1>1, <1>2, <2>4, <3>1, <5>2 DEF First
      <4>3. QED
        BY <4>1, <4>2
    <3>2. QED
      BY <1>1, <2>1, <2>2, <3>1 DEF RemoveInv, Taking, Changing
  <2>7. QED
    BY <2>5, <2>6
<1>9. QED
  BY <1>1, <1>3, <1>4, <1>5, <1>6, <1>7, <1>8 DEF IInv, SoloInv, SoundInv

LEMMA StartIInv == ASSUME IInv, StartIfIdle PROVE IInv'
<1>1. /\ TypeOK /\ main.at = "queued" /\ main' = NotAdding
      /\ UNCHANGED <<array, size, isDownloading, job, seen, at, asked, risked, ended>>
  BY DEF IInv, StartIfIdle, list, call
<1>2. /\ main'.at = "idle" /\ ~Adding /\ ~Adding' /\ asked # {}
  BY <1>1 DEF Adding, NotAdding, IInv, MainInv
<1>3. /\ pc' \in [Threads -> PC]
      /\ \A t \in Threads : pc'[t] = pc[t] \/ (pc[t] = "none" /\ pc'[t] = "loop")
      /\ isDownloading \/ \E t \in Threads : pc'[t] = "loop"
  BY <1>1 DEF StartIfIdle, TypeOK, PC, Alive
<1>4. TypeOK'
  BY <1>1, <1>3 DEF TypeOK, NotAdding
<1>5. MainInv'
  BY <1>2 DEF MainInv
<1>6. ThreadInv'
  BY <1>1, <1>2, <1>3 DEF IInv, ThreadInv
<1>7. SoloInv'
  BY <1>1, <1>2, <1>3 DEF IInv, SoloInv, Solo, Changing
<1>8. NoJobLost'
  BY <1>1, <1>2, <1>3 DEF IInv, NoJobLost, Queued, Holding
<1>9. NoLostWakeup'
  BY <1>1, <1>3 DEF NoLostWakeup, Alive
<1>10. SoundInv'
  <2>1. Waiting' = Waiting
    <3>1. \A t \in Threads : Taking(t)' <=> Taking(t)
      BY <1>3 DEF Taking
    <3>2. QED
      BY <1>1, <3>1 DEF Waiting, Behind
  <2>2. QED
    BY <1>1, <1>2, <1>3, <2>1 DEF IInv, SoundInv, OnceInv, RemoveInv, First, Taking
<1>11. QED
  BY <1>4, <1>5, <1>6, <1>7, <1>8, <1>9, <1>10 DEF IInv

-----------------------------------------------------------------------------
(* A downloader thread that moves outside remove() leaves the list alone.  *)
Elsewhere == PC \ {"remove", "scan", "shift", "shrink"}

Move(t) ==
    /\ pc[t] \in Elsewhere \ {"none"} /\ pc'[t] \in Elsewhere
    /\ pc' = [pc EXCEPT ![t] = pc'[t]]
    /\ job'[t] \in {job[t], NoJob} /\ job' = [job EXCEPT ![t] = job'[t]]
    /\ pc'[t] = "none" => size = 0
    /\ pc'[t] = "fetch" => array # <<>>
    /\ pc[t] \in Holding /\ job[t] \notin ended'
          => pc'[t] \in Holding /\ job'[t] = job[t]
    /\ pc'[t] \in {"download", "report", "clear"} => job'[t] \in Jobs
    /\ pc'[t] = "clear" => job'[t] \in ended'
    /\ ended \subseteq ended' /\ ended' \subseteq Jobs
    /\ isDownloading' \in BOOLEAN
    /\ UNCHANGED <<array, size, main, seen, at, asked, risked>>

LEMMA MoveIInv == ASSUME IInv, NEW t \in Threads, Move(t) PROVE IInv'
<1>1. /\ TypeOK /\ pc[t] \in Elsewhere \ {"none"} /\ pc'[t] \in Elsewhere
      /\ UNCHANGED <<array, size, main, seen, at, asked, risked>>
  BY DEF IInv, Move
<1>2. /\ \A u \in Threads : u # t => pc'[u] = pc[u] /\ job'[u] = job[u]
      /\ pc' \in [Threads -> PC] /\ job' \in [Threads -> Jobs \cup {NoJob}]
  BY <1>1 DEF TypeOK, Move, Elsewhere
<1>3. TypeOK'
  BY <1>1, <1>2 DEF TypeOK, Move
<1>4. MainInv'
  BY <1>1 DEF IInv, MainInv
<1>5. ThreadInv'
  BY <1>1, <1>2 DEF IInv, ThreadInv, Move, Elsewhere
<1>6. \A u \in Threads : Changing(u)' <=> Changing(u)
  BY <1>1, <1>2 DEF Changing, Elsewhere
<1>7. SoloInv'
  BY <1>1, <1>2, <1>6 DEF IInv, SoloInv, Solo, Changing, Adding, Elsewhere
<1>8. SoundInv'
  <2>1. \A u \in Threads : Taking(u)' <=> Taking(u)
    BY <1>1, <1>2 DEF Taking, Elsewhere
  <2>2. Waiting' = Waiting
    BY <1>1, <2>1 DEF Waiting, Behind
  <2>3. QED
    BY <1>1, <1>2, <2>1, <2>2 DEF IInv, SoundInv, OnceInv, RemoveInv, First,
                                   Adding, Taking, Elsewhere
<1>9. NoJobLost'
  <2> SUFFICES ASSUME NEW k \in asked \ risked,
                      \E u \in Threads : pc[u] \in Holding /\ job[u] = k
               PROVE  \/ \E u \in Threads : pc'[u] \in Holding /\ job'[u] = k
                      \/ k \in ended'
    BY <1>1 DEF IInv, NoJobLost, Queued, Adding, Move
  <2>1. PICK u \in Threads : pc[u] \in Holding /\ job[u] = k
    OBVIOUS
  <2>2. CASE u = t
    BY <1>2, <2>1, <2>2 DEF Move
  <2>3. CASE u # t
    BY <1>2, <2>1, <2>3
  <2>4. QED
    BY <2>2, <2>3
<1>10. NoLostWakeup'
  BY <1>1, <1>2 DEF NoLostWakeup, Alive, Move
<1>11. QED
  BY <1>3, <1>4, <1>5, <1>7, <1>8, <1>9, <1>10 DEF IInv

LEMMA WalkIInv ==
    ASSUME IInv, NEW t \in Threads, Loop(t) \/ Enter(t) \/ Check(t) \/ Get(t)
    PROVE  IInv'
<1>1. /\ TypeOK /\ job' = [job EXCEPT ![t] = job[t]] /\ job' = job
      /\ ended' = ended /\ ended \subseteq Jobs /\ isDownloading' \in BOOLEAN
      /\ UNCHANGED <<array, size, main, seen, at, asked, risked>>
  BY DEF IInv, TypeOK, Loop, Enter, Check, Get, list, call, Outside
<1>2. /\ pc[t] \in {"loop", "enter", "check", "get"}
      /\ pc'[t] \in {"none", "loop", "enter", "check", "get", "fetch"}
      /\ pc' = [pc EXCEPT ![t] = pc'[t]]
      /\ pc'[t] = "none" => size = 0
      /\ pc'[t] = "fetch" => size # 0
  BY <1>1 DEF TypeOK, Loop, Enter, Check, Get, Goto
<1>3. size # 0 => array # <<>>
  BY <1>1 DEF TypeOK
<1>4. Move(t)
  BY <1>1, <1>2, <1>3 DEF Move, Elsewhere, PC, Holding
<1>5. QED
  BY <1>4, MoveIInv

LEMMA ServeIInv ==
    ASSUME IInv, NEW t \in Threads,
           Download(t) \/ Throw(t) \/ Report(t) \/ Clear(t)
    PROVE  IInv'
<1>1. /\ TypeOK /\ ended \subseteq Jobs
      /\ pc[t] \in {"download", "report", "clear"} => job[t] \in Jobs
      /\ pc[t] = "clear" => job[t] \in ended
      /\ isDownloading \in BOOLEAN
  BY DEF IInv, TypeOK, ThreadInv
<1>2. /\ pc[t] \in {"download", "report", "clear"}
      /\ pc'[t] \in {"loop", "report", "clear"}
      /\ pc' = [pc EXCEPT ![t] = pc'[t]]
      /\ job' = [job EXCEPT ![t] = job'[t]] /\ job'[t] \in {job[t], NoJob}
      /\ pc'[t] # "loop" => job'[t] = job[t]
      /\ pc'[t] = "loop" \/ pc'[t] = "clear" => job[t] \in ended'
      /\ ended' \in {ended, ended \cup {job[t]}} /\ isDownloading' \in BOOLEAN
      /\ UNCHANGED <<array, size, main, seen, at, asked, risked>>
  BY <1>1 DEF TypeOK, Download, Throw, Report, Clear, Goto, list, call, Outside
<1>3. Move(t)
  BY <1>1, <1>2 DEF Move, Elsewhere, PC, Holding
<1>4. QED
  BY <1>3, MoveIInv

-----------------------------------------------------------------------------
(* get(0) takes what is in the first cell by then.                         *)
LEMMA FetchIInv == ASSUME IInv, NEW t \in Threads, Fetch(t) PROVE IInv'
<1>1. /\ TypeOK /\ pc[t] = "fetch" /\ pc' = [pc EXCEPT ![t] = "remove"]
      /\ job' = [job EXCEPT ![t] = array[1]]
      /\ UNCHANGED <<array, size, isDownloading, main, seen, at, asked, risked, ended>>
  BY DEF IInv, Fetch, Goto, list, call, Outside
<1>2. array # <<>> /\ asked # {} /\ 1 \in 1 .. Len(array)
      /\ array[1] \in Jobs \cup {NoJob}
  <2>1. array # <<>> /\ asked # {}
    BY <1>1 DEF IInv, ThreadInv
  <2>2. array \in Seq(Jobs \cup {NoJob})
    BY <1>1 DEF TypeOK
  <2>3. QED
    BY <2>1, <2>2
<1>3. /\ pc'[t] = "remove" /\ job'[t] = array[1]
      /\ \A u \in Threads : u # t => pc'[u] = pc[u] /\ job'[u] = job[u]
      /\ pc' \in [Threads -> PC] /\ job' \in [Threads -> Jobs \cup {NoJob}]
  BY <1>1, <1>2 DEF TypeOK, PC
<1>4. TypeOK' /\ MainInv'
  BY <1>1, <1>3 DEF IInv, TypeOK, MainInv
<1>5. ThreadInv'
  BY <1>1, <1>2, <1>3 DEF IInv, ThreadInv
<1>6. SoloInv'
  BY <1>1, <1>3 DEF IInv, SoloInv, Solo, Changing, Adding
<1>7. NoJobLost'
  BY <1>1, <1>3 DEF IInv, NoJobLost, Queued, Holding, Adding
<1>8. NoLostWakeup'
  BY <1>1, <1>3 DEF NoLostWakeup, Alive
<1>9. ASSUME risked = {} PROVE OnceInv' /\ RemoveInv'
  <2>1. Solo /\ OnceInv /\ RemoveInv
    BY <1>2, <1>9, SoundIsSolo
  <2>2. \A u \in Threads : Taking(u)' <=> Taking(u)
    BY <1>1, <1>3 DEF Taking
  <2>3. Waiting' = Waiting
    BY <1>1, <2>2 DEF Waiting, Behind
  <2>4. array[1] = NoJob \/ First(array[1])
    <3>1. /\ size \in 0 .. Len(array) /\ Len(array) \in Nat
          /\ \A u \in Threads : at[u] \in Nat /\ at[u] >= 1
      BY <1>1 DEF TypeOK
    <3>2. CASE \E u \in Threads : Taking(u)
      <4>1. PICK u \in Threads : Taking(u)
        BY <3>2
      <4>2. /\ Changing(u) /\ ~Adding /\ seen[u] = size /\ at[u] <= size
            /\ \A v \in Threads : Taking(v) => v = u
        BY <2>1, <4>1 DEF Solo, Taking, Changing, IInv, ThreadInv, TypeOK
      <4>3. Waiting = [i \in 1 .. size - 1 |->
                         array[IF at[u] <= i THEN i + 1 ELSE i]]
        BY <4>1, <4>2, WaitingTaken
      <4>4. CASE at[u] = 1
        <5>1. array[1] = NoJob \/ array[1] = job[u]
          BY <2>1, <4>1, <4>4 DEF Solo, Taking
        <5>2. QED
          BY <2>1, <4>1, <4>2, <5>1 DEF RemoveInv, First
      <4>5. CASE at[u] # 1
        <5>1. 1 \in DOMAIN Waiting /\ Waiting[1] = array[1]
          BY <3>1, <4>2, <4>3, <4>5
        <5>2. QED
          BY <2>1, <4>2, <5>1 DEF OnceInv, First
      <4>6. QED
        BY <4>4, <4>5
    <3>3. CASE \A u \in Threads : ~Taking(u)
      <4>1. Waiting = [i \in 1 .. size |-> array[i]]
        BY <3>3, WaitingFull
      <4>2. CASE size = 0
        <5>1. \/ array[1] = NoJob
              \/ main.at = "count" /\ array[1] = main.job
          BY <1>2, <2>1, <3>1, <4>2 DEF OnceInv, Solo, Adding
        <5>2. QED
          BY <4>1, <4>2, <5>1 DEF First, IInv, MainInv
      <4>3. CASE size # 0
        <5>1. 1 \in DOMAIN Waiting /\ Waiting[1] = array[1]
          BY <3>1, <4>1, <4>3
        <5>2. QED
          BY <2>1, <5>1 DEF OnceInv, First
      <4>4. QED
        BY <4>2, <4>3
    <3>4. QED
      BY <3>2, <3>3
  <2>5. OnceInv'
    BY <1>1, <2>1, <2>3 DEF OnceInv, Adding
  <2>6. \A k : First(k) => First(k)'
    BY <1>1, <2>3 DEF First, Adding
  <2>7. RemoveInv'
    BY <1>1, <1>3, <2>1, <2>2, <2>3, <2>4, <2>6 DEF RemoveInv, Taking
  <2>8. QED
    BY <2>5, <2>7
<1>10. QED
  BY <1>1, <1>4, <1>5, <1>6, <1>7, <1>8, <1>9 DEF IInv, SoundInv

(* remove() begins: another change of the list may be under way.           *)
LEMMA RemoveIInv == ASSUME IInv, NEW t \in Threads, Remove(t) PROVE IInv'
<1>1. /\ TypeOK /\ pc[t] = "remove" /\ pc' = [pc EXCEPT ![t] = "scan"]
      /\ seen' = [seen EXCEPT ![t] = size] /\ at' = [at EXCEPT ![t] = 1]
      /\ risked' = IF Adding \/ \E u \in Threads \ {t} : Changing(u)
                   THEN asked ELSE risked
      /\ UNCHANGED <<array, size, isDownloading, main, job, asked, ended>>
  BY DEF IInv, Remove, Goto, list, Outside
<1>2. /\ pc'[t] = "scan" /\ seen'[t] = size /\ at'[t] = 1
      /\ \A u \in Threads : u # t => /\ pc'[u] = pc[u] /\ seen'[u] = seen[u]
                                     /\ at'[u] = at[u]
      /\ pc' \in [Threads -> PC] /\ size \in Nat /\ size \in 0 .. Len(array)
      /\ seen' \in [Threads -> 0 .. Len(array)]
      /\ at' \in [Threads -> 1 .. Len(array) + 1]
  BY <1>1 DEF TypeOK, PC
<1>3. TypeOK' /\ MainInv'
  BY <1>1, <1>2 DEF IInv, TypeOK, MainInv
<1>4. ThreadInv'
  BY <1>1, <1>2 DEF IInv, ThreadInv
<1>5. ASSUME risked' # asked PROVE Solo'
  <2>1. ~Adding /\ ~Adding' /\ (\A u \in Threads : u # t => ~Changing(u)) /\ Solo
    BY <1>1, <1>5 DEF IInv, SoloInv, Adding
  <2>2. QED
    BY <1>1, <1>2, <2>1 DEF Solo, Changing
<1>6. NoJobLost'
  BY <1>1, <1>2 DEF IInv, NoJobLost, Queued, Holding, Adding
<1>7. NoLostWakeup'
  BY <1>1, <1>2 DEF NoLostWakeup, Alive
<1>8. ASSUME risked' = {} PROVE OnceInv' /\ RemoveInv'
  <2>1. asked # {} /\ risked = {} /\ ~Adding /\ ~Adding'
    BY <1>1, <1>8 DEF IInv, ThreadInv, Adding, TypeOK
  <2>2. OnceInv /\ RemoveInv
    BY <2>1, SoundIsSolo
  <2>3. \A u \in Threads : (Taking(u)' <=> Taking(u)) /\ (Taking(u) => u # t)
    BY <1>1, <1>2 DEF Taking
  <2>4. Waiting' = Waiting
    BY <1>1, <1>2, <2>3 DEF Waiting, Behind
  <2>5. QED
    BY <1>1, <1>2, <2>1, <2>2, <2>3, <2>4 DEF OnceInv, RemoveInv, First, Taking
<1>9. QED
  BY <1>1, <1>3, <1>4, <1>5, <1>6, <1>7, <1>8 DEF IInv, SoloInv, SoundInv

(* The search: it ends without the job, finds it, or goes on.              *)
LEMMA ScanFacts ==
    ASSUME IInv, NEW t \in Threads, Scan(t)
    PROVE  /\ TypeOK /\ pc[t] = "scan" /\ at[t] >= 1 /\ asked # {}
           /\ UNCHANGED <<array, size, isDownloading, main, job, asked, risked, ended>>
           /\ \A u \in Threads : u # t =>
                 pc'[u] = pc[u] /\ seen'[u] = seen[u] /\ at'[u] = at[u]
           /\ pc' \in [Threads -> PC]
           /\ seen' \in [Threads -> 0 .. Len(array)]
           /\ at' \in [Threads -> 1 .. Len(array) + 1]
           /\ \/ /\ at[t] > seen[t]
                 /\ pc'[t] = IF job[t] = NoJob THEN "loop" ELSE "download"
              \/ /\ at[t] <= seen[t] /\ array[at[t]] = job[t]
                 /\ pc'[t] = "shift" /\ seen'[t] = seen[t] /\ at'[t] = at[t]
              \/ /\ at[t] <= seen[t] /\ array[at[t]] # job[t]
                 /\ pc'[t] = "scan" /\ seen'[t] = seen[t] /\ at'[t] = at[t] + 1
<1>1. /\ TypeOK /\ pc[t] = "scan" /\ at[t] \in 1 .. Len(array) + 1
      /\ seen[t] \in 0 .. Len(array) /\ Len(array) \in Nat /\ asked # {}
      /\ UNCHANGED <<array, size, isDownloading, main, job, asked, risked, ended>>
  BY DEF IInv, ThreadInv, TypeOK, Scan, Return, Goto, list, Outside, call
<1>2. CASE at[t] > seen[t] /\ Return(t, "scan")
  BY <1>1, <1>2 DEF Return, Goto, TypeOK, PC
<1>3. CASE /\ at[t] <= seen[t] /\ array[at[t]] = job[t]
           /\ Goto(t, "scan", "shift") /\ UNCHANGED call
  BY <1>1, <1>3 DEF Goto, TypeOK, PC, call
<1>4. CASE /\ at[t] <= seen[t] /\ array[at[t]] # job[t]
           /\ Goto(t, "scan", "scan") /\ at' = [at EXCEPT ![t] = @ + 1]
           /\ UNCHANGED seen
  <2>1. at[t] + 1 \in 1 .. Len(array) + 1
    BY <1>1, <1>4
  <2>2. QED
    BY <1>1, <1>4, <2>1 DEF Goto, TypeOK, PC
<1>5. QED
  BY <1>2, <1>3, <1>4 DEF Scan, Outside

(* Where a search finds a job of a sound list, the job is the first.       *)
LEMMA ScanTakes ==
    ASSUME IInv, NEW t \in Threads, Scan(t), risked = {}
    PROVE  /\ ~Adding
           /\ \A u \in Threads : ~Taking(u)
           /\ Waiting = [i \in 1 .. size |-> array[i]]
           /\ IF pc'[t] = "shift"
              THEN /\ Waiting # <<>> /\ size >= 1 /\ at'[t] = 1
                   /\ array[1] = job[t] /\ job[t] \in asked
                   /\ Waiting' = [i \in 1 .. size - 1 |-> array[i + 1]]
              ELSE Waiting' = Waiting
<1>1. Solo /\ OnceInv /\ RemoveInv
  BY ScanFacts, SoundIsSolo
<1>2. /\ ~Adding /\ seen[t] = size /\ size \in Nat
      /\ \A u \in Threads : ~Taking(u) /\ (u # t => ~Changing(u))
  BY <1>1, ScanFacts DEF Solo, Changing, Taking, TypeOK
<1>3. Waiting = [i \in 1 .. size |-> array[i]]
  BY <1>2, WaitingFull
<1>4. \A u \in Threads : u # t => ~Taking(u)'
  BY <1>2, ScanFacts DEF Taking
<1>5. CASE pc'[t] = "shift"
  <2>0. /\ at[t] <= seen[t] /\ array[at[t]] = job[t] /\ at'[t] = at[t]
        /\ at[t] >= 1 /\ at[t] \in 1 .. Len(array) + 1
    BY <1>5, ScanFacts DEF TypeOK
  <2>1. /\ at[t] \in 1 .. size /\ array[at[t]] = job[t] /\ at'[t] = at[t]
        /\ at[t] \in Nat
    BY <1>2, <2>0
  <2>2. Waiting[at[t]] = job[t] /\ at[t] \in DOMAIN Waiting
    BY <1>3, <2>1
  <2>3. job[t] \in asked
    BY <1>1, <2>2 DEF OnceInv
  <2>4. job[t] # NoJob /\ asked \subseteq Jobs
    BY <2>3, ScanFacts, NoJobAssumption DEF TypeOK
  <2>5. at[t] = 1
    BY <1>1, <2>2, <2>4, ScanFacts DEF RemoveInv, First
  <2>6. Waiting # <<>>
    BY <1>3, <2>1, <2>2
  <2>7. Taking(t)' /\ at'[t] = 1 /\ array' = array /\ size' = size
    BY <1>5, <2>1, <2>5, ScanFacts DEF Taking
  <2>8. \A i \in 1 .. size - 1 : Behind(i)'
    BY <1>2, <2>7 DEF Behind
  <2>9. Waiting' = [i \in 1 .. size - 1 |-> array[i + 1]]
    BY <2>7, <2>8 DEF Waiting
  <2>10. QED
    BY <1>2, <1>3, <1>5, <2>1, <2>3, <2>5, <2>6, <2>7, <2>9
<1>6. CASE pc'[t] # "shift"
  <2>1. ~Taking(t)'
    BY <1>6, ScanFacts DEF Taking
  <2>2. Waiting' = [i \in 1 .. size |-> array[i]]
    BY <1>4, <2>1, ScanFacts DEF Waiting, Behind
  <2>3. QED
    BY <1>2, <1>3, <1>6, <2>2
<1>7. QED
  BY <1>5, <1>6

LEMMA ScanIInv == ASSUME IInv, NEW t \in Threads, Scan(t) PROVE IInv'
<1>1. TypeOK' /\ MainInv'
  BY ScanFacts DEF IInv, TypeOK, MainInv
<1>2. ThreadInv'
  BY ScanFacts DEF IInv, ThreadInv, TypeOK
<1>3. ASSUME risked # asked PROVE Solo'
  <2>1. Solo /\ Changing(t) /\ ~Adding
    BY <1>3, ScanFacts DEF IInv, SoloInv, Solo, Changing
  <2>2. /\ \A u \in Threads : u # t => ~Changing(u)
        /\ \A u \in Threads : u # t => ~Changing(u)'
        /\ ~Adding' /\ seen[t] = size
    BY <2>1, ScanFacts DEF Solo, Changing, Adding
  <2>3. main.at # "count"
    BY <2>1 DEF Adding
  <2>4. QED
    BY <2>2, <2>3, ScanFacts DEF Solo, Changing
<1>4. NoJobLost'
  <2> SUFFICES ASSUME NEW k \in asked \ risked,
                      NEW u \in Threads, pc[u] \in Holding, job[u] = k
               PROVE  pc'[u] \in Holding
    BY ScanFacts DEF IInv, NoJobLost, Queued, Adding
  <2>1. k # NoJob
    BY ScanFacts, NoJobAssumption DEF TypeOK
  <2>2. QED
    BY <2>1, ScanFacts DEF Holding
<1>5. NoLostWakeup'
  BY ScanFacts DEF NoLostWakeup, Alive
<1>6. ASSUME risked = {} PROVE OnceInv' /\ RemoveInv'
  <2>1. OnceInv /\ RemoveInv
    BY <1>6, ScanFacts, SoundIsSolo
  <2>2. ~Adding /\ ~Adding' /\ size \in Nat
    BY <1>6, ScanTakes, ScanFacts DEF Adding, TypeOK
  <2>3. CASE pc'[t] # "shift"
    <3>1. /\ Waiting' = Waiting
          /\ \A u \in Threads : ~Taking(u)'
      BY <1>6, <2>3, ScanTakes, ScanFacts DEF Taking
    <3>2. OnceInv'
      BY <2>1, <2>2, <3>1, ScanFacts DEF OnceInv
    <3>3. \A k : First(k) => First(k)'
      BY <2>2, <3>1, ScanFacts DEF First
    <3>4. \A u \in Threads : pc'[u] \in {"remove", "scan"} => pc[u] = pc'[u]
      BY <2>3, ScanFacts
    <3>5. RemoveInv'
      BY <2>1, <3>1, <3>3, <3>4, ScanFacts DEF RemoveInv
    <3>6. QED
      BY <3>2, <3>5
  <2>4. CASE pc'[t] = "shift"
    <3>1. /\ Waiting = [i \in 1 .. size |-> array[i]] /\ size >= 1
          /\ Waiting' = [i \in 1 .. size - 1 |-> array[i + 1]]
          /\ array[1] = job[t] /\ job[t] \in asked
          /\ \A u \in Threads : ~Taking(u)
      BY <1>6, <2>4, ScanTakes
    <3>2. \A i \in 1 .. size - 1 : i + 1 \in 1 .. size /\ i + 1 # 1
      BY <2>2
    <3>3. /\ \A i, k \in 1 .. size : array[i] = array[k] => i = k
          /\ \A i \in 1 .. size : array[i] \in asked
      BY <2>1, <3>1 DEF OnceInv
    <3>4. \A i, k \in 1 .. size - 1 : array[i + 1] = array[k + 1] => i = k
      <4> SUFFICES ASSUME NEW i \in 1 .. size - 1, NEW k \in 1 .. size - 1,
                          array[i + 1] = array[k + 1]
                   PROVE  i = k
        OBVIOUS
      <4>1. i + 1 = k + 1
        BY <3>2, <3>3
      <4>2. QED
        BY <2>2, <4>1
    <3>5. OnceInv'
      <4>1. /\ array' = array /\ size' = size /\ asked' = asked /\ main' = main
        BY ScanFacts
      <4>2. \A i \in DOMAIN Waiting' : Waiting'[i] \in asked
        BY <3>1, <3>2, <3>3
      <4>3. \A i, k \in DOMAIN Waiting' : Waiting'[i] = Waiting'[k] => i = k
        BY <3>1, <3>4
      <4>4. \A i \in size + 1 .. Len(array) : array[i] = NoJob
        BY <2>1, <2>2 DEF OnceInv, Adding
      <4>5. QED
        BY <2>2, <4>1, <4>2, <4>3, <4>4 DEF OnceInv
    <3>6. ASSUME NEW k, First(k) PROVE \A i \in 1 .. size - 1 : array[i + 1] # k
      BY <3>1, <3>2, <3>6 DEF First
    <3>7. First(job[t])
      BY <2>2, <3>1, <3>3 DEF First
    <3>8. RemoveInv'
      <4> SUFFICES ASSUME NEW u \in Threads
                   PROVE  /\ pc'[u] \in {"remove", "scan"}
                               => job[u] = NoJob \/ First(job[u])'
                          /\ Taking(u)' => /\ job[u] \in asked
                                           /\ \A i \in DOMAIN Waiting' : Waiting'[i] # job[u]
        BY ScanFacts DEF RemoveInv
      <4>1. CASE u = t
        BY <2>4, <3>1, <3>6, <3>7, <4>1
      <4>2. CASE u # t
        <5>1. ~Taking(u)'
          BY <3>1, <4>2, ScanFacts DEF Taking
        <5>2. pc'[u] \in {"remove", "scan"} => job[u] = NoJob \/ First(job[u])
          BY <2>1, <4>2, ScanFacts DEF RemoveInv
        <5>3. First(job[u]) => First(job[u])'
          <6>1. First(job[u]) => job[u] \in asked'
            BY ScanFacts DEF First
          <6>2. /\ DOMAIN Waiting' = 1 .. size - 1
                /\ \A i \in 1 .. size - 1 : Waiting'[i] = array[i + 1]
            BY <3>1
          <6>3. First(job[u]) => \A i \in DOMAIN Waiting' : Waiting'[i] # job[u]
            BY <3>6, <6>2
          <6>4. QED
            BY <2>2, <6>1, <6>3, ScanFacts DEF First
        <5>4. QED
          BY <5>1, <5>2, <5>3
      <4>3. QED
        BY <4>1, <4>2
    <3>9. QED
      BY <3>5, <3>8
  <2>5. QED
    BY <2>3, <2>4
<1>7. QED
  BY <1>1, <1>2, <1>3, <1>4, <1>5, <1>6, ScanFacts DEF IInv, SoloInv, SoundInv

-----------------------------------------------------------------------------
(* A cell moves down, or the last is emptied.                              *)
LEMMA ShiftFacts ==
    ASSUME IInv, NEW t \in Threads, Shift(t)
    PROVE  /\ TypeOK /\ pc[t] = "shift" /\ asked # {}
           /\ at[t] \in 1 .. seen[t] /\ seen[t] \in 0 .. Len(array)
           /\ Len(array) \in Nat /\ Len(array') = Len(array)
           /\ array' \in Seq(Jobs \cup {NoJob})
           /\ \A i \in 1 .. Len(array) : i # at[t] => array'[i] = array[i]
           /\ UNCHANGED <<size, isDownloading, main, job, seen, asked, risked, ended>>
           /\ \A u \in Threads : u # t => pc'[u] = pc[u] /\ at'[u] = at[u]
           /\ pc' \in [Threads -> PC]
           /\ at' \in [Threads -> 1 .. Len(array) + 1]
           /\ \/ /\ at[t] < seen[t] /\ pc'[t] = "shift"
                 /\ at'[t] = at[t] + 1 /\ array'[at[t]] = array[at[t] + 1]
              \/ /\ at[t] = seen[t] /\ pc'[t] = "shrink"
                 /\ at'[t] = at[t] /\ array'[at[t]] = NoJob
<1>1. /\ TypeOK /\ pc[t] = "shift" /\ asked # {}
      /\ UNCHANGED <<size, isDownloading, main, job, seen, asked, risked, ended>>
  BY DEF IInv, ThreadInv, Shift, Goto, Outside
<1>2. /\ at[t] \in 1 .. seen[t] /\ seen[t] \in 0 .. Len(array) /\ Len(array) \in Nat
      /\ array \in Seq(Jobs \cup {NoJob})
  BY <1>1 DEF IInv, ThreadInv, TypeOK
<1>3. CASE /\ at[t] < seen[t] /\ Goto(t, "shift", "shift")
           /\ array' = [array EXCEPT ![at[t]] = array[at[t] + 1]]
           /\ at' = [at EXCEPT ![t] = @ + 1]
  <2>1. at[t] \in 1 .. Len(array) /\ at[t] + 1 \in 1 .. Len(array)
        /\ at[t] + 1 \in 1 .. Len(array) + 1
    BY <1>2, <1>3
  <2>2. /\ array' \in Seq(Jobs \cup {NoJob}) /\ Len(array') = Len(array)
        /\ \A i \in 1 .. Len(array) : i # at[t] => array'[i] = array[i]
        /\ array'[at[t]] = array[at[t] + 1]
    BY <1>2, <1>3, <2>1
  <2>3. /\ pc' \in [Threads -> PC] /\ pc'[t] = "shift" /\ at'[t] = at[t] + 1
        /\ at' \in [Threads -> 1 .. Len(array) + 1]
        /\ \A u \in Threads : u # t => pc'[u] = pc[u] /\ at'[u] = at[u]
    BY <1>1, <1>3, <2>1 DEF Goto, TypeOK, PC
  <2>4. QED
    BY <1>1, <1>2, <1>3, <2>2, <2>3
<1>4. CASE /\ at[t] = seen[t] /\ Goto(t, "shift", "shrink")
           /\ array' = [array EXCEPT ![at[t]] = NoJob] /\ UNCHANGED at
  <2>1. at[t] \in 1 .. Len(array)
    BY <1>2, <1>4
  <2>2. /\ array' \in Seq(Jobs \cup {NoJob}) /\ Len(array') = Len(array)
        /\ \A i \in 1 .. Len(array) : i # at[t] => array'[i] = array[i]
        /\ array'[at[t]] = NoJob
    BY <1>2, <1>4, <2>1
  <2>3. /\ pc' \in [Threads -> PC] /\ pc'[t] = "shrink" /\ at' = at
        /\ at' \in [Threads -> 1 .. Len(array) + 1]
        /\ \A u \in Threads : u # t => pc'[u] = pc[u] /\ at'[u] = at[u]
    BY <1>1, <1>4 DEF Goto, TypeOK, PC
  <2>4. QED
    BY <1>1, <1>2, <1>4, <2>2, <2>3
<1>5. QED
  BY <1>3, <1>4 DEF Shift

LEMMA ShiftKeepsWaiting ==
    ASSUME IInv, NEW t \in Threads, Shift(t), risked = {}
    PROVE  Waiting' = Waiting /\ ~Adding
<1>1. Solo /\ Changing(t)
  BY ShiftFacts, SoundIsSolo DEF Changing
<1>2. /\ ~Adding /\ seen[t] = size /\ Taking(t) /\ Taking(t)'
      /\ \A u \in Threads : u # t => ~Taking(u) /\ ~Taking(u)'
  BY <1>1, ShiftFacts DEF Solo, Changing, Taking
<1>3. Waiting = [i \in 1 .. size - 1 |-> array[IF at[t] <= i THEN i + 1 ELSE i]]
  BY <1>2, WaitingTaken
<1>4. Waiting' = [i \in 1 .. size - 1 |-> array'[IF at'[t] <= i THEN i + 1 ELSE i]]
  <2>1. \A i \in 1 .. size - 1 : Behind(i)' <=> at'[t] <= i
    BY <1>2 DEF Behind
  <2>2. QED
    BY <1>2, <2>1, ShiftFacts DEF Waiting
<1>5. ASSUME NEW i \in 1 .. size - 1
      PROVE  array'[IF at'[t] <= i THEN i + 1 ELSE i]
               = array[IF at[t] <= i THEN i + 1 ELSE i]
  <2>1. /\ i \in 1 .. Len(array) /\ i + 1 \in 1 .. Len(array) /\ i \in Nat /\ i + 1 <= size
        /\ at[t] \in Nat /\ at'[t] \in {at[t], at[t] + 1}
    BY <1>2, ShiftFacts
  <2>2. CASE i < at[t]
    <3>1. ~(at[t] <= i) /\ ~(at'[t] <= i) /\ i # at[t]
      BY <2>1, <2>2
    <3>2. QED
      BY <2>1, <3>1, ShiftFacts
  <2>3. CASE i = at[t]
    <3>1. at[t] < seen[t]
      BY <1>2, <2>1, <2>3, ShiftFacts
    <3>2. at'[t] = at[t] + 1 /\ array'[at[t]] = array[at[t] + 1]
      BY <3>1, ShiftFacts
    <3>3. ~(at'[t] <= i) /\ at[t] <= i
      BY <2>1, <2>3, <3>2
    <3>4. QED
      BY <2>3, <3>2, <3>3
  <2>4. CASE i > at[t]
    <3>1. at[t] <= i /\ at'[t] <= i /\ i + 1 # at[t]
      BY <2>1, <2>4
    <3>2. QED
      BY <2>1, <3>1, ShiftFacts
  <2>5. QED
    BY <2>1, <2>2, <2>3, <2>4
<1>6. QED
  BY <1>2, <1>3, <1>4, <1>5

LEMMA ShiftIInv == ASSUME IInv, NEW t \in Threads, Shift(t) PROVE IInv'
<1>1. TypeOK' /\ MainInv'
  BY ShiftFacts DEF IInv, TypeOK, MainInv
<1>2. ThreadInv'
  <2>1. array # <<>> => array' # <<>>
    BY ShiftFacts DEF TypeOK
  <2>2. at[t] \in Nat /\ seen[t] \in Nat
    BY ShiftFacts DEF TypeOK
  <2>3. QED
    BY <2>1, <2>2, ShiftFacts DEF IInv, ThreadInv
<1>3. ASSUME risked # asked PROVE Solo'
  <2>1. Solo /\ Changing(t) /\ ~Adding
    BY <1>3, ShiftFacts DEF IInv, SoloInv, Solo, Changing
  <2>2. /\ \A u \in Threads : u # t => ~Changing(u)
        /\ \A u \in Threads : u # t => ~Changing(u)'
        /\ ~Adding' /\ seen[t] = size /\ main.at # "count"
    BY <2>1, ShiftFacts DEF Solo, Changing, Adding
  <2>3. pc'[t] = "shift" => at'[t] > 1 /\ array'[at'[t]] = array'[at'[t] - 1]
    <3> SUFFICES ASSUME pc'[t] = "shift" PROVE at'[t] > 1 /\ array'[at'[t]] = array'[at'[t] - 1]
      OBVIOUS
    <3>1. /\ at[t] < seen[t] /\ at'[t] = at[t] + 1
          /\ array'[at[t]] = array[at[t] + 1]
      BY ShiftFacts
    <3>2. /\ at[t] + 1 \in 1 .. Len(array) /\ at[t] + 1 # at[t]
          /\ at[t] + 1 - 1 = at[t] /\ at[t] + 1 > 1
      BY <3>1, ShiftFacts
    <3>3. array'[at[t] + 1] = array[at[t] + 1]
      BY <3>2, ShiftFacts
    <3>4. /\ at[t] \in Nat /\ at'[t] \in Nat
      BY <3>1, ShiftFacts
    <3>5. at'[t] > 1 /\ at'[t] - 1 = at[t]
      BY <3>1, <3>2, <3>4
    <3>6. array'[at'[t]] = array'[at[t] + 1]
      BY <3>1
    <3>7. QED
      BY <3>1, <3>3, <3>5, <3>6
  <2>4. pc'[t] = "shrink" => array'[at'[t]] = NoJob
    BY ShiftFacts
  <2>5. seen'[t] = size' /\ main' = main
    BY <2>2, ShiftFacts
  <2>6. QED
    BY <2>2, <2>3, <2>4, <2>5 DEF Solo, Changing
<1>4. NoJobLost'
  <2> SUFFICES ASSUME NEW k \in asked \ risked, Queued(k)
               PROVE  Queued(k)' \/ (pc'[t] \in Holding /\ job[t] = k)
    <3>1. \A u \in Threads : pc[u] \in Holding => pc'[u] \in Holding
      BY ShiftFacts DEF Holding
    <3>2. QED
      BY <3>1, ShiftFacts DEF IInv, NoJobLost, Adding
  <2>1. PICK i \in 1 .. size : array[i] = k
    BY DEF Queued
  <2>2. size \in 0 .. Len(array) /\ i \in 1 .. Len(array) /\ at[t] \in Nat
    BY ShiftFacts DEF TypeOK
  <2>3. CASE i # at[t]
    BY <2>1, <2>2, <2>3, ShiftFacts DEF Queued
  <2>4. CASE i = at[t]
    <3>1. Solo
      BY DEF IInv, SoloInv
    <3>2. array[i] = job[t] \/ (i > 1 /\ array[i] = array[i - 1])
      BY <2>4, <3>1, ShiftFacts DEF Solo
    <3>3. CASE i > 1 /\ array[i] = array[i - 1]
      <4>1. i - 1 \in 1 .. size /\ i - 1 \in 1 .. Len(array) /\ i - 1 # at[t]
        BY <2>2, <2>4, <3>3
      <4>2. array'[i - 1] = k
        BY <2>1, <3>3, <4>1, ShiftFacts
      <4>3. QED
        BY <4>1, <4>2, ShiftFacts DEF Queued
    <3>4. CASE array[i] = job[t]
      BY <2>1, <3>4, ShiftFacts DEF Holding
    <3>5. QED
      BY <3>2, <3>3, <3>4
  <2>5. QED
    BY <2>3, <2>4
<1>5. NoLostWakeup'
  BY ShiftFacts DEF NoLostWakeup, Alive
<1>6. ASSUME risked = {} PROVE OnceInv' /\ RemoveInv'
  <2>1. OnceInv /\ RemoveInv /\ Solo
    BY <1>6, ShiftFacts, SoundIsSolo
  <2>2. Waiting' = Waiting /\ ~Adding /\ ~Adding'
    BY <1>6, ShiftKeepsWaiting, ShiftFacts DEF Adding
  <2>3. \A u \in Threads : Taking(u)' <=> Taking(u)
    BY ShiftFacts DEF Taking
  <2>4. at[t] <= size /\ at[t] \in Nat /\ size \in Nat
    BY <2>1, ShiftFacts DEF Solo, Changing, TypeOK
  <2>5. OnceInv'
    <3>1. \A i \in size + 1 .. Len(array) : i \in 1 .. Len(array) /\ i # at[t]
      BY <2>4, ShiftFacts
    <3>2. \A i \in size' + 1 .. Len(array') : array'[i] = array[i]
      BY <3>1, ShiftFacts
    <3>3. QED
      BY <2>1, <2>2, <3>2, ShiftFacts DEF OnceInv
  <2>6. RemoveInv'
    <3>1. \A u \in Threads : pc'[u] \in {"remove", "scan"} => pc[u] = pc'[u]
      BY ShiftFacts
    <3>2. \A k : First(k) => First(k)'
      BY <2>2, ShiftFacts DEF First
    <3>3. QED
      BY <2>1, <2>2, <2>3, <3>1, <3>2, ShiftFacts DEF RemoveInv
  <2>7. QED
    BY <2>5, <2>6
<1>7. QED
  BY <1>1, <1>2, <1>3, <1>4, <1>5, <1>6, ShiftFacts DEF IInv, SoloInv, SoundInv

-----------------------------------------------------------------------------
(* The size is written, and the removal is over.                           *)
LEMMA ShrinkFacts ==
    ASSUME IInv, NEW t \in Threads, Shrink(t)
    PROVE  /\ TypeOK /\ pc[t] = "shrink" /\ asked # {}
           /\ at[t] = seen[t] /\ seen[t] \in 1 .. Len(array) /\ Len(array) \in Nat
           /\ size' = seen[t] - 1
           /\ UNCHANGED <<array, isDownloading, main, job, asked, risked, ended>>
           /\ \A u \in Threads : u # t =>
                 pc'[u] = pc[u] /\ at'[u] = at[u] /\ seen'[u] = seen[u]
           /\ pc' \in [Threads -> PC]
           /\ seen' \in [Threads -> 0 .. Len(array)]
           /\ at' \in [Threads -> 1 .. Len(array) + 1]
           /\ pc'[t] = IF job[t] = NoJob THEN "loop" ELSE "download"
<1>1. /\ TypeOK /\ pc[t] = "shrink" /\ asked # {} /\ size' = seen[t] - 1
      /\ at[t] = seen[t]
      /\ UNCHANGED <<array, isDownloading, main, job, asked, risked, ended>>
  BY DEF IInv, ThreadInv, Shrink, Return, Goto, Outside
<1>2. Len(array) \in Nat /\ seen[t] \in 1 .. Len(array)
  BY <1>1 DEF TypeOK
<1>3. /\ pc' = [pc EXCEPT ![t] = IF job[t] = NoJob THEN "loop" ELSE "download"]
      /\ seen' = [seen EXCEPT ![t] = 0] /\ at' = [at EXCEPT ![t] = 1]
  BY DEF Shrink, Return, Goto
<1>4. /\ pc' \in [Threads -> PC] /\ seen' \in [Threads -> 0 .. Len(array)]
      /\ at' \in [Threads -> 1 .. Len(array) + 1]
  BY <1>1, <1>2, <1>3 DEF TypeOK, PC
<1>5. QED
  BY <1>1, <1>2, <1>3, <1>4 DEF TypeOK

LEMMA ShrinkIsSolo ==
    ASSUME IInv, NEW t \in Threads, Shrink(t), risked # asked
    PROVE  /\ Solo' /\ seen[t] = size /\ array[size] = NoJob /\ ~Adding /\ ~Adding'
           /\ \A u \in Threads : ~Changing(u)' /\ (u # t => ~Changing(u))
<1>1. Solo /\ Changing(t) /\ ~Adding
  BY ShrinkFacts DEF IInv, SoloInv, Solo, Changing
<1>2. /\ \A u \in Threads : u # t => ~Changing(u)
      /\ \A u \in Threads : ~Changing(u)'
      /\ ~Adding' /\ main.at # "count"
  BY <1>1, ShrinkFacts DEF Solo, Changing, Adding
<1>3. seen[t] = size /\ array[size] = NoJob
  BY <1>1, ShrinkFacts DEF Solo, Changing
<1>4. Solo'
  BY <1>2, ShrinkFacts DEF Solo, Changing
<1>5. QED
  BY <1>1, <1>2, <1>3, <1>4

LEMMA ShrinkKeepsWaiting ==
    ASSUME IInv, NEW t \in Threads, Shrink(t), risked = {}
    PROVE  Waiting' = Waiting
<1>1. risked # asked
  BY ShrinkFacts
<1>2. /\ seen[t] = size /\ size \in Nat /\ size' = size - 1 /\ at[t] = size
      /\ \A u \in Threads : ~Taking(u)' /\ (Taking(u) => u = t)
      /\ Taking(t)
  BY <1>1, ShrinkIsSolo, ShrinkFacts DEF TypeOK, Taking, Changing
<1>3. Waiting' = [i \in 1 .. size - 1 |-> array[i]]
  BY <1>2, ShrinkFacts DEF Waiting, Behind
<1>4. Waiting = [i \in 1 .. size - 1 |-> array[IF at[t] <= i THEN i + 1 ELSE i]]
  BY <1>2, WaitingTaken
<1>5. QED
  BY <1>2, <1>3, <1>4

LEMMA ShrinkIInv == ASSUME IInv, NEW t \in Threads, Shrink(t) PROVE IInv'
<1>1. TypeOK' /\ MainInv'
  <2>1. size' \in 0 .. Len(array')
    BY ShrinkFacts
  <2>2. QED
    BY <2>1, ShrinkFacts DEF IInv, TypeOK, MainInv
<1>2. ThreadInv'
  BY ShrinkFacts DEF IInv, ThreadInv, TypeOK
<1>3. ASSUME risked # asked PROVE Solo'
  BY <1>3, ShrinkIsSolo
<1>4. NoJobLost'
  <2> SUFFICES ASSUME NEW k \in asked \ risked
               PROVE  /\ Queued(k) => Queued(k)'
                      /\ \A u \in Threads : pc[u] \in Holding /\ job[u] = k
                                              => pc'[u] \in Holding
    BY ShrinkFacts DEF IInv, NoJobLost, Adding
  <2>1. k # NoJob /\ size \in Nat /\ size' = size - 1 /\ array[size] = NoJob
    BY ShrinkIsSolo, ShrinkFacts, NoJobAssumption DEF TypeOK
  <2>2. Queued(k) => Queued(k)'
    BY <2>1, ShrinkFacts DEF Queued
  <2>3. \A u \in Threads : pc[u] \in Holding /\ job[u] = k => pc'[u] \in Holding
    BY <2>1, ShrinkFacts DEF Holding
  <2>4. QED
    BY <2>2, <2>3
<1>5. NoLostWakeup'
  BY ShrinkFacts DEF NoLostWakeup, Alive
<1>6. ASSUME risked = {} PROVE OnceInv' /\ RemoveInv'
  <2>1. OnceInv /\ RemoveInv /\ risked # asked
    BY <1>6, ShrinkFacts, SoundIsSolo
  <2>2. /\ size \in Nat /\ size' = size - 1 /\ array[size] = NoJob
        /\ ~Adding /\ ~Adding' /\ \A u \in Threads : ~Taking(u)'
    BY <2>1, ShrinkIsSolo, ShrinkFacts DEF TypeOK, Taking, Changing
  <2>3. Waiting' = Waiting
    BY <1>6, ShrinkKeepsWaiting
  <2>4. OnceInv'
    <3>1. \A i \in size' + 1 .. Len(array) : i = size \/ i \in size + 1 .. Len(array)
      BY <2>2, ShrinkFacts
    <3>2. \A i \in size' + 1 .. Len(array) : array[i] = NoJob
      BY <2>1, <2>2, <3>1 DEF OnceInv, Adding
    <3>3. QED
      BY <2>1, <2>2, <2>3, <3>2, ShrinkFacts DEF OnceInv
  <2>5. RemoveInv'
    <3>1. \A u \in Threads : pc'[u] \in {"remove", "scan"} => pc[u] = pc'[u]
      BY ShrinkFacts
    <3>2. \A k : First(k) => First(k)'
      BY <2>2, <2>3, ShrinkFacts DEF First
    <3>3. QED
      BY <2>1, <2>2, <3>1, <3>2, ShrinkFacts DEF RemoveInv
  <2>6. QED
    BY <2>3, <2>4, <2>5
<1>7. QED
  BY <1>1, <1>2, <1>3, <1>4, <1>5, <1>6, ShrinkFacts DEF IInv, SoloInv, SoundInv

LEMMA NextIInv == IInv /\ [Next]_vars => IInv'
<1> SUFFICES ASSUME IInv, [Next]_vars PROVE IInv'
  OBVIOUS
<1>1. CASE Receive \/ Put \/ Count \/ StartIfIdle
  BY <1>1, ReceiveIInv, PutIInv, CountIInv, StartIInv
<1>2. CASE \E t \in Threads : Step(t)
  <2>1. PICK t \in Threads : Step(t)
    BY <1>2
  <2>2. QED
    BY <2>1, WalkIInv, FetchIInv, RemoveIInv, ScanIInv, ShiftIInv, ShrinkIInv,
       ServeIInv DEF Step
<1>3. CASE UNCHANGED vars
  <2>1. /\ UNCHANGED <<array, size, isDownloading, main, pc, job, seen, at>>
        /\ UNCHANGED <<asked, risked, ended>>
    BY <1>3 DEF vars, list, call
  <2>2. Waiting' = Waiting
    BY <2>1 DEF Waiting, Behind, Taking
  <2>3. TypeOK' /\ MainInv' /\ ThreadInv'
    BY <2>1 DEF IInv, TypeOK, MainInv, ThreadInv
  <2>4. SoloInv'
    BY <2>1 DEF IInv, SoloInv, Solo, Adding, Changing
  <2>5. SoundInv'
    BY <2>1, <2>2 DEF IInv, SoundInv, OnceInv, RemoveInv, First, Adding, Taking
  <2>6. NoJobLost' /\ NoLostWakeup'
    BY <2>1 DEF IInv, NoJobLost, Queued, Adding, NoLostWakeup, Alive
  <2>7. QED
    BY <2>3, <2>4, <2>5, <2>6 DEF IInv
<1>4. QED
  BY <1>1, <1>2, <1>3 DEF Next

-----------------------------------------------------------------------------
(* The invariants of the download service hold in every state it reaches.  *)
THEOREM DownloaderInvariance == Spec => []IInv
<1>1. QED
  BY InitIInv, NextIInv, PTL DEF Spec

(* The variables keep their types, and no access leaves the array,         *)
(* whatever the threads do to the unsynchronized list.                     *)
THEOREM DownloaderTypeCorrect == Spec => []TypeOK
<1>1. IInv => TypeOK
  BY DEF IInv
<1>2. QED
  BY <1>1, DownloaderInvariance, PTL

(* processDownloading() and queueDownload() never make a request vanish    *)
(* but by two changes of the list that overlap: of the requests that came  *)
(* after the last such overlap, none is lost, for any number of requests   *)
(* and of threads, and whatever earlier overlaps left in the list.         *)
THEOREM JobsAreKept == Spec => []NoJobLost
<1>1. IInv => NoJobLost
  BY DEF IInv
<1>2. QED
  BY <1>1, DownloaderInvariance, PTL

(* queueDownload()'s unsynchronized check loses no wake-up: requests that  *)
(* wait with nobody to serve them are due to the flag left set.            *)
THEOREM WakeupsAreKept == Spec => []NoLostWakeup
<1>1. IInv => NoLostWakeup
  BY DEF IInv
<1>2. QED
  BY <1>1, DownloaderInvariance, PTL

-----------------------------------------------------------------------------
(* The refinement: Count appends, Scan takes the head when it finds it,    *)
(* and every other step leaves the queue and the received jobs alone, or   *)
(* is the overlap with which the promise ends.                             *)
Shown == <<Waiting, Taken, risked = {}>>

LEMMA InitQueue == Init => Abstract!Init
<1> SUFFICES ASSUME Init PROVE Abstract!Init
  OBVIOUS
<1>1. size = 0 /\ asked = {} /\ risked = {} /\ \A t \in Threads : ~Taking(t)
  BY DEF Init, Taking
<1>2. Waiting = <<>>
  BY <1>1 DEF Waiting
<1>3. Taken = {}
  BY <1>1 DEF Taken
<1>4. QED
  BY <1>1, <1>2, <1>3 DEF Abstract!Init

(* What is neither added nor found stays as it is.                         *)
LEMMA SameShown ==
    ASSUME Waiting' = Waiting, risked' = risked,
           \A j \in asked' : ~(Adding /\ main.job = j)'
                               => j \in asked /\ ~(Adding /\ main.job = j),
           \A j \in asked : ~(Adding /\ main.job = j)
                               => j \in asked' /\ ~(Adding /\ main.job = j)'
    PROVE  UNCHANGED Shown
BY DEF Shown, Taken

LEMMA MainImplements ==
    ASSUME IInv, risked = {}, risked' = {}, Receive \/ Put \/ Count \/ StartIfIdle
    PROVE  (\E j \in Jobs : Abstract!Enqueue(j)) \/ UNCHANGED Shown
<1>1. TypeOK /\ TypeOK'
  BY ReceiveIInv, PutIInv, CountIInv, StartIInv DEF IInv
<1>2. CASE Receive
  <2>1. /\ main.at = "idle" /\ main'.job = NewJob /\ main'.at = "put"
        /\ asked' = asked \cup {NewJob} /\ NewJob \notin asked
        /\ UNCHANGED <<array, size, pc, at>>
    <3>1. \E k \in Jobs : k \notin asked
      BY <1>1, <1>2 DEF Receive, TypeOK
    <3>2. QED
      BY <1>2, <3>1 DEF Receive, NewJob, list, call
  <2>2. Waiting' = Waiting
    BY <2>1 DEF Waiting, Behind, Taking
  <2>3. UNCHANGED Shown
    BY <2>1, <2>2, SameShown DEF Adding
  <2>4. QED
    BY <2>3
<1>3. CASE Put
  <2>1. /\ main.at = "put" /\ main'.at = "count" /\ main'.job = main.job
        /\ asked # {}
        /\ UNCHANGED <<size, pc, at, asked>>
    BY <1>1, <1>3 DEF Put, TypeOK, call, IInv, MainInv
  <2>2. Solo /\ size \in 0 .. Len(array) /\ main.seen = size
        /\ \A t \in Threads : ~Taking(t)
    BY <1>1, <2>1, SoundIsSolo DEF Solo, Adding, Taking, Changing, TypeOK
  <2>3. \A i \in 1 .. size : array'[i] = array[i]
    <3>1. array \in Seq(Jobs \cup {NoJob}) /\ Len(array) \in Nat
          /\ main.job \in Jobs \cup {NoJob}
      BY <1>1 DEF TypeOK
    <3>2. CASE main.seen = Len(array)
      BY <1>3, <2>2, <3>1, <3>2 DEF Put
    <3>3. CASE main.seen # Len(array)
      BY <1>3, <2>2, <3>1, <3>3 DEF Put
    <3>4. QED
      BY <3>2, <3>3
  <2>4. Waiting' = Waiting
    BY <2>1, <2>2, <2>3 DEF Waiting, Behind, Taking
  <2>5. UNCHANGED Shown
    BY <2>1, <2>4, SameShown DEF Adding
  <2>6. QED
    BY <2>5
<1>4. CASE Count
  <2> DEFINE j == main.job
  <2>1. /\ main.at = "count" /\ main'.at = "queued" /\ size' = main.seen + 1
        /\ j \in asked /\ asked # {} /\ Adding /\ ~Adding'
        /\ UNCHANGED <<array, pc, at, asked>>
    BY <1>1, <1>4 DEF Count, TypeOK, call, IInv, MainInv, Adding
  <2>2. /\ Solo /\ OnceInv /\ size \in Nat /\ size' = size + 1
        /\ array[size + 1] = j /\ \A t \in Threads : ~Taking(t)
    BY <1>1, <2>1, SoundIsSolo DEF Solo, Taking, Changing, TypeOK
  <2>3. Waiting = [i \in 1 .. size |-> array[i]]
    BY <2>2, WaitingFull
  <2>4. Waiting' = [i \in 1 .. size + 1 |-> array[i]]
    BY <2>1, <2>2 DEF Waiting, Behind, Taking
  <2>5. Waiting' = Append(Waiting, j)
    <3>1. /\ Waiting \in Seq(asked) /\ Len(Waiting) = size
      BY <2>2, <2>3 DEF OnceInv
    <3>2. /\ Waiting' \in Seq(asked) /\ Len(Waiting') = size + 1
      <4>1. \A i \in 1 .. size + 1 : array[i] \in asked
        BY <2>1, <2>2, <2>3 DEF OnceInv
      <4>2. QED
        BY <2>2, <2>4, <4>1
    <3>3. /\ Append(Waiting, j) \in Seq(asked) /\ Len(Append(Waiting, j)) = size + 1
          /\ \A i \in 1 .. size : Append(Waiting, j)[i] = Waiting[i]
          /\ Append(Waiting, j)[size + 1] = j
      BY <2>1, <3>1
    <3>4. \A i \in 1 .. size + 1 : Waiting'[i] = Append(Waiting, j)[i]
      BY <2>2, <2>3, <2>4, <3>3
    <3>5. QED
      BY <3>2, <3>3, <3>4, SeqEqual
  <2>6. Taken' = Taken /\ j \notin Taken /\ \A i \in DOMAIN Waiting : Waiting[i] # j
    <3>1. \A i \in 1 .. size : array[i] # j
      BY <2>1, <2>2, <2>3 DEF OnceInv
    <3>2. \A k : (\A i \in 1 .. size + 1 : array[i] # k)
                    <=> (\A i \in 1 .. size : array[i] # k) /\ k # j
      BY <2>2
    <3>3. Taken = {k \in asked : (\A i \in 1 .. size : array[i] # k) /\ k # j}
      BY <2>1, <2>3 DEF Taken
    <3>4. Taken' = {k \in asked : \A i \in 1 .. size + 1 : array[i] # k}
      BY <2>1, <2>4 DEF Taken
    <3>5. QED
      BY <2>3, <3>1, <3>2, <3>3, <3>4
  <2>7. j \in Jobs
    BY <1>1, <2>1 DEF TypeOK
  <2>8. QED
    BY <2>5, <2>6, <2>7 DEF Abstract!Enqueue
<1>5. CASE StartIfIdle
  <2>1. /\ ~Adding /\ ~Adding' /\ UNCHANGED <<array, size, at, asked>>
    BY <1>5 DEF StartIfIdle, Adding, NotAdding, list, call
  <2>2. \A t \in Threads : Taking(t)' <=> Taking(t)
    BY <1>1, <1>5 DEF StartIfIdle, Taking, Alive, TypeOK
  <2>3. Waiting' = Waiting
    BY <2>1, <2>2 DEF Waiting, Behind
  <2>4. QED
    BY <2>1, <2>3, SameShown
<1>6. QED
  BY <1>2, <1>3, <1>4, <1>5

LEMMA ScanDequeues ==
    ASSUME IInv, risked = {}, risked' = {}, NEW t \in Threads, Scan(t)
    PROVE  Abstract!Dequeue \/ UNCHANGED Shown
<1>1. /\ ~Adding /\ ~Adding' /\ asked' = asked /\ size \in Nat
      /\ OnceInv /\ asked # {}
  BY ScanTakes, ScanFacts, SoundIsSolo DEF Adding, TypeOK
<1>2. CASE Waiting' = Waiting
  BY <1>1, <1>2, SameShown
<1>3. CASE Waiting' # Waiting
  <2>1. /\ Waiting = [i \in 1 .. size |-> array[i]] /\ size >= 1 /\ Waiting # <<>>
        /\ Waiting' = [i \in 1 .. size - 1 |-> array[i + 1]]
    BY <1>3, ScanTakes
  <2>2. Waiting \in Seq(asked) /\ Len(Waiting) = size /\ Head(Waiting) = array[1]
    BY <1>1, <2>1 DEF OnceInv
  <2>3. Waiting' = Tail(Waiting)
    <3>1. \A i \in 1 .. size - 1 : i + 1 \in 1 .. size
      BY <1>1
    <3>2. \A i \in 1 .. size - 1 : array[i + 1] \in asked
      BY <1>1, <2>1, <3>1 DEF OnceInv
    <3>3. Waiting' \in Seq(asked) /\ Len(Waiting') = size - 1
      BY <1>1, <2>1, <3>2
    <3>4. /\ Tail(Waiting) \in Seq(asked) /\ Len(Tail(Waiting)) = size - 1
          /\ \A i \in 1 .. size - 1 : Tail(Waiting)[i] = Waiting[i + 1]
      <4> DEFINE q == Waiting
      <4>1. q \in Seq(asked) /\ q # <<>> /\ Len(q) = size
        BY <2>1, <2>2
      <4> HIDE DEF q
      <4>2. /\ Tail(q) \in Seq(asked) /\ Len(Tail(q)) = Len(q) - 1
            /\ \A i \in 1 .. Len(q) - 1 : Tail(q)[i] = q[i + 1]
        BY <4>1
      <4>3. QED
        BY <4>1, <4>2 DEF q
    <3>5. \A i \in 1 .. size - 1 : Waiting'[i] = Tail(Waiting)[i]
      BY <2>1, <3>1, <3>4
    <3>6. QED
      BY <3>3, <3>4, <3>5, SeqEqual
  <2>4. Taken' = Taken \cup {array[1]}
    <3>0. DOMAIN Waiting = 1 .. size /\ 1 \in 1 .. size
          /\ \A i \in 1 .. size : Waiting[i] = array[i]
      BY <1>1, <2>1
    <3>1. /\ \A i, k \in 1 .. size : array[i] = array[k] => i = k
          /\ array[1] \in asked
      BY <1>1, <3>0 DEF OnceInv
    <3>2. ASSUME NEW k
          PROVE  (\A i \in 1 .. size - 1 : array[i + 1] # k)
                    <=> (\A i \in 1 .. size : array[i] # k) \/ k = array[1]
      <4>1. ASSUME \A i \in 1 .. size - 1 : array[i + 1] # k, k # array[1],
                   NEW i \in 1 .. size
            PROVE  array[i] # k
        <5>1. CASE i = 1
          BY <4>1, <5>1
        <5>2. CASE i # 1
          <6>1. i - 1 \in 1 .. size - 1 /\ (i - 1) + 1 = i
            BY <1>1, <5>2
          <6>2. QED
            BY <4>1, <6>1
        <5>3. QED
          BY <5>1, <5>2
      <4>2. \A i \in 1 .. size - 1 : i + 1 \in 1 .. size /\ i + 1 # 1 /\ 1 \in 1 .. size
        BY <1>1
      <4>3. QED
        BY <3>1, <4>1, <4>2
    <3>3. Taken = {k \in asked : \A i \in 1 .. size : array[i] # k}
      BY <1>1, <2>1 DEF Taken
    <3>4. Taken' = {k \in asked : \A i \in 1 .. size - 1 : array[i + 1] # k}
      BY <1>1, <2>1 DEF Taken
    <3>5. QED
      BY <3>1, <3>2, <3>3, <3>4
  <2>5. QED
    BY <2>1, <2>2, <2>3, <2>4 DEF Abstract!Dequeue
<1>4. QED
  BY <1>2, <1>3

LEMMA OthersImplement ==
    ASSUME IInv, risked = {}, risked' = {}, NEW t \in Threads, Step(t), ~Scan(t)
    PROVE  UNCHANGED Shown
<1>1. TypeOK
  BY DEF IInv
<1>2. UNCHANGED <<main, asked>> /\ (Adding' <=> Adding)
  BY DEF Step, Loop, Enter, Check, Get, Fetch, Remove, Shift, Shrink, Download,
         Throw, Report, Clear, Outside, Adding
<1>3. Waiting' = Waiting
  <2>1. CASE Shift(t)
    BY <2>1, ShiftKeepsWaiting
  <2>2. CASE Shrink(t)
    BY <2>2, ShrinkKeepsWaiting
  <2>3. CASE ~Shift(t) /\ ~Shrink(t)
    <3>1. UNCHANGED <<array, size>>
      BY <2>3 DEF Step, Loop, Enter, Check, Get, Fetch, Remove, Download, Throw,
                  Report, Clear, list
    <3>2. \A u \in Threads : /\ Taking(u)' <=> Taking(u)
                             /\ Taking(u) => at'[u] = at[u]
      BY <1>1, <2>3 DEF Step, Loop, Enter, Check, Get, Fetch, Remove, Download,
                        Throw, Report, Clear, Goto, Taking, TypeOK, call
    <3>3. QED
      BY <3>1, <3>2 DEF Waiting, Behind
  <2>4. QED
    BY <2>1, <2>2, <2>3
<1>4. QED
  BY <1>2, <1>3, SameShown

LEMMA StepImplements == IInv /\ [Next]_vars => [Abstract!Next]_Shown
<1> SUFFICES ASSUME IInv, [Next]_vars
             PROVE  Abstract!Next \/ UNCHANGED Shown
  OBVIOUS
<1>1. CASE risked' # {}
  <2>1. Abstract!GiveUp
    BY <1>1 DEF Abstract!GiveUp
  <2>2. QED
    BY <2>1 DEF Abstract!Next
<1>2. CASE risked' = {}
  <2>1. risked = {}
    <3>1. risked' \in {risked, asked, asked'} /\ risked \subseteq asked /\ asked \subseteq asked'
      BY DEF Next, Receive, Put, Count, StartIfIdle, Step, Loop, Enter, Check,
             Get, Fetch, Remove, Scan, Shift, Shrink, Download, Throw, Report,
             Clear, Outside, vars, IInv, TypeOK
    <3>2. QED
      BY <1>2, <3>1
  <2>2. CASE Receive \/ Put \/ Count \/ StartIfIdle
    BY <1>2, <2>1, <2>2, MainImplements DEF Abstract!Next
  <2>3. CASE \E t \in Threads : Step(t)
    <3>1. PICK t \in Threads : Step(t)
      BY <2>3
    <3>2. CASE Scan(t)
      BY <1>2, <2>1, <3>2, ScanDequeues DEF Abstract!Next
    <3>3. CASE ~Scan(t)
      BY <1>2, <2>1, <3>1, <3>3, OthersImplement
    <3>4. QED
      BY <3>2, <3>3
  <2>4. CASE UNCHANGED vars
    BY <2>4, SameShown DEF vars, list, call, Waiting, Behind, Taking, Adding
  <2>5. QED
    BY <2>2, <2>3, <2>4 DEF Next
<1>3. QED
  BY <1>1, <1>2

(* The unsynchronized list is the first-in-first-out queue its client      *)
(* relies on until two changes of it overlap, and loses no request that    *)
(* comes after the last overlap, for any number of requests and of         *)
(* threads, though each change is several accesses.                        *)
THEOREM QueueRefinement == Spec => ImplementsQueue
<1>1. IInv /\ [Next]_vars => [Abstract!Next]_<<Waiting, Taken, risked = {}>>
  BY StepImplements DEF Shown
<1>2. QED
  BY InitQueue, <1>1, DownloaderInvariance, JobsAreKept, PTL
     DEF Spec, ImplementsQueue, Abstract!Spec
=============================================================================
