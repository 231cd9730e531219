------------------------- MODULE SubsonicDownloader -------------------------
(***************************************************************************)
(* Subsonic/SubsonicDownloaderService.java: download requests arrive as    *)
(* intents on the main thread, wait in an ArrayList, and are served by     *)
(* downloader threads.  A thread is started for a request that finds       *)
(* isDownloading false; the flag is set later, by the thread, and nothing  *)
(* is synchronized, neither the flag nor the list.  ArrayList (external)   *)
(* is a field size and an array, and its calls read and write them one     *)
(* after the other; one action is one access to them or to the flag, so    *)
(* the main thread and the downloader threads interleave inside the calls  *)
(* too.  The array does not grow here, and reads see the last write.       *)
(***************************************************************************)
EXTENDS Naturals, Sequences

CONSTANTS Jobs,     (* the downloadJob objects, one per intent              *)
          NoJob,    (* null: an empty cell, and a thread that holds no job  *)
          Threads   (* the downloader threads that can be alive at once     *)

ASSUME NoJobAssumption == NoJob \notin Jobs

VARIABLES
  array,          (* the cells of downloadQueue that were ever written      *)
  size,           (* how many of them the list has                          *)
  isDownloading,  (* isDownloading                                          *)
  main,           (* queueDownload(): what it does next, with which job,    *)
                  (* and the size that its add() has read                   *)
  pc,             (* what each downloader thread does next                  *)
  job,            (* processDownloading()'s local variable                  *)
  seen,           (* the size that the thread's remove() has read           *)
  at,             (* the cell it has come to                                *)
  asked,          (* history: jobs an intent was received for               *)
  risked,         (* history: those asked for by the time that a change of  *)
                  (* the list began while another was under way             *)
  ended           (* history: jobs broadcast as finished, or lost to an     *)
                  (* exception                                              *)

list == <<array, size>>
call == <<seen, at>>
vars == <<list, isDownloading, main, pc, job, call, asked, risked, ended>>

PC == {"none",      (* not started, or ended                                *)
       "loop",      (* while(!downloadQueue.isEmpty())                      *)
       "enter",     (* isDownloading = true                                 *)
       "check",     (* if(downloadQueue.isEmpty())                          *)
       "get",       (* downloadQueue.get(0): the test of the index ...      *)
       "fetch",     (* ... and the cell                                     *)
       "remove",    (* downloadQueue.remove(job): the size ...              *)
       "scan",      (* ... the search ...                                   *)
       "shift",     (* ... the cells behind moved down ...                  *)
       "shrink",    (* ... and the new size                                 *)
       "download",  (* ping, license, transfer                              *)
       "report",    (* sendBroadcast(job, true)                             *)
       "clear"}     (* isDownloading = false                                *)

Queued(j)      == \E i \in 1 .. size : array[i] = j
Alive(t)       == pc[t] # "none"
Changing(t)    == pc[t] \in {"scan", "shift", "shrink"}
Adding         == main.at \in {"put", "count"}
Holding        == {"remove", "scan", "shift", "shrink", "download", "report",
                   "clear"}

TypeOK ==
    /\ array \in Seq(Jobs \cup {NoJob})
    /\ size \in 0 .. Len(array)
    /\ isDownloading \in BOOLEAN
    /\ main \in [at : {"idle", "put", "count", "queued"},
                job : Jobs \cup {NoJob}, seen : 0 .. Len(array)]
    /\ pc \in [Threads -> PC]
    /\ job \in [Threads -> Jobs \cup {NoJob}]
    /\ seen \in [Threads -> 0 .. Len(array)]
    /\ at \in [Threads -> 1 .. Len(array) + 1]
    /\ asked \in SUBSET Jobs
    /\ risked \in SUBSET asked
    /\ ended \in SUBSET Jobs

NotAdding == [at |-> "idle", job |-> NoJob, seen |-> 0]

Init ==
    /\ array = <<>>
    /\ size = 0
    /\ isDownloading = FALSE
    /\ main = NotAdding
    /\ pc = [t \in Threads |-> "none"]
    /\ job = [t \in Threads |-> NoJob]
    /\ seen = [t \in Threads |-> 0]
    /\ at = [t \in Threads |-> 1]
    /\ asked = {}
    /\ risked = {}
    /\ ended = {}

-----------------------------------------------------------------------------
(* The main thread.  onStartCommand() announces the job and adds it to the *)
(* queue (the object is new; which of those left it is makes no            *)
(* difference): add() reads the size ...                                   *)
NewJob == CHOOSE j \in Jobs : j \notin asked

Receive ==
    /\ main.at = "idle"
    /\ asked # Jobs
    /\ asked' = asked \cup {NewJob}
    /\ risked' = IF \E t \in Threads : Changing(t) THEN asked' ELSE risked
    /\ main' = [at |-> "put", job |-> NewJob, seen |-> size]
    /\ UNCHANGED <<list, isDownloading, pc, job, call, ended>>

(* ... writes the cell behind the last ...                                 *)
Put ==
    /\ main.at = "put"
    /\ main' = [main EXCEPT !.at = "count"]
    /\ array' = IF main.seen = Len(array) THEN Append(array, main.job)
                ELSE [array EXCEPT ![main.seen + 1] = main.job]
    /\ UNCHANGED <<size, isDownloading, pc, job, call, asked, risked, ended>>

(* ... and the size.                                                       *)
Count ==
    /\ main.at = "count"
    /\ main' = [main EXCEPT !.at = "queued"]
    /\ size' = main.seen + 1
    /\ UNCHANGED <<array, isDownloading, pc, job, call, asked, risked, ended>>

(* Then it reads the flag, and starts a thread if no download seems to be  *)
(* in progress.                                                            *)
StartIfIdle ==
    /\ main.at = "queued"
    /\ main' = NotAdding
    /\ IF isDownloading
       THEN UNCHANGED pc
       ELSE \E t \in Threads : ~Alive(t) /\ pc' = [pc EXCEPT ![t] = "loop"]
    /\ UNCHANGED <<list, isDownloading, job, call, asked, risked, ended>>

-----------------------------------------------------------------------------
(* A downloader thread.                                                    *)
Goto(t, from, to) ==
    /\ pc[t] = from
    /\ pc' = [pc EXCEPT ![t] = to]

(* What most of its steps leave alone.                                     *)
Outside == <<isDownloading, main, asked, ended>>

(* Mutant: the thread leaves the last request to nobody.                   *)
LoopLeavesOne(t) ==
    /\ Goto(t, "loop", IF size <= 1 THEN "none" ELSE "enter")
    /\ UNCHANGED <<list, job, call, risked, Outside>>

Loop(t) ==
    /\ Goto(t, "loop", IF size = 0 THEN "none" ELSE "enter")
    /\ UNCHANGED <<list, job, call, risked, Outside>>

Enter(t) ==
    /\ Goto(t, "enter", "check")
    /\ isDownloading' = TRUE
    /\ UNCHANGED <<list, main, job, call, asked, risked, ended>>

(* Returning here leaves isDownloading set.                                *)
Check(t) ==
    /\ Goto(t, "check", IF size = 0 THEN "loop" ELSE "get")
    /\ UNCHANGED <<list, job, call, risked, Outside>>

(* An empty list throws IndexOutOfBoundsException, which the loop catches. *)
Get(t) ==
    /\ Goto(t, "get", IF size = 0 THEN "loop" ELSE "fetch")
    /\ UNCHANGED <<list, job, call, risked, Outside>>

(* Mutant: downloadQueue.get(size - 1), the newest request first.          *)
FetchLast(t) ==
    /\ Goto(t, "fetch", "remove")
    /\ job' = [job EXCEPT ![t] = array[IF size = 0 THEN 1 ELSE size]]
    /\ UNCHANGED <<list, call, risked, Outside>>

Fetch(t) ==
    /\ Goto(t, "fetch", "remove")
    /\ job' = [job EXCEPT ![t] = array[1]]
    /\ UNCHANGED <<list, call, risked, Outside>>

(* ArrayList.remove(Object) reads the size ...                             *)
Remove(t) ==
    /\ Goto(t, "remove", "scan")
    /\ seen' = [seen EXCEPT ![t] = size]
    /\ at' = [at EXCEPT ![t] = 1]
    /\ risked' = IF Adding \/ \E u \in Threads \ {t} : Changing(u)
                 THEN asked ELSE risked
    /\ UNCHANGED <<list, job, Outside>>

(* remove() returns.  A null job throws a NullPointerException at job.url. *)
Return(t, from) ==
    /\ Goto(t, from, IF job[t] = NoJob THEN "loop" ELSE "download")
    /\ seen' = [seen EXCEPT ![t] = 0]
    /\ at' = [at EXCEPT ![t] = 1]
    /\ UNCHANGED job

(* ... looks for the first cell that has the job (or null, of a null job), *)
(* and leaves the list alone if another thread has removed it already ...  *)
Scan(t) ==
    /\ \/ at[t] > seen[t] /\ Return(t, "scan")
       \/ /\ at[t] <= seen[t] /\ array[at[t]] = job[t]
          /\ Goto(t, "scan", "shift")
          /\ UNCHANGED <<job, call>>
       \/ /\ at[t] <= seen[t] /\ array[at[t]] # job[t]
          /\ Goto(t, "scan", "scan")
          /\ at' = [at EXCEPT ![t] = @ + 1]
          /\ UNCHANGED <<job, seen>>
    /\ UNCHANGED <<list, risked, Outside>>

(* ... moves each cell behind it down by one, and empties the last ...     *)
Shift(t) ==
    /\ \/ /\ at[t] < seen[t]
          /\ Goto(t, "shift", "shift")
          /\ array' = [array EXCEPT ![at[t]] = array[at[t] + 1]]
          /\ at' = [at EXCEPT ![t] = @ + 1]
       \/ /\ at[t] = seen[t]
          /\ Goto(t, "shift", "shrink")
          /\ array' = [array EXCEPT ![at[t]] = NoJob]
          /\ UNCHANGED at
    /\ UNCHANGED <<size, job, seen, risked, Outside>>

(* ... and writes the size.                                                *)
Shrink(t) ==
    /\ Return(t, "shrink")
    /\ size' = seen[t] - 1
    /\ UNCHANGED <<array, risked, Outside>>

(* The transfer: refused (ping or license), broken off (getFileFromUrl()   *)
(* swallows the exception) or complete.  All three go on to the same       *)
(* report, so what is left of the file is not kept here.                   *)
Download(t) ==
    /\ Goto(t, "download", "report")
    /\ UNCHANGED <<list, job, call, risked, Outside>>

(* No usable answer to the ping: getDomElement() returns null, and the     *)
(* exception that follows skips everything up to the loop.                 *)
Throw(t) ==
    /\ Goto(t, "download", "loop")
    /\ ended' = ended \cup {job[t]}
    /\ job' = [job EXCEPT ![t] = NoJob]
    /\ UNCHANGED <<list, isDownloading, main, call, asked, risked>>

Report(t) ==
    /\ Goto(t, "report", "clear")
    /\ ended' = ended \cup {job[t]}
    /\ UNCHANGED <<list, isDownloading, main, job, call, asked, risked>>

Clear(t) ==
    /\ Goto(t, "clear", "loop")
    /\ isDownloading' = FALSE
    /\ job' = [job EXCEPT ![t] = NoJob]
    /\ UNCHANGED <<list, main, call, asked, risked, ended>>

Step(t) ==
    \/ Loop(t) \/ Enter(t) \/ Check(t) \/ Get(t) \/ Fetch(t)
    \/ Remove(t) \/ Scan(t) \/ Shift(t) \/ Shrink(t)
    \/ Download(t) \/ Throw(t) \/ Report(t) \/ Clear(t)

Next ==
    \/ Receive \/ Put \/ Count \/ StartIfIdle
    \/ \E t \in Threads : Step(t)

(* The main thread returns from queueDownload(), and every thread that was *)
(* started is scheduled; a transfer ends, if only by a timeout.            *)
Fairness == /\ WF_vars(Put \/ Count \/ StartIfIdle)
            /\ \A t \in Threads : WF_vars(Step(t))

Spec     == Init /\ [][Next]_vars
FairSpec == Spec /\ Fairness

-----------------------------------------------------------------------------
(* A request that no overlap of two changes of the list put at risk does   *)
(* not vanish: it is being added, it waits, a thread holds it, it was      *)
(* reported, or an exception is on record for it - although two threads    *)
(* may get(0) and remove() the same job, one of them null, and although    *)
(* requests at risk may have left the list with holes and repetitions.     *)
NoJobLost ==
    \A j \in asked \ risked :
        \/ Adding /\ main.job = j
        \/ Queued(j)
        \/ \E t \in Threads : pc[t] \in Holding /\ job[t] = j
        \/ j \in ended

(* No lost wake-up between the unsynchronized check in queueDownload() and *)
(* the loop of a thread about to end: when requests wait and nobody is     *)
(* there to serve them, the stuck flag is to blame.                        *)
NoLostWakeup ==
    size > 0 /\ main.at = "idle" /\ (\A t \in Threads : ~Alive(t))
        => isDownloading

(* The list as its clients see it: a job is out of it once remove() has    *)
(* found it, and in it once add() has written the size.                    *)
Taking(t) == pc[t] \in {"shift", "shrink"}

Behind(i) == \E t \in Threads : Taking(t) /\ at[t] <= i

Waiting ==
    [i \in 1 .. (IF \E t \in Threads : Taking(t) THEN size - 1 ELSE size) |->
        array[IF Behind(i) THEN i + 1 ELSE i]]

(* The requests that some thread took out of it.                           *)
Taken == {j \in asked : /\ \A i \in DOMAIN Waiting : Waiting[i] # j
                        /\ ~(Adding /\ main.job = j)}

(* The queue behaves as DownloadQueue, whatever the threads do with the    *)
(* requests they got, until the first time that two changes of the         *)
(* unsynchronized list overlap; and whatever that leaves in the list, no   *)
(* request that comes after the last overlap is lost.                      *)
Abstract == INSTANCE DownloadQueue
              WITH waiting <- Waiting, taken <- Taken, sound <- risked = {}

ImplementsQueue == Abstract!Spec /\ []NoJobLost

(* A request is eventually taken, or the service is stuck for good: the    *)
(* flag set and no thread left.  So also where changes of the list         *)
(* overlapped.                                                             *)
Stuck == isDownloading /\ \A t \in Threads : ~Alive(t)

ServedOrStuck == \A j \in Jobs : Queued(j) ~> ~Queued(j) \/ Stuck
=============================================================================
