------------------------------- MODULE PeLog -------------------------------
(***************************************************************************)
(* The log (pe_log.cpp): its spin lock and the signal handler that logs    *)
(* and stops the event loop (server.cpp), and the rotation of its files,   *)
(* which outlive the process.                                              *)
(*                                                                         *)
(* There is one thread.  A call of pelog_printf is a frame on its stack;   *)
(* a signal puts the frame of sighdl on top, and what is below goes on     *)
(* when that is over.  Below all frames runs the event loop, which holds   *)
(* the mutex of asio's scheduler from time to time.                        *)
(***************************************************************************)
EXTENDS Integers, FiniteSets, SequencesExt

CONSTANTS
    MaxSize,    \* logrotate_filesize_kb, in units of size
    Keeps,      \* values of logrotate_history_num, which a restart may change
    Lines,      \* sizes of what one call prints
    SizeCap,    \* bound: sizes from here on are not told apart
    MaxTime,    \* bound: seconds on the clock
    MaxRotated, \* bound: rotations
    MaxSignals  \* bound: signals to one process

ASSUME LogAssumption ==
    /\ MaxSize \in Nat
    /\ SizeCap \in Nat /\ MaxSize < SizeCap
    /\ Keeps \subseteq Nat
    /\ Lines \subseteq Nat \ {0}
    /\ MaxTime \in Nat
    /\ MaxRotated \in Nat
    /\ MaxSignals \in Nat

VARIABLES
    (* On disk.                                                            *)
    disk,    \* for a history file, by its name: which rotation made it
    cur,     \* the size of the current log file, or Absent
    now,     \* the time, in seconds
    (* Of the process.                                                     *)
    up,      \* it runs
    stream,  \* "file" or "stderr"
    fsize,   \* fsize
    kept,    \* kept, the names of history files
    keep,    \* nkeep
    lock,    \* LockGuard::locked
    mutex,   \* scheduler::mutex_ is locked
    stack,   \* calls of pelog_printf, the innermost last
    stopped, \* ahosts.stop() has been called
    signals, \* how many signals have come
    (* History.                                                            *)
    rotated, \* how many rotations there have been
    twice,   \* a file has taken a name that was free again in its second
    left,    \* the files that could not be removed, since the last start
    grown,   \* the current file could not be removed, since the last start
    hung,    \* a signal came while the lock or the mutex was held
    crashed  \* kept.front() was called with kept empty, since the last start

files == <<disk, cur>>
history == <<rotated, twice, left, grown, hung, crashed>>
vars == <<files, now, up, stream, fsize, kept, keep, lock, mutex, stack, stopped,
          signals, history>>

Absent == -1

(* "log.<time>" and "log.<time>.<i - 1>", in the order of the names (which *)
(* is that of the numbers up to i = 10).                                   *)
Name == (0 .. MaxTime) \X (0 .. MaxRotated)
Before(f, g) == f[1] < g[1] \/ (f[1] = g[1] /\ f[2] < g[2])

Frame == [signal : BOOLEAN, pc : {"enter", "trim", "open", "print", "stop", "unlock"}]

TypeOK ==
    /\ DOMAIN disk \subseteq Name
    /\ \A f \in DOMAIN disk : disk[f] \in 1 .. rotated
    /\ cur \in 0 .. SizeCap \cup {Absent}
    /\ now \in 0 .. MaxTime
    /\ up \in BOOLEAN
    /\ stream \in {"file", "stderr"}
    /\ fsize \in 0 .. SizeCap
    /\ kept \in Seq(Name)
    /\ keep \in Nat
    /\ {lock, mutex} \subseteq BOOLEAN
    /\ stack \in Seq(Frame)
    /\ stopped \in BOOLEAN
    /\ signals \in 0 .. MaxSignals
    /\ rotated \in 0 .. MaxRotated
    /\ left \subseteq Name
    /\ {twice, grown, hung, crashed} \subseteq BOOLEAN

(* What is left of the process when it does not run.                       *)
Down ==
    /\ up' = FALSE
    /\ stream' = "stderr"
    /\ fsize' = 0
    /\ kept' = <<>>
    /\ lock' = FALSE
    /\ mutex' = FALSE
    /\ stack' = <<>>
    /\ stopped' = FALSE
    /\ signals' = 0
    /\ left' = {}
    /\ grown' = FALSE
    /\ hung' = FALSE

Init ==
    /\ disk = [f \in {} |-> 0]
    /\ cur = Absent
    /\ now = 0
    /\ up = FALSE
    /\ stream = "stderr"
    /\ fsize = 0
    /\ kept = <<>>
    /\ keep \in Keeps
    /\ lock = FALSE
    /\ mutex = FALSE
    /\ stack = <<>>
    /\ stopped = FALSE
    /\ signals = 0
    /\ rotated = 0
    /\ twice = FALSE
    /\ left = {}
    /\ grown = FALSE
    /\ hung = FALSE
    /\ crashed = FALSE

-----------------------------------------------------------------------------
Capped(n) == IF n < SizeCap THEN n ELSE SizeCap
Max2(a, b) == IF a > b THEN a ELSE b

(* The history files there are, from the first name to the last; first in  *)
(* the order the directory lists them, here from the last.                 *)
Listings == [1 .. Cardinality(DOMAIN disk) -> DOMAIN disk]
ScannedAny ==
    CHOOSE s \in Listings : \A i, j \in DOMAIN s : i < j => Before(s[j], s[i])
Scanned ==
    CHOOSE s \in Listings : \A i, j \in DOMAIN s : i < j => Before(s[i], s[j])

(* How many of them setrot removes.                                        *)
Surplus == Max2(0, Len(Scanned) + 1 - keep')

(* fseek and ftell of the file that is there, of size 0 if there is none;  *)
(* first not looked for.                                                   *)
SizeNone == 0
SizeFound == Max2(cur, 0)

(* setrot, at the start of the process: no file to keep, and it takes the  *)
(* front of an empty deque.                                                *)
StartCrashes ==
    /\ ~up
    /\ keep' \in Keeps /\ keep' = 0
    /\ crashed' = TRUE
    /\ left' \in SUBSET DOMAIN disk
    /\ disk' = [f \in left' |-> disk[f]]
    /\ UNCHANGED <<cur, now, up, stream, fsize, kept, lock, mutex, stack, stopped,
                   signals, rotated, twice, grown, hung>>

Start ==
    /\ ~up
    /\ keep' \in Keeps /\ keep' > 0
    /\ LET surplus == Range(SubSeq(Scanned, 1, Surplus))
       IN  \E bad \in SUBSET surplus :
             /\ left' = bad
             /\ disk' = [f \in (DOMAIN disk \ surplus) \cup bad |-> disk[f]]
    /\ kept' = SubSeq(Scanned, Surplus + 1, Len(Scanned))
    /\ \/ stream' = "file" /\ cur' = Max2(cur, 0)
       \/ stream' = "stderr" /\ cur' = cur
    /\ fsize' = SizeFound
    /\ up' = TRUE
    /\ crashed' = FALSE
    /\ UNCHANGED <<now, lock, mutex, stack, stopped, signals, rotated, twice, grown,
                   hung>>

-----------------------------------------------------------------------------
Top == stack[Len(stack)]
In(pc) == up /\ stack # <<>> /\ Top.pc = pc
GoTo(pc) == stack' = [stack EXCEPT ![Len(stack)].pc = pc]

Others == <<files, now, up, stream, fsize, kept, keep>>

(* A handler of the event loop logs.                                       *)
Log ==
    /\ up /\ stack = <<>> /\ ~stopped /\ ~mutex
    /\ stack' = <<[signal |-> FALSE, pc |-> "enter"]>>
    /\ UNCHANGED <<Others, lock, mutex, stopped, signals, history>>

(* io_service::run takes the mutex between two handlers to look at its     *)
(* queue, and what handlers call in asio takes it as well.  Whoever holds  *)
(* it does not log.                                                        *)
Take ==
    /\ up /\ stack = <<>> /\ ~mutex
    /\ mutex' = TRUE
    /\ UNCHANGED <<Others, lock, stack, stopped, signals, history>>

Release ==
    /\ up /\ stack = <<>> /\ mutex /\ ~stopped
    /\ mutex' = FALSE
    /\ UNCHANGED <<Others, lock, stack, stopped, signals, history>>

(* SIGINT or SIGTERM, wherever the thread is.                              *)
Signal ==
    /\ up
    /\ signals < MaxSignals
    /\ signals' = signals + 1
    /\ stack' = Append(stack, [signal |-> TRUE, pc |-> "enter"])
    /\ hung' = (hung \/ lock \/ mutex)
    /\ UNCHANGED <<Others, lock, mutex, stopped, rotated, twice, left, grown, crashed>>

(* LockGuard spins as long as it is locked.                                *)
Free == ~lock

(* Whether get() rotates; first whatever the stream.                       *)
Full == fsize >= MaxSize /\ stream = "file"

Enter ==
    /\ In("enter") /\ Free
    /\ lock' = TRUE
    /\ IF Full THEN GoTo("trim") /\ stream' = "stderr"
       ELSE GoTo("print") /\ UNCHANGED stream
    /\ UNCHANGED <<files, now, up, fsize, kept, keep, mutex, stopped, signals, history>>

(* The files kept and the two to come are too many; first with none to     *)
(* come.                                                                   *)
TooManyNone == Len(kept) > keep
TooMany == Len(kept) + 2 > keep

(* What is kept once the front is removed; first the front as well.        *)
DroppedNone == kept
Dropped == Tail(kept)

Trim ==
    /\ In("trim") /\ TooMany /\ kept # <<>>
    /\ kept' = Dropped
    /\ \/ /\ disk' = [f \in DOMAIN disk \ {Head(kept)} |-> disk[f]]
          /\ UNCHANGED left
       \/ /\ left' = left \cup {Head(kept)}
          /\ UNCHANGED disk
    /\ UNCHANGED <<cur, now, up, stream, fsize, keep, lock, mutex, stack, stopped,
                   signals, rotated, twice, grown, hung, crashed>>

(* The front of an empty deque is no string, and without it the deque has  *)
(* a size beyond any limit: the loop goes on until the process is ended.   *)
TrimCrashes ==
    /\ In("trim") /\ TooMany /\ kept = <<>>
    /\ crashed' = TRUE
    /\ Down
    /\ UNCHANGED <<files, now, keep, rotated, twice>>

(* The first name of this second that is not taken.                        *)
Fresh == CHOOSE f \in Name : f[1] = now /\ f \notin DOMAIN disk /\
            \A i \in 0 .. f[2] - 1 : <<now, i>> \in DOMAIN disk

Rename ==
    /\ In("trim") /\ ~TooMany /\ rotated < MaxRotated
    /\ disk' = [f \in DOMAIN disk \cup {Fresh} |->
                  IF f = Fresh THEN rotated + 1 ELSE disk[f]]
    /\ rotated' = rotated + 1
    /\ twice' = (twice \/ \E f \in DOMAIN disk : f[1] = now /\ Before(Fresh, f))
    /\ kept' = Append(kept, Fresh)
    /\ cur' = Absent
    /\ fsize' = 0
    /\ GoTo("open")
    /\ UNCHANGED <<now, up, stream, keep, lock, mutex, stopped, signals, left, grown,
                   hung, crashed>>

(* rename fails a hundred times: the current file is removed instead.      *)
GiveUp ==
    /\ In("trim") /\ ~TooMany
    /\ \/ cur' = Absent /\ UNCHANGED grown
       \/ grown' = TRUE /\ UNCHANGED cur
    /\ fsize' = 0
    /\ GoTo("open")
    /\ UNCHANGED <<disk, now, up, stream, kept, keep, lock, mutex, stopped, signals,
                   rotated, twice, left, hung, crashed>>

(* _openf; when it fails the stream stays stderr, for good.                *)
Open ==
    /\ In("open")
    /\ \/ stream' = "file" /\ cur' = Max2(cur, 0)
       \/ UNCHANGED <<stream, cur>>
    /\ GoTo("print")
    /\ UNCHANGED <<disk, now, up, fsize, kept, keep, lock, mutex, stopped, signals,
                   history>>

(* recordsize, on stderr too.                                              *)
Recorded(n) == Capped(fsize + n)

(* The rest of pelog_printf; sighdl goes on to ahosts.stop().              *)
Write ==
    /\ In("print")
    /\ \E n \in Lines :
         /\ cur' = IF stream = "file" THEN Capped(cur + n) ELSE cur
         /\ fsize' = Recorded(n)
    /\ lock' = FALSE
    /\ IF Top.signal THEN GoTo("stop") ELSE stack' = Front(stack)
    /\ UNCHANGED <<disk, now, up, stream, kept, keep, mutex, stopped, signals, history>>

(* scheduler::stop waits for the mutex, also for one the thread itself     *)
(* holds below.                                                            *)
StopEnter ==
    /\ In("stop") /\ ~mutex
    /\ mutex' = TRUE
    /\ GoTo("unlock")
    /\ UNCHANGED <<Others, lock, stopped, signals, history>>

StopLeave ==
    /\ In("unlock")
    /\ mutex' = FALSE
    /\ stopped' = TRUE
    /\ stack' = Front(stack)
    /\ UNCHANGED <<Others, lock, signals, history>>

(* io_service::run, with its mutex, finds that it was stopped; main        *)
(* returns.                                                                *)
Exit ==
    /\ up /\ stopped /\ stack = <<>> /\ mutex
    /\ Down
    /\ UNCHANGED <<files, now, keep, rotated, twice, crashed>>

(* The process is killed, or the machine stops.                            *)
Crash ==
    /\ up
    /\ Down
    /\ UNCHANGED <<files, now, keep, rotated, twice, crashed>>

Tick ==
    /\ now < MaxTime
    /\ now' = now + 1
    /\ UNCHANGED <<files, up, stream, fsize, kept, keep, lock, mutex, stack, stopped,
                   signals, history>>

Step ==
    \/ Release \/ Enter \/ Trim \/ TrimCrashes \/ Rename \/ GiveUp \/ Open \/ Write
    \/ StopEnter \/ StopLeave

Next == StartCrashes \/ Start \/ Log \/ Take \/ Signal \/ Step \/ Exit \/ Crash \/ Tick

Spec == Init /\ [][Next]_vars

(* The thread runs, and the event loop comes back to its queue: the        *)
(* heartbeat timer, and stop(), wake it.                                   *)
FairSpec == Spec /\ WF_vars(Step) /\ WF_vars(Take) /\ WF_vars(Exit)

-----------------------------------------------------------------------------
(* No history file is forgotten, and no name is kept without its file: what*)
(* a killed process or a failed removal left behind is found again.  So    *)
(* there are never more history files than the limit, except those that    *)
(* could not be removed: across rotations, kills in the middle of one, and *)
(* restarts with another limit.                                            *)
AllKept ==
    up => /\ Range(kept) = DOMAIN disk \ left
          /\ Len(kept) = Cardinality(Range(kept))
          /\ Len(kept) <= keep

(* History goes oldest first, after a restart too, when only the names tell*)
(* the age, unless a name has been taken again within its second.          *)
OldestFirst ==
    [][\A f \in DOMAIN disk \ DOMAIN disk', g \in DOMAIN disk' \ left' :
          disk[f] < disk'[g] \/ twice]_vars

(* A line is only added to a file that is not full, or empty, whoever has  *)
(* filled it, unless the file could not be removed.                        *)
FullIsRotated ==
    [][cur' > cur /\ cur # Absent => cur < MaxSize \/ cur = 0 \/ grown]_vars

(* SIGINT or SIGTERM ends the process, whatever it was doing, unless it    *)
(* interrupted a call that had the lock of the log, or asio with the mutex *)
(* of the scheduler: then the handler waits for what it interrupted.       *)
Stopping == stopped \/ \E i \in DOMAIN stack : stack[i].signal
SignalStops == Stopping ~> ~up \/ hung

-----------------------------------------------------------------------------
(* What the code says of itself and does not keep.                         *)

(* pe_log.cpp:47, of the limit: "number of history files to keep".  A      *)
(* history file goes, or one to remove is looked for, only when there are  *)
(* as many as that.                                                        *)
KeepsHistory ==
    [][DOMAIN disk \ DOMAIN disk' # {} \/ (crashed' /\ ~crashed) =>
         Cardinality(DOMAIN disk) >= keep']_vars
=============================================================================
