------------------------------ MODULE SeekerLog ------------------------------
(***************************************************************************)
(* The log of the seeker scheduler (seeker-scheduler/log.c) and the        *)
(* periodic state logger that opening the device starts                    *)
(* (seeker-scheduler/state.c).  Writers append blocks to a linked list,    *)
(* holding log_lock from get_log to put_log; the reader of                 *)
(* /dev/seeker_log consumes the list without the lock.                     *)
(*                                                                         *)
(* Blocks are numbered in the order of their allocation and a number is    *)
(* not used twice, so an access to a freed block is visible as such; 0 is  *)
(* the NULL pointer.  put_log's two stores are not ordered by a barrier and*)
(* take effect in either order.  External: the slab cache, the delayed     *)
(* works, and the module's use count, which keeps scheduler_exit from      *)
(* running while the device is open.                                       *)
(***************************************************************************)
EXTENDS Naturals, Sequences

CONSTANTS
    Writers,     \* contexts that log: probes on each cpu, the mutator
    Logger,      \* the keventd thread in which state_logger runs
    Readers,     \* file descriptors user space may open
    Records,     \* log records
    MaxBlocks,   \* bound: blocks the slab cache can give out, the first included
    MaxCount,    \* bound: records that fit in the buffer of one read
    EarlyOpen,   \* may the device be opened before log_init returns?
    None         \* log_lock is free

ASSUME LogAssumption ==
    /\ MaxBlocks \in Nat \ {0} /\ MaxCount \in Nat
    /\ EarlyOpen \in BOOLEAN
    /\ Logger \notin Writers /\ None \notin Writers \cup {Logger}

VARIABLES
    phase,                   \* progress of log_init and log_exit
    lock,                    \* log_lock
    start_log, current_log,  \* first and last block of the list
    first_read, dev_open,
    nalloc, live,            \* blocks given out so far, blocks not freed
    next, entry,             \* fields of the blocks
    wpc, p, tail, todo,      \* writers: control state, block, old end, stores left
    rpc, log, left,          \* readers: control state, block to free, records left
    c1,                      \* purge_log: the block it is at
    state_logger_started, logger_work, lpc,
    delivered                \* history: the records copied to user space

locks   == <<phase, lock>>
list    == <<start_log, current_log, next, entry>>
heap    == <<nalloc, live>>
writer  == <<wpc, p, tail, todo>>
reader  == <<rpc, log, left>>
slogger == <<state_logger_started, logger_work, lpc>>
vars == <<locks, list, heap, first_read, dev_open, writer, reader, c1, slogger, delivered>>

Blocks == 1 .. MaxBlocks
Contexts == Writers \cup {Logger}

TypeOK ==
    /\ phase \in {"unloaded", "registered", "allocated", "up", "exiting", "purging", "gone"}
    /\ lock \in Contexts \cup {None}
    /\ start_log \in 0 .. MaxBlocks /\ current_log \in 0 .. MaxBlocks
    /\ first_read \in BOOLEAN /\ dev_open \in BOOLEAN
    /\ nalloc \in 0 .. MaxBlocks /\ live \subseteq Blocks
    /\ next \in [Blocks -> 0 .. MaxBlocks]
    /\ entry \in [Blocks -> Records \cup {None}]
    /\ wpc \in [Contexts -> {"idle", "lock", "alloc", "put"}]
    /\ p \in [Contexts -> 0 .. MaxBlocks]
    /\ tail \in [Contexts -> 0 .. MaxBlocks]
    /\ todo \in [Contexts -> SUBSET {"next", "current"}]
    /\ rpc \in [Readers -> {"closed", "open1", "open2", "open3", "idle", "first", "ffree",
                            "loop", "copy", "take", "free", "close1", "close2"}]
    /\ log \in [Readers -> 0 .. MaxBlocks]
    /\ left \in [Readers -> 0 .. MaxCount]
    /\ c1 \in 0 .. MaxBlocks
    /\ state_logger_started \in BOOLEAN
    /\ logger_work \in {"idle", "timer", "queued"}
    /\ lpc \in {"idle", "log", "flag", "resched"}
    /\ delivered \in Seq(Records)

Init ==
    /\ phase = "unloaded" /\ lock = None
    /\ start_log = 0 /\ current_log = 0
    /\ first_read = TRUE /\ dev_open = FALSE
    /\ nalloc = 0 /\ live = {}
    /\ next = [b \in Blocks |-> 0]
    /\ entry = [b \in Blocks |-> None]
    /\ wpc = [w \in Contexts |-> "idle"]
    /\ p = [w \in Contexts |-> 0]
    /\ tail = [w \in Contexts |-> 0]
    /\ todo = [w \in Contexts |-> {}]
    /\ rpc = [r \in Readers |-> "closed"]
    /\ log = [r \in Readers |-> 0]
    /\ left = [r \in Readers |-> 0]
    /\ c1 = 0
    /\ state_logger_started = FALSE /\ logger_work = "idle" /\ lpc = "idle"
    /\ delivered = << >>

AllClosed == \A r \in Readers : rpc[r] = "closed"

-----------------------------------------------------------------------------
(* log_init: register the device, allocate the first block, publish it.    *)

LogInitRegister ==
    /\ phase = "unloaded"
    /\ phase' = "registered"
    /\ UNCHANGED <<lock, list, heap, first_read, dev_open, writer, reader, c1, slogger, delivered>>

LogInitAlloc ==
    /\ phase = "registered"
    /\ nalloc' = 1 /\ live' = {1}
    /\ current_log' = 1
    /\ phase' = "allocated"
    /\ UNCHANGED <<lock, start_log, next, entry, first_read, dev_open, writer, reader,
                   c1, slogger, delivered>>

LogInitPublish ==
    /\ phase = "allocated"
    /\ start_log' = current_log
    /\ next' = [next EXCEPT ![current_log] = 0]
    /\ first_read' = TRUE
    /\ phase' = "up"
    /\ UNCHANGED <<lock, current_log, entry, heap, dev_open, writer, reader, c1,
                   slogger, delivered>>

(* The cache or its first block cannot be had: the device is deregistered. *)
LogInitFail ==
    /\ phase = "registered" /\ AllClosed
    /\ phase' = "unloaded"
    /\ UNCHANGED <<lock, list, heap, first_read, dev_open, writer, reader, c1, slogger, delivered>>

-----------------------------------------------------------------------------
(* get_log and put_log.                                                    *)

GetLogCall(w) ==
    /\ wpc[w] = "idle"
    /\ current_log # 0
    /\ wpc' = [wpc EXCEPT ![w] = "lock"]

GetLog(w) ==
    /\ GetLogCall(w)
    /\ UNCHANGED <<locks, list, heap, first_read, dev_open, p, tail, todo, reader, c1,
                   slogger, delivered>>

(* Mutant: the lock is not waited for.                                     *)
GetLogLockRacy(w) ==
    /\ wpc[w] = "lock"
    /\ lock' = w
    /\ wpc' = [wpc EXCEPT ![w] = "alloc"]
    /\ UNCHANGED <<phase, list, heap, first_read, dev_open, p, tail, todo, reader, c1,
                   slogger, delivered>>

GetLogLock(w) ==
    /\ wpc[w] = "lock" /\ lock = None
    /\ lock' = w
    /\ wpc' = [wpc EXCEPT ![w] = "alloc"]
    /\ UNCHANGED <<phase, list, heap, first_read, dev_open, p, tail, todo, reader, c1,
                   slogger, delivered>>

(* Mutant: a writer that gets no block keeps the lock.                     *)
GetLogNullLocked(w) ==
    /\ wpc[w] = "alloc"
    /\ wpc' = [wpc EXCEPT ![w] = "idle"]
    /\ UNCHANGED <<locks, list, heap, first_read, dev_open, p, tail, todo, reader, c1,
                   slogger, delivered>>

(* The device is closed, the log was purged, or memory is short.           *)
GetLogNull(w) ==
    /\ wpc[w] = "alloc"
    /\ lock' = None
    /\ wpc' = [wpc EXCEPT ![w] = "idle"]
    /\ UNCHANGED <<phase, list, heap, first_read, dev_open, p, tail, todo, reader, c1,
                   slogger, delivered>>

(* A block is allocated and the caller fills it in.                        *)
GetLogBlock(w, rec) ==
    /\ wpc[w] = "alloc"
    /\ dev_open /\ current_log # 0 /\ nalloc < MaxBlocks
    /\ nalloc' = nalloc + 1
    /\ live' = live \cup {nalloc + 1}
    /\ next' = [next EXCEPT ![nalloc + 1] = 0]
    /\ entry' = [entry EXCEPT ![nalloc + 1] = rec]
    /\ p' = [p EXCEPT ![w] = nalloc + 1]
    /\ tail' = [tail EXCEPT ![w] = current_log]
    /\ todo' = [todo EXCEPT ![w] = {"next", "current"}]
    /\ wpc' = [wpc EXCEPT ![w] = "put"]
    /\ UNCHANGED <<locks, start_log, current_log, first_read, dev_open, reader, c1,
                   slogger, delivered>>

PutLogNext(w) ==
    /\ wpc[w] = "put" /\ "next" \in todo[w]
    /\ next' = [next EXCEPT ![tail[w]] = p[w]]
    /\ todo' = [todo EXCEPT ![w] = @ \ {"next"}]
    /\ UNCHANGED <<locks, start_log, current_log, entry, heap, first_read, dev_open,
                   wpc, p, tail, reader, c1, slogger, delivered>>

PutLogCurrent(w) ==
    /\ wpc[w] = "put" /\ "current" \in todo[w]
    /\ current_log' = p[w]
    /\ todo' = [todo EXCEPT ![w] = @ \ {"current"}]
    /\ UNCHANGED <<locks, start_log, next, entry, heap, first_read, dev_open,
                   wpc, p, tail, reader, c1, slogger, delivered>>

PutLogUnlock(w) ==
    /\ wpc[w] = "put" /\ todo[w] = {}
    /\ lock' = None
    /\ wpc' = [wpc EXCEPT ![w] = "idle"]
    /\ p' = [p EXCEPT ![w] = 0]
    /\ tail' = [tail EXCEPT ![w] = 0]
    /\ UNCHANGED <<phase, list, heap, first_read, dev_open, todo, reader, c1, slogger, delivered>>

-----------------------------------------------------------------------------
(* state_logger, start_state_logger and stop_state_logger.                 *)

LoggerTimer ==
    /\ logger_work = "timer"
    /\ logger_work' = "queued"
    /\ UNCHANGED <<locks, list, heap, first_read, dev_open, writer, reader, c1,
                   state_logger_started, lpc, delivered>>

LoggerTake ==
    /\ logger_work = "queued" /\ lpc = "idle"
    /\ logger_work' = "idle"
    /\ lpc' = "log"
    /\ UNCHANGED <<locks, list, heap, first_read, dev_open, writer, reader, c1,
                   state_logger_started, delivered>>

(* log_cpu_state of one more cpu; a cpu whose jiffy is not over is skipped.*)
LoggerLog ==
    /\ lpc = "log"
    /\ GetLogCall(Logger)
    /\ UNCHANGED <<locks, list, heap, first_read, dev_open, p, tail, todo, reader, c1,
                   slogger, delivered>>

LoggerLogged ==
    /\ lpc = "log" /\ wpc[Logger] = "idle"
    /\ lpc' = "flag"
    /\ UNCHANGED <<locks, list, heap, first_read, dev_open, writer, reader, c1,
                   state_logger_started, logger_work, delivered>>

LoggerFlag ==
    /\ lpc = "flag"
    /\ lpc' = IF state_logger_started THEN "resched" ELSE "idle"
    /\ UNCHANGED <<locks, list, heap, first_read, dev_open, writer, reader, c1,
                   state_logger_started, logger_work, delivered>>

ScheduleLogger == logger_work' = IF logger_work = "idle" THEN "timer" ELSE logger_work

LoggerResched ==
    /\ lpc = "resched"
    /\ ScheduleLogger
    /\ lpc' = "idle"
    /\ UNCHANGED <<locks, list, heap, first_read, dev_open, writer, reader, c1,
                   state_logger_started, delivered>>

(* seeker_log_open: start_state_logger schedules the work before it raises *)
(* the flag.                                                               *)
Open(r) ==
    /\ rpc[r] = "closed"
    /\ phase \in (IF EarlyOpen THEN {"registered", "allocated", "up"} ELSE {"up"})
    /\ rpc' = [rpc EXCEPT ![r] = IF state_logger_started THEN "open3" ELSE "open1"]
    /\ UNCHANGED <<locks, list, heap, first_read, dev_open, writer, log, left, c1,
                   slogger, delivered>>

OpenSchedule(r) ==
    /\ rpc[r] = "open1"
    /\ ScheduleLogger
    /\ rpc' = [rpc EXCEPT ![r] = "open2"]
    /\ UNCHANGED <<locks, list, heap, first_read, dev_open, writer, log, left, c1,
                   state_logger_started, lpc, delivered>>

OpenStarted(r) ==
    /\ rpc[r] = "open2"
    /\ state_logger_started' = TRUE
    /\ rpc' = [rpc EXCEPT ![r] = "open3"]
    /\ UNCHANGED <<locks, list, heap, first_read, dev_open, writer, log, left, c1,
                   logger_work, lpc, delivered>>

OpenDone(r) ==
    /\ rpc[r] = "open3"
    /\ dev_open' = TRUE
    /\ rpc' = [rpc EXCEPT ![r] = "idle"]
    /\ UNCHANGED <<locks, list, heap, first_read, writer, log, left, c1, slogger, delivered>>

(* seeker_log_close; stop_state_logger lowers the flag, then cancels.      *)
Close(r) ==
    /\ rpc[r] = "idle"
    /\ dev_open' = FALSE
    /\ rpc' = [rpc EXCEPT ![r] = "close1"]
    /\ UNCHANGED <<locks, list, heap, first_read, writer, log, left, c1, slogger, delivered>>

CloseStop(r) ==
    /\ rpc[r] = "close1"
    /\ state_logger_started' = FALSE
    /\ rpc' = [rpc EXCEPT ![r] = IF state_logger_started THEN "close2" ELSE "closed"]
    /\ UNCHANGED <<locks, list, heap, first_read, dev_open, writer, log, left, c1,
                   logger_work, lpc, delivered>>

CloseCancel(r) ==
    /\ rpc[r] = "close2"
    /\ logger_work' = IF logger_work = "timer" THEN "idle" ELSE logger_work
    /\ rpc' = [rpc EXCEPT ![r] = "closed"]
    /\ UNCHANGED <<locks, list, heap, first_read, dev_open, writer, log, left, c1,
                   state_logger_started, lpc, delivered>>

-----------------------------------------------------------------------------
(* seeker_log_read, with room for n records in the caller's buffer.        *)

Read(r, n) ==
    /\ rpc[r] = "idle"
    /\ start_log # 0 /\ start_log # current_log
    /\ rpc' = [rpc EXCEPT ![r] = IF first_read THEN "first" ELSE "loop"]
    /\ left' = [left EXCEPT ![r] = n]
    /\ UNCHANGED <<locks, list, heap, first_read, dev_open, writer, log, c1, slogger, delivered>>

ReadReturn(r) ==
    /\ rpc' = [rpc EXCEPT ![r] = "idle"]
    /\ left' = [left EXCEPT ![r] = 0]

(* log = start_log; start_log = start_log->next                            *)
TakeBlock(r) ==
    /\ log' = [log EXCEPT ![r] = start_log]
    /\ start_log' = next[start_log]

FreeBlock(r) ==
    /\ live' = live \ {log[r]}
    /\ log' = [log EXCEPT ![r] = 0]

ReadFirst(r) ==
    /\ rpc[r] = "first"
    /\ IF next[start_log] = 0
       THEN ReadReturn(r) /\ UNCHANGED <<log, start_log>>
       ELSE /\ TakeBlock(r)
            /\ rpc' = [rpc EXCEPT ![r] = "ffree"]
            /\ UNCHANGED left
    /\ UNCHANGED <<locks, current_log, next, entry, heap, first_read, dev_open, writer,
                   c1, slogger, delivered>>

(* Mutant: first_read is never cleared.                                    *)
ReadFirstFreeAgain(r) ==
    /\ rpc[r] = "ffree"
    /\ FreeBlock(r)
    /\ rpc' = [rpc EXCEPT ![r] = "loop"]
    /\ UNCHANGED <<locks, list, nalloc, first_read, dev_open, writer, left, c1, slogger, delivered>>

ReadFirstFree(r) ==
    /\ rpc[r] = "ffree"
    /\ FreeBlock(r)
    /\ first_read' = FALSE
    /\ rpc' = [rpc EXCEPT ![r] = "loop"]
    /\ UNCHANGED <<locks, list, nalloc, dev_open, writer, left, c1, slogger, delivered>>

(* Mutant: the end of the list is ignored.                                 *)
ReadLoopEager(r) ==
    /\ rpc[r] = "loop"
    /\ IF left[r] = 0
       THEN ReadReturn(r)
       ELSE /\ rpc' = [rpc EXCEPT ![r] = "copy"]
            /\ UNCHANGED left
    /\ UNCHANGED <<locks, list, heap, first_read, dev_open, writer, log, c1, slogger, delivered>>

ReadLoop(r) ==
    /\ rpc[r] = "loop"
    /\ IF left[r] = 0 \/ next[start_log] = 0 \/ start_log = current_log
       THEN ReadReturn(r)
       ELSE /\ rpc' = [rpc EXCEPT ![r] = "copy"]
            /\ UNCHANGED left
    /\ UNCHANGED <<locks, list, heap, first_read, dev_open, writer, log, c1, slogger, delivered>>

ReadCopy(r) ==
    /\ rpc[r] = "copy"
    /\ delivered' = Append(delivered, entry[start_log])
    /\ rpc' = [rpc EXCEPT ![r] = "take"]
    /\ UNCHANGED <<locks, list, heap, first_read, dev_open, writer, log, left, c1, slogger>>

ReadTake(r) ==
    /\ rpc[r] = "take"
    /\ TakeBlock(r)
    /\ rpc' = [rpc EXCEPT ![r] = "free"]
    /\ UNCHANGED <<locks, current_log, next, entry, heap, first_read, dev_open, writer,
                   left, c1, slogger, delivered>>

ReadFree(r) ==
    /\ rpc[r] = "free"
    /\ FreeBlock(r)
    /\ left' = [left EXCEPT ![r] = @ - 1]
    /\ rpc' = [rpc EXCEPT ![r] = "loop"]
    /\ UNCHANGED <<locks, list, nalloc, first_read, dev_open, writer, c1, slogger, delivered>>

-----------------------------------------------------------------------------
(* scheduler_exit: stop_state_logger finds the flag down, since every      *)
(* descriptor is closed; then log_exit with purge_log, while a late work   *)
(* may still be logging.                                                   *)
LogExit ==
    /\ phase = "up" /\ AllClosed
    /\ dev_open' = FALSE
    /\ phase' = "exiting"
    /\ UNCHANGED <<lock, list, heap, first_read, writer, reader, c1, slogger, delivered>>

(* Mutant: the block at the head is taken for the consumed one and skipped.*)
PurgeDetachSkipsHead ==
    /\ phase = "exiting" /\ lock = None
    /\ c1' = next[start_log]
    /\ start_log' = 0 /\ current_log' = 0
    /\ phase' = "purging"
    /\ UNCHANGED <<lock, next, entry, heap, first_read, dev_open, writer, reader,
                   slogger, delivered>>

PurgeDetach ==
    /\ phase = "exiting" /\ lock = None
    /\ c1' = start_log
    /\ start_log' = 0 /\ current_log' = 0
    /\ phase' = "purging"
    /\ UNCHANGED <<lock, next, entry, heap, first_read, dev_open, writer, reader,
                   slogger, delivered>>

PurgeFree ==
    /\ phase = "purging" /\ c1 # 0
    /\ live' = live \ {c1}
    /\ c1' = next[c1]
    /\ UNCHANGED <<locks, list, nalloc, first_read, dev_open, writer, reader, slogger, delivered>>

(* The end of purge_log, and kmem_cache_destroy.                           *)
DestroyCache ==
    /\ phase = "purging" /\ c1 = 0
    /\ phase' = "gone"
    /\ UNCHANGED <<lock, list, heap, first_read, dev_open, writer, reader, c1, slogger, delivered>>

-----------------------------------------------------------------------------
PutLog(w) == PutLogNext(w) \/ PutLogCurrent(w) \/ PutLogUnlock(w)
GetLogEnd(w) == GetLogNull(w) \/ \E rec \in Records : GetLogBlock(w, rec)
LoggerStep == LoggerTake \/ LoggerLogged \/ LoggerFlag \/ LoggerResched
OpenStep(r) == OpenSchedule(r) \/ OpenStarted(r) \/ OpenDone(r)
CloseStep(r) == CloseStop(r) \/ CloseCancel(r)
ReadStep(r) ==
    \/ ReadFirst(r) \/ ReadFirstFree(r) \/ ReadLoop(r)
    \/ ReadCopy(r) \/ ReadTake(r) \/ ReadFree(r)

(* Nothing is left to do once the module is gone.                          *)
Unloaded == phase = "gone" /\ UNCHANGED vars

Next ==
    \/ LogInitRegister \/ LogInitAlloc \/ LogInitPublish \/ LogInitFail
    \/ \E w \in Writers : GetLog(w)
    \/ \E w \in Contexts : GetLogLock(w) \/ GetLogEnd(w) \/ PutLog(w)
    \/ LoggerTimer \/ LoggerLog \/ LoggerStep
    \/ \E r \in Readers :
        \/ Open(r) \/ OpenStep(r) \/ Close(r) \/ CloseStep(r) \/ ReadStep(r)
        \/ \E n \in 0 .. MaxCount : Read(r, n)
    \/ LogExit \/ PurgeDetach \/ PurgeFree \/ DestroyCache \/ Unloaded

Spec == Init /\ [][Next]_vars

(* Threads keep running and spinlocks are handed over; the daemon keeps    *)
(* reading while it has the device open (Scripts/seekerlogd.c polls it).   *)
Fairness ==
    /\ \A w \in Contexts : SF_vars(GetLogLock(w)) /\ WF_vars(GetLogEnd(w)) /\ WF_vars(PutLog(w))
    /\ \A r \in Readers : WF_vars(ReadStep(r)) /\ SF_vars(Read(r, MaxCount))
    /\ \A r \in Readers : WF_vars(OpenStep(r)) /\ WF_vars(CloseStep(r))
    /\ WF_vars(LoggerTimer) /\ WF_vars(LoggerStep)
    /\ WF_vars(PurgeDetach \/ PurgeFree \/ DestroyCache)

FairSpec == Spec /\ Fairness

-----------------------------------------------------------------------------
(* The records that are logged and not yet delivered, as the abstract      *)
(* queue sees them: the block at start_log is a dummy until the first read *)
(* drops it, and already delivered between the copy and the take.          *)
FirstPending ==
    IF \/ first_read /\ \A r \in Readers : rpc[r] # "ffree"
       \/ \E r \in Readers : rpc[r] = "take"
    THEN start_log + 1
    ELSE start_log

PendingRecords ==
    IF start_log = 0
    THEN << >>
    ELSE [k \in 1 .. (current_log + 1 - FirstPending) |-> entry[FirstPending + k - 1]]

Queue == INSTANCE LogQueue WITH pending <- PendingRecords

(* The list of blocks, with its unlocked reader, its two unordered stores  *)
(* and its dummy first block, implements the queue: every record that was  *)
(* logged is read once, in order.                                          *)
ImplementsQueue == Queue!Spec

(* No thread touches a freed block: not the reader that follows the list   *)
(* without the lock, nor put_log linking at the old end, nor purge_log; and*)
(* no block is freed twice.                                                *)
MemorySafe ==
    /\ \A r \in Readers :
        /\ rpc[r] \in {"first", "loop", "copy", "take"} => start_log \in live
        /\ rpc[r] \in {"ffree", "free"} => log[r] \in live
    /\ \A w \in Contexts : wpc[w] = "put" /\ "next" \in todo[w] => tail[w] \in live
    /\ phase = "purging" /\ c1 # 0 => c1 \in live

(* kmem_cache_destroy finds the cache empty: log_exit has freed every block*)
(* that was allocated and not consumed, whatever the writers were doing.   *)
NothingLeaked == phase = "gone" => live = {}

(* A writer that asks for a block gets an answer: log_lock, held from      *)
(* get_log to put_log, is always given back.                               *)
WritersReturn == \A w \in Contexts : wpc[w] # "idle" ~> wpc[w] = "idle"

(* Every record that has a successor reaches user space, as long as the    *)
(* device stays open (the newest record waits for the next one).           *)
RecordsDelivered ==
    \A n \in 1 .. MaxBlocks - 2 :
        (phase = "up" /\ current_log >= n + 2) ~>
            (Len(delivered) >= n \/ phase # "up" \/ AllClosed)

(* "Flag set to 1 when the device is opened and cleared on a close", and   *)
(* get_log returns a block "when the device is opened": while some         *)
(* descriptor is open and none is being opened or closed, logging is on.   *)
OpenMeansLogging ==
    /\ \E r \in Readers : rpc[r] = "idle"
    /\ \A r \in Readers : rpc[r] \in {"idle", "closed"}
    => dev_open

(* "Indicates that the state logger is running": when the flag is up and   *)
(* no open is under way, the logger's work is pending or running.          *)
FlagMeansRunning ==
    (state_logger_started /\ \A r \in Readers : rpc[r] \in {"closed", "idle"}) =>
        (logger_work # "idle" \/ lpc # "idle")

(* "Stop the state logger task": once scheduler_exit is done nothing of it *)
(* is left to run.                                                         *)
LoggerStopped == phase = "gone" => logger_work = "idle" /\ lpc = "idle"
=============================================================================
