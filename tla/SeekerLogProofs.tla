--------------------------- MODULE SeekerLogProofs ---------------------------
(***************************************************************************)
(* For every number of writers, blocks and records, with one descriptor    *)
(* open at a time: the log is memory safe, loses no block, and is the      *)
(* first-in first-out queue LogQueue specifies.                            *)
(***************************************************************************)
EXTENDS SeekerLog, SequenceTheorems, TLAPS

(* One process reads the device, as seekerlogd does.                       *)
SingleReader == \A r, s \in Readers : r = s

Reading == {"first", "ffree", "loop", "copy", "take", "free"}

(* log_lock is held from get_log to put_log.                               *)
LockInv == \A w \in Contexts : wpc[w] \in {"alloc", "put"} <=> lock = w

(* Which pointers are set in which phase of the module.                    *)
PhaseInv ==
    /\ phase \in {"unloaded", "registered"} => nalloc = 0 /\ current_log = 0 /\ start_log = 0
    /\ phase = "allocated" => start_log = 0 /\ 1 <= current_log
    /\ phase \in {"up", "exiting"} => 1 <= start_log /\ start_log <= current_log
    /\ phase \in {"purging", "gone"} => start_log = 0 /\ current_log = 0
    /\ phase \in {"exiting", "purging", "gone"} => AllClosed /\ ~dev_open
    /\ phase # "up" => \A r \in Readers : rpc[r] \notin Reading
    /\ phase \notin {"allocated", "up", "exiting"} => \A w \in Contexts : wpc[w] # "put"
    /\ current_log <= nalloc
    /\ phase # "purging" => c1 = 0

(* Blocks are linked in the order of their allocation.                     *)
NextInv == \A b \in Blocks : next[b] \in {0, b + 1} /\ (b >= nalloc => next[b] = 0)

(* How far put_log has linked the newest block.                            *)
PutInv ==
    /\ \A w \in Contexts : wpc[w] = "put" =>
           /\ 2 <= nalloc /\ p[w] = nalloc /\ tail[w] = nalloc - 1
           /\ current_log = IF "current" \in todo[w] THEN nalloc - 1 ELSE nalloc
           /\ "next" \in todo[w] =>
                  /\ next[nalloc - 1] = 0 /\ nalloc - 1 \in live
                  /\ \A r \in Readers : rpc[r] \in {"ffree", "free"} => log[r] # nalloc - 1
    /\ phase \in {"allocated", "up", "exiting"} /\ (\A w \in Contexts : wpc[w] # "put") =>
           current_log = nalloc

(* What the reader relies on without the lock: the block behind the one it *)
(* takes exists.                                                           *)
ReaderInv ==
    \A r \in Readers :
        /\ rpc[r] \in {"first", "copy", "take"} => start_log < current_log
        /\ rpc[r] \in {"copy", "take"} => next[start_log] # 0
        /\ rpc[r] \in {"ffree", "free"} => 2 <= start_log /\ log[r] = start_log - 1
                                           /\ log[r] \in live
        /\ rpc[r] \in {"loop", "copy", "take", "free"} => ~first_read
        /\ rpc[r] \in {"copy", "take", "free"} => left[r] > 0

(* The dummy block is gone once first_read is cleared.                     *)
FirstInv ==
    ~first_read => /\ phase \notin {"unloaded", "registered", "allocated"}
                   /\ start_log = 0 \/ 2 <= start_log

(* The blocks from the head of the list on are allocated.                  *)
HeapInv ==
    /\ live \subseteq 1 .. nalloc
    /\ start_log # 0 => start_log .. nalloc \subseteq live
    /\ phase = "allocated" => 1 .. nalloc \subseteq live
    /\ c1 # 0 => c1 <= nalloc /\ c1 .. nalloc \subseteq live

EntryInv == \A b \in 2 .. nalloc : entry[b] \in Records

SafeInv ==
    /\ TypeOK /\ LockInv /\ PhaseInv /\ NextInv /\ PutInv /\ ReaderInv
    /\ FirstInv /\ HeapInv /\ EntryInv

-----------------------------------------------------------------------------
(* When the device is not opened before log_init returns, the list is whole*)
(* and no other block is allocated.                                        *)
ClosedInv == phase # "up" => AllClosed /\ ~dev_open

Linking == \E w \in Contexts : wpc[w] = "put" /\ "next" \in todo[w]

ChainInv ==
    phase \in {"up", "exiting", "purging"} =>
        \A b \in Blocks : b < nalloc => next[b] = b + 1 \/ (b = nalloc - 1 /\ Linking)

ExactInv ==
    /\ phase \in {"unloaded", "registered", "gone"} => live = {}
    /\ phase = "allocated" => nalloc = 1
    /\ phase \in {"up", "exiting"} =>
           live \subseteq start_log .. nalloc
               \cup {log[r] : r \in {q \in Readers : rpc[q] \in {"ffree", "free"}}}
    /\ phase = "purging" => IF c1 = 0 THEN live = {} ELSE live \subseteq c1 .. nalloc

DummyInv ==
    phase \in {"up", "exiting"} =>
        /\ first_read /\ (\A r \in Readers : rpc[r] # "ffree") => start_log = 1
        /\ \A r \in Readers : rpc[r] = "ffree" => first_read /\ start_log = 2
        /\ \A r \in Readers : rpc[r] = "first" => first_read

WholeInv == ClosedInv /\ ChainInv /\ ExactInv /\ DummyInv

-----------------------------------------------------------------------------
(* SafeInv, action by action.                                             *)

(* log_init registers the device.                                          *)
LEMMA LogInitRegisterSafe ==
    ASSUME SingleReader, SafeInv, LogInitRegister
    PROVE  SafeInv'
<1> USE LogAssumption DEF Blocks, Contexts
<1>1. TypeOK'
  BY DEF SafeInv, TypeOK, LogInitRegister, list, heap, writer, reader, slogger
<1>2. PhaseInv'
  BY DEF SafeInv, PhaseInv, LogInitRegister, list, heap, writer, reader,
     slogger
<1>3. PutInv'
  BY DEF SafeInv, PutInv, LogInitRegister, list, heap, writer, reader, slogger
<1>4. FirstInv'
  BY DEF SafeInv, FirstInv, LogInitRegister, list, heap, writer, reader,
     slogger
<1>5. HeapInv'
  BY DEF SafeInv, HeapInv, LogInitRegister, list, heap, writer, reader,
     slogger
<1>6. LockInv' /\ NextInv' /\ ReaderInv' /\ EntryInv'
  BY DEF SafeInv, LockInv, NextInv, ReaderInv, EntryInv, LogInitRegister,
     list, heap, writer, reader, slogger
<1> QED
  BY <1>1, <1>2, <1>3, <1>4, <1>5, <1>6 DEF SafeInv

(* log_init allocates the dummy block.                                     *)
LEMMA LogInitAllocSafe ==
    ASSUME SingleReader, SafeInv, LogInitAlloc
    PROVE  SafeInv'
<1> USE LogAssumption DEF Blocks, Contexts
<1>1. TypeOK'
  BY SMTT(40) DEF SafeInv, TypeOK, LogInitAlloc, writer, reader, slogger
<1>2. PhaseInv'
  BY DEF SafeInv, PhaseInv, LogInitAlloc, writer, reader, slogger
<1>3. NextInv'
  BY DEF SafeInv, PhaseInv, NextInv, LogInitAlloc, writer, reader, slogger
<1>4. PutInv'
  BY DEF SafeInv, PhaseInv, PutInv, LogInitAlloc, writer, reader, slogger
<1>5. ReaderInv'
  BY DEF SafeInv, PhaseInv, ReaderInv, LogInitAlloc, writer, reader, slogger
<1>6. FirstInv'
  BY DEF SafeInv, FirstInv, LogInitAlloc, writer, reader, slogger
<1>7. HeapInv'
  BY DEF SafeInv, PhaseInv, HeapInv, LogInitAlloc, writer, reader, slogger
<1>8. EntryInv'
  BY DEF SafeInv, EntryInv, LogInitAlloc, writer, reader, slogger
<1>9. LockInv'
  BY DEF SafeInv, LockInv, LogInitAlloc, writer, reader, slogger
<1> QED
  BY <1>1, <1>2, <1>3, <1>4, <1>5, <1>6, <1>7, <1>8, <1>9 DEF SafeInv

(* log_init publishes the dummy block as the list.                         *)
LEMMA LogInitPublishSafe ==
    ASSUME SingleReader, SafeInv, LogInitPublish
    PROVE  SafeInv'
<1> USE LogAssumption DEF Blocks, Contexts
<1>1. TypeOK'
  BY DEF SafeInv, TypeOK, PhaseInv, LogInitPublish, heap, writer, reader,
     slogger
<1>2. PhaseInv'
  BY DEF SafeInv, TypeOK, PhaseInv, LogInitPublish, heap, writer, reader,
     slogger
<1>3. NextInv'
  BY DEF SafeInv, NextInv, LogInitPublish, heap, writer, reader, slogger
<1>4. PutInv'
  BY DEF SafeInv, PutInv, LogInitPublish, heap, writer, reader, slogger
<1>5. ReaderInv'
  BY DEF SafeInv, PhaseInv, ReaderInv, Reading, LogInitPublish, heap, writer,
     reader, slogger
<1>6. FirstInv'
  BY DEF SafeInv, FirstInv, LogInitPublish, heap, writer, reader, slogger
<1>7. HeapInv'
  BY DEF SafeInv, TypeOK, HeapInv, LogInitPublish, heap, writer, reader,
     slogger
<1>8. LockInv' /\ EntryInv'
  BY DEF SafeInv, LockInv, EntryInv, LogInitPublish, heap, writer, reader,
     slogger
<1> QED
  BY <1>1, <1>2, <1>3, <1>4, <1>5, <1>6, <1>7, <1>8 DEF SafeInv

(* log_init cannot allocate the dummy block.                               *)
LEMMA LogInitFailSafe ==
    ASSUME SingleReader, SafeInv, LogInitFail
    PROVE  SafeInv'
<1> USE LogAssumption DEF Blocks, Contexts
<1>1. TypeOK'
  BY DEF SafeInv, TypeOK, LogInitFail, AllClosed, list, heap, writer, reader,
     slogger
<1>2. PhaseInv'
  BY DEF SafeInv, PhaseInv, LogInitFail, AllClosed, list, heap, writer,
     reader, slogger
<1>3. PutInv'
  BY DEF SafeInv, PutInv, LogInitFail, AllClosed, list, heap, writer, reader,
     slogger
<1>4. FirstInv'
  BY DEF SafeInv, FirstInv, LogInitFail, AllClosed, list, heap, writer,
     reader, slogger
<1>5. HeapInv'
  BY DEF SafeInv, HeapInv, LogInitFail, AllClosed, list, heap, writer, reader,
     slogger
<1>6. LockInv' /\ NextInv' /\ ReaderInv' /\ EntryInv'
  BY DEF SafeInv, LockInv, NextInv, ReaderInv, EntryInv, LogInitFail,
     AllClosed, list, heap, writer, reader, slogger
<1> QED
  BY <1>1, <1>2, <1>3, <1>4, <1>5, <1>6 DEF SafeInv

(* A writer calls get_log.                                                 *)
LEMMA GetLogSafe ==
    ASSUME SingleReader, SafeInv, NEW w \in Writers, GetLog(w)
    PROVE  SafeInv'
<1> USE LogAssumption DEF Blocks, Contexts
<1>1. TypeOK'
  BY SMTT(40) DEF SafeInv, TypeOK, PhaseInv, GetLog, GetLogCall, locks, list, heap,
     reader, slogger
<1>2. LockInv'
  BY DEF SafeInv, LockInv, GetLog, GetLogCall, locks, list, heap, reader,
     slogger
<1>3. PhaseInv'
  BY DEF SafeInv, PhaseInv, AllClosed, GetLog, GetLogCall, locks, list, heap,
     reader, slogger
<1>4. PutInv'
  BY DEF SafeInv, PutInv, GetLog, GetLogCall, locks, list, heap, reader,
     slogger
<1>5. NextInv' /\ ReaderInv' /\ FirstInv' /\ HeapInv' /\ EntryInv'
  BY DEF SafeInv, NextInv, ReaderInv, FirstInv, HeapInv, EntryInv, GetLog,
     GetLogCall, locks, list, heap, reader, slogger
<1> QED
  BY <1>1, <1>2, <1>3, <1>4, <1>5 DEF SafeInv

(* get_log takes log_lock.                                                 *)
LEMMA GetLogLockSafe ==
    ASSUME SingleReader, SafeInv, NEW w \in Contexts, GetLogLock(w)
    PROVE  SafeInv'
<1> USE LogAssumption DEF Blocks, Contexts
<1>1. TypeOK'
  BY SMTT(40) DEF SafeInv, TypeOK, GetLogLock, list, heap, reader, slogger
<1>2. LockInv'
  BY DEF SafeInv, TypeOK, LockInv, GetLogLock, list, heap, reader, slogger
<1>3. PhaseInv'
  BY DEF SafeInv, PhaseInv, AllClosed, GetLogLock, list, heap, reader, slogger
<1>4. PutInv'
  BY DEF SafeInv, PutInv, GetLogLock, list, heap, reader, slogger
<1>5. NextInv' /\ ReaderInv' /\ FirstInv' /\ HeapInv' /\ EntryInv'
  BY DEF SafeInv, NextInv, ReaderInv, FirstInv, HeapInv, EntryInv, GetLogLock,
     list, heap, reader, slogger
<1> QED
  BY <1>1, <1>2, <1>3, <1>4, <1>5 DEF SafeInv

(* get_log returns no block.                                               *)
LEMMA GetLogNullSafe ==
    ASSUME SingleReader, SafeInv, NEW w \in Contexts, GetLogNull(w)
    PROVE  SafeInv'
<1> USE LogAssumption DEF Blocks, Contexts
<1>1. TypeOK'
  BY SMTT(40) DEF SafeInv, TypeOK, GetLogNull, list, heap, reader, slogger
<1>2. LockInv'
  BY DEF SafeInv, TypeOK, LockInv, GetLogNull, list, heap, reader, slogger
<1>3. PhaseInv'
  BY DEF SafeInv, PhaseInv, AllClosed, GetLogNull, list, heap, reader, slogger
<1>4. PutInv'
  BY DEF SafeInv, PutInv, GetLogNull, list, heap, reader, slogger
<1>5. NextInv' /\ ReaderInv' /\ FirstInv' /\ HeapInv' /\ EntryInv'
  BY DEF SafeInv, NextInv, ReaderInv, FirstInv, HeapInv, EntryInv, GetLogNull,
     list, heap, reader, slogger
<1> QED
  BY <1>1, <1>2, <1>3, <1>4, <1>5 DEF SafeInv

(* get_log allocates a block and fills it in.                              *)
LEMMA GetLogBlockSafe ==
    ASSUME SingleReader, SafeInv, NEW w \in Contexts, NEW rec \in Records,
           GetLogBlock(w, rec)
    PROVE  SafeInv'
<1> USE LogAssumption DEF Blocks, Contexts
<1>1. TypeOK'
  <2>1. nalloc + 1 \in Blocks
    BY DEF SafeInv, TypeOK, GetLogBlock
  <2>2. next' \in [Blocks -> 0 .. MaxBlocks] /\ entry' \in [Blocks -> Records \cup {None}]
    BY SMTT(40), <2>1 DEF SafeInv, TypeOK, GetLogBlock
  <2>3. p' \in [Contexts -> 0 .. MaxBlocks] /\ tail' \in [Contexts -> 0 .. MaxBlocks]
    BY <2>1 DEF SafeInv, TypeOK, GetLogBlock
  <2>4. /\ wpc' \in [Contexts -> {"idle", "lock", "alloc", "put"}]
        /\ todo' \in [Contexts -> SUBSET {"next", "current"}]
    BY DEF SafeInv, TypeOK, GetLogBlock
  <2>5. nalloc' \in 0 .. MaxBlocks /\ live' \subseteq Blocks
    BY <2>1 DEF SafeInv, TypeOK, GetLogBlock
  <2> QED
    BY SMTT(40), <2>2, <2>3, <2>4, <2>5 DEF SafeInv, TypeOK, GetLogBlock, locks, reader, slogger
<1>2. LockInv'
  BY DEF SafeInv, LockInv, GetLogBlock, locks, reader, slogger
<1>3. PhaseInv'
  BY DEF SafeInv, TypeOK, PhaseInv, GetLogBlock, locks, reader, slogger
<1>4. NextInv'
  BY DEF SafeInv, TypeOK, NextInv, GetLogBlock, locks, reader, slogger
<1>5. PutInv'
  BY SMTT(40) DEF SafeInv, TypeOK, LockInv, PhaseInv, NextInv, PutInv, ReaderInv,
     HeapInv, GetLogBlock, locks, reader, slogger
<1>6. ReaderInv'
  BY SMTT(40) DEF SafeInv, TypeOK, PhaseInv, ReaderInv, GetLogBlock, locks, reader,
     slogger
<1>7. HeapInv'
  BY DEF SafeInv, TypeOK, HeapInv, GetLogBlock, locks, reader, slogger
<1>8. EntryInv'
  BY DEF SafeInv, TypeOK, EntryInv, GetLogBlock, locks, reader, slogger
<1>9. FirstInv'
  BY DEF SafeInv, FirstInv, GetLogBlock, locks, reader, slogger
<1> QED
  BY <1>1, <1>2, <1>3, <1>4, <1>5, <1>6, <1>7, <1>8, <1>9 DEF SafeInv

(* put_log links the block.                                                *)
LEMMA PutLogNextSafe ==
    ASSUME SingleReader, SafeInv, NEW w \in Contexts, PutLogNext(w)
    PROVE  SafeInv'
<1> USE LogAssumption DEF Blocks, Contexts
<1>1. TypeOK'
  BY ZenonT(60) DEF SafeInv, TypeOK, PutLogNext, locks, heap, reader, slogger
<1>2. NextInv'
  <2>1. tail[w] = nalloc - 1 /\ p[w] = nalloc /\ nalloc \in Blocks /\ nalloc - 1 \in Blocks
    BY DEF SafeInv, TypeOK, PutInv, PutLogNext
  <2>2. next' = [next EXCEPT ![nalloc - 1] = nalloc] /\ nalloc' = nalloc
    BY <2>1 DEF PutLogNext, heap
  <2>3. next \in [Blocks -> 0 .. MaxBlocks]
    BY DEF SafeInv, TypeOK
  <2> QED
    BY <2>1, <2>2, <2>3 DEF SafeInv, NextInv
<1>3. PutInv'
  BY DEF SafeInv, TypeOK, LockInv, PutInv, PutLogNext, locks, heap, reader,
     slogger
<1>4. ReaderInv'
  BY DEF SafeInv, PutInv, ReaderInv, PutLogNext, locks, heap, reader, slogger
<1>5. LockInv' /\ PhaseInv' /\ FirstInv' /\ HeapInv' /\ EntryInv'
  BY DEF SafeInv, LockInv, PhaseInv, FirstInv, HeapInv, EntryInv, AllClosed,
     Reading, PutLogNext, locks, heap, reader, slogger
<1> QED
  BY <1>1, <1>2, <1>3, <1>4, <1>5 DEF SafeInv

(* put_log makes the block the last one.                                   *)
LEMMA PutLogCurrentSafe ==
    ASSUME SingleReader, SafeInv, NEW w \in Contexts, PutLogCurrent(w)
    PROVE  SafeInv'
<1> USE LogAssumption DEF Blocks, Contexts
<1>1. TypeOK'
  BY SMTT(40) DEF SafeInv, TypeOK, PutLogCurrent, locks, heap, reader, slogger
<1>2. PhaseInv'
  BY SMTT(40) DEF SafeInv, TypeOK, PhaseInv, PutInv, AllClosed, PutLogCurrent, locks,
     heap, reader, slogger
<1>3. PutInv'
  BY DEF SafeInv, TypeOK, LockInv, PutInv, PutLogCurrent, locks, heap, reader,
     slogger
<1>4. ReaderInv'
  BY DEF SafeInv, TypeOK, PutInv, ReaderInv, PutLogCurrent, locks, heap,
     reader, slogger
<1>5. LockInv' /\ NextInv' /\ FirstInv' /\ HeapInv' /\ EntryInv'
  BY DEF SafeInv, LockInv, NextInv, FirstInv, HeapInv, EntryInv,
     PutLogCurrent, locks, heap, reader, slogger
<1> QED
  BY <1>1, <1>2, <1>3, <1>4, <1>5 DEF SafeInv

(* put_log gives log_lock back.                                            *)
LEMMA PutLogUnlockSafe ==
    ASSUME SingleReader, SafeInv, NEW w \in Contexts, PutLogUnlock(w)
    PROVE  SafeInv'
<1> USE LogAssumption DEF Blocks, Contexts
<1>1. TypeOK'
  BY DEF SafeInv, TypeOK, PhaseInv, PutLogUnlock, list, heap, reader, slogger
<1>2. LockInv'
  BY DEF SafeInv, TypeOK, LockInv, PutLogUnlock, list, heap, reader, slogger
<1>3. PhaseInv'
  BY DEF SafeInv, PhaseInv, AllClosed, PutLogUnlock, list, heap, reader,
     slogger
<1>4. PutInv'
  BY DEF SafeInv, TypeOK, PutInv, PutLogUnlock, list, heap, reader, slogger
<1>5. NextInv' /\ ReaderInv' /\ FirstInv' /\ HeapInv' /\ EntryInv'
  BY DEF SafeInv, NextInv, ReaderInv, FirstInv, HeapInv, EntryInv,
     PutLogUnlock, list, heap, reader, slogger
<1> QED
  BY <1>1, <1>2, <1>3, <1>4, <1>5 DEF SafeInv

(* The timer of the state logger expires.                                  *)
LEMMA LoggerTimerSafe ==
    ASSUME SingleReader, SafeInv, LoggerTimer
    PROVE  SafeInv'
<1> USE LogAssumption DEF Blocks, Contexts
<1>1. TypeOK'
  BY SMTT(40) DEF SafeInv, TypeOK, LoggerTimer, locks, list, heap, writer, reader
<1>2. LockInv' /\ PhaseInv' /\ NextInv' /\ PutInv' /\ ReaderInv' /\ FirstInv' /\ HeapInv' /\ EntryInv'
  BY DEF SafeInv, LockInv, PhaseInv, NextInv, PutInv, ReaderInv, FirstInv,
     HeapInv, EntryInv, AllClosed, Reading, LoggerTimer, locks, list, heap,
     writer, reader
<1> QED
  BY <1>1, <1>2 DEF SafeInv

(* The state logger's work starts.                                         *)
LEMMA LoggerTakeSafe ==
    ASSUME SingleReader, SafeInv, LoggerTake
    PROVE  SafeInv'
<1> USE LogAssumption DEF Blocks, Contexts
<1>1. TypeOK'
  BY DEF SafeInv, TypeOK, LoggerTake, locks, list, heap, writer, reader
<1>2. LockInv' /\ PhaseInv' /\ NextInv' /\ PutInv' /\ ReaderInv' /\ FirstInv' /\ HeapInv' /\ EntryInv'
  BY DEF SafeInv, LockInv, PhaseInv, NextInv, PutInv, ReaderInv, FirstInv,
     HeapInv, EntryInv, AllClosed, Reading, LoggerTake, locks, list, heap,
     writer, reader
<1> QED
  BY <1>1, <1>2 DEF SafeInv

(* The state logger calls get_log.                                         *)
LEMMA LoggerLogSafe ==
    ASSUME SingleReader, SafeInv, LoggerLog
    PROVE  SafeInv'
<1> USE LogAssumption DEF Blocks, Contexts
<1>1. TypeOK'
  BY SMTT(40) DEF SafeInv, TypeOK, LoggerLog, GetLogCall, locks, list, heap, reader,
     slogger
<1>2. LockInv'
  BY DEF SafeInv, LockInv, LoggerLog, GetLogCall, locks, list, heap, reader,
     slogger
<1>3. PhaseInv'
  BY DEF SafeInv, PhaseInv, AllClosed, LoggerLog, GetLogCall, locks, list,
     heap, reader, slogger
<1>4. PutInv'
  BY DEF SafeInv, PutInv, LoggerLog, GetLogCall, locks, list, heap, reader,
     slogger
<1>5. NextInv' /\ ReaderInv' /\ FirstInv' /\ HeapInv' /\ EntryInv'
  BY DEF SafeInv, NextInv, ReaderInv, FirstInv, HeapInv, EntryInv, LoggerLog,
     GetLogCall, locks, list, heap, reader, slogger
<1> QED
  BY <1>1, <1>2, <1>3, <1>4, <1>5 DEF SafeInv

(* The state logger has logged.                                            *)
LEMMA LoggerLoggedSafe ==
    ASSUME SingleReader, SafeInv, LoggerLogged
    PROVE  SafeInv'
<1> USE LogAssumption DEF Blocks, Contexts
<1>1. TypeOK'
  BY DEF SafeInv, TypeOK, LoggerLogged, locks, list, heap, writer, reader
<1>2. LockInv' /\ PhaseInv' /\ NextInv' /\ PutInv' /\ ReaderInv' /\ FirstInv' /\ HeapInv' /\ EntryInv'
  BY DEF SafeInv, LockInv, PhaseInv, NextInv, PutInv, ReaderInv, FirstInv,
     HeapInv, EntryInv, AllClosed, Reading, LoggerLogged, locks, list, heap,
     writer, reader
<1> QED
  BY <1>1, <1>2 DEF SafeInv

(* The state logger looks at its flag.                                     *)
LEMMA LoggerFlagSafe ==
    ASSUME SingleReader, SafeInv, LoggerFlag
    PROVE  SafeInv'
<1> USE LogAssumption DEF Blocks, Contexts
<1>1. TypeOK'
  BY SMTT(40) DEF SafeInv, TypeOK, LoggerFlag, locks, list, heap, writer, reader
<1>2. LockInv' /\ PhaseInv' /\ NextInv' /\ PutInv' /\ ReaderInv' /\ FirstInv' /\ HeapInv' /\ EntryInv'
  BY DEF SafeInv, LockInv, PhaseInv, NextInv, PutInv, ReaderInv, FirstInv,
     HeapInv, EntryInv, AllClosed, Reading, LoggerFlag, locks, list, heap,
     writer, reader
<1> QED
  BY <1>1, <1>2 DEF SafeInv

(* The state logger schedules itself again.                                *)
LEMMA LoggerReschedSafe ==
    ASSUME SingleReader, SafeInv, LoggerResched
    PROVE  SafeInv'
<1> USE LogAssumption DEF Blocks, Contexts
<1>1. TypeOK'
  BY SMTT(40) DEF SafeInv, TypeOK, LoggerResched, ScheduleLogger, locks, list, heap,
     writer, reader
<1>2. LockInv' /\ PhaseInv' /\ NextInv' /\ PutInv' /\ ReaderInv' /\ FirstInv' /\ HeapInv' /\ EntryInv'
  BY DEF SafeInv, LockInv, PhaseInv, NextInv, PutInv, ReaderInv, FirstInv,
     HeapInv, EntryInv, AllClosed, Reading, LoggerResched, ScheduleLogger,
     locks, list, heap, writer, reader
<1> QED
  BY <1>1, <1>2 DEF SafeInv

(* The device is opened.                                                   *)
LEMMA OpenSafe ==
    ASSUME SingleReader, SafeInv, NEW r \in Readers, Open(r)
    PROVE  SafeInv'
<1> USE LogAssumption DEF Blocks, Contexts
<1>1. TypeOK'
  BY SMTT(40) DEF SafeInv, TypeOK, PhaseInv, Open, locks, list, heap, writer, slogger
<1>2. PhaseInv'
  BY DEF SafeInv, PhaseInv, Reading, Open, locks, list, heap, writer, slogger
<1>3. PutInv'
  BY DEF SafeInv, PutInv, Open, locks, list, heap, writer, slogger
<1>4. ReaderInv'
  BY DEF SafeInv, ReaderInv, Open, locks, list, heap, writer, slogger
<1>5. LockInv' /\ NextInv' /\ FirstInv' /\ HeapInv' /\ EntryInv'
  BY DEF SafeInv, LockInv, NextInv, FirstInv, HeapInv, EntryInv, Open, locks,
     list, heap, writer, slogger
<1> QED
  BY <1>1, <1>2, <1>3, <1>4, <1>5 DEF SafeInv

(* Opening schedules the state logger.                                     *)
LEMMA OpenScheduleSafe ==
    ASSUME SingleReader, SafeInv, NEW r \in Readers, OpenSchedule(r)
    PROVE  SafeInv'
<1> USE LogAssumption DEF Blocks, Contexts
<1>1. TypeOK'
  BY SMTT(40) DEF SafeInv, TypeOK, ReaderInv, PhaseInv, OpenSchedule, ScheduleLogger,
     locks, list, heap, writer
<1>2. PhaseInv'
  BY DEF SafeInv, PhaseInv, Reading, AllClosed, OpenSchedule, ScheduleLogger,
     locks, list, heap, writer
<1>3. PutInv'
  BY DEF SafeInv, PutInv, OpenSchedule, ScheduleLogger, locks, list, heap,
     writer
<1>4. ReaderInv'
  BY DEF SafeInv, ReaderInv, OpenSchedule, ScheduleLogger, locks, list, heap,
     writer
<1>5. LockInv' /\ NextInv' /\ FirstInv' /\ HeapInv' /\ EntryInv'
  BY DEF SafeInv, LockInv, NextInv, FirstInv, HeapInv, EntryInv, OpenSchedule,
     ScheduleLogger, locks, list, heap, writer
<1> QED
  BY <1>1, <1>2, <1>3, <1>4, <1>5 DEF SafeInv

(* Opening sets the state logger's flag.                                   *)
LEMMA OpenStartedSafe ==
    ASSUME SingleReader, SafeInv, NEW r \in Readers, OpenStarted(r)
    PROVE  SafeInv'
<1> USE LogAssumption DEF Blocks, Contexts
<1>1. TypeOK'
  BY SMTT(40) DEF SafeInv, TypeOK, OpenStarted, locks, list, heap, writer
<1>2. PhaseInv'
  BY DEF SafeInv, PhaseInv, Reading, AllClosed, OpenStarted, locks, list,
     heap, writer
<1>3. PutInv'
  BY DEF SafeInv, PutInv, OpenStarted, locks, list, heap, writer
<1>4. ReaderInv'
  BY DEF SafeInv, ReaderInv, OpenStarted, locks, list, heap, writer
<1>5. LockInv' /\ NextInv' /\ FirstInv' /\ HeapInv' /\ EntryInv'
  BY DEF SafeInv, LockInv, NextInv, FirstInv, HeapInv, EntryInv, OpenStarted,
     locks, list, heap, writer
<1> QED
  BY <1>1, <1>2, <1>3, <1>4, <1>5 DEF SafeInv

(* Opening ends.                                                           *)
LEMMA OpenDoneSafe ==
    ASSUME SingleReader, SafeInv, NEW r \in Readers, OpenDone(r)
    PROVE  SafeInv'
<1> USE LogAssumption DEF Blocks, Contexts
<1>1. TypeOK'
  BY SMTT(40) DEF SafeInv, TypeOK, OpenDone, locks, list, heap, writer, slogger
<1>2. PhaseInv'
  BY DEF SafeInv, PhaseInv, Reading, AllClosed, OpenDone, locks, list, heap,
     writer, slogger
<1>3. PutInv'
  BY DEF SafeInv, PutInv, OpenDone, locks, list, heap, writer, slogger
<1>4. ReaderInv'
  BY DEF SafeInv, ReaderInv, OpenDone, locks, list, heap, writer, slogger
<1>5. LockInv' /\ NextInv' /\ FirstInv' /\ HeapInv' /\ EntryInv'
  BY DEF SafeInv, LockInv, NextInv, FirstInv, HeapInv, EntryInv, OpenDone,
     locks, list, heap, writer, slogger
<1> QED
  BY <1>1, <1>2, <1>3, <1>4, <1>5 DEF SafeInv

(* The device is closed.                                                   *)
LEMMA CloseSafe ==
    ASSUME SingleReader, SafeInv, NEW r \in Readers, Close(r)
    PROVE  SafeInv'
<1> USE LogAssumption DEF Blocks, Contexts
<1>1. TypeOK'
  BY ZenonT(60) DEF SafeInv, TypeOK, Close, locks, list, heap, writer, slogger
<1>2. PhaseInv'
  BY DEF SafeInv, PhaseInv, Reading, AllClosed, Close, locks, list, heap,
     writer, slogger
<1>3. PutInv'
  BY DEF SafeInv, PutInv, Close, locks, list, heap, writer, slogger
<1>4. ReaderInv'
  BY DEF SafeInv, ReaderInv, Close, locks, list, heap, writer, slogger
<1>5. LockInv' /\ NextInv' /\ FirstInv' /\ HeapInv' /\ EntryInv'
  BY DEF SafeInv, LockInv, NextInv, FirstInv, HeapInv, EntryInv, Close, locks,
     list, heap, writer, slogger
<1> QED
  BY <1>1, <1>2, <1>3, <1>4, <1>5 DEF SafeInv

(* Closing clears the state logger's flag.                                 *)
LEMMA CloseStopSafe ==
    ASSUME SingleReader, SafeInv, NEW r \in Readers, CloseStop(r)
    PROVE  SafeInv'
<1> USE LogAssumption DEF Blocks, Contexts
<1>1. TypeOK'
  BY ZenonT(60) DEF SafeInv, TypeOK, PhaseInv, CloseStop, locks, list, heap, writer
<1>2. PhaseInv'
  BY DEF SafeInv, PhaseInv, Reading, AllClosed, CloseStop, locks, list, heap,
     writer
<1>3. PutInv'
  BY DEF SafeInv, PutInv, CloseStop, locks, list, heap, writer
<1>4. ReaderInv'
  BY DEF SafeInv, ReaderInv, CloseStop, locks, list, heap, writer
<1>5. LockInv' /\ NextInv' /\ FirstInv' /\ HeapInv' /\ EntryInv'
  BY DEF SafeInv, LockInv, NextInv, FirstInv, HeapInv, EntryInv, CloseStop,
     locks, list, heap, writer
<1> QED
  BY <1>1, <1>2, <1>3, <1>4, <1>5 DEF SafeInv

(* Closing cancels the state logger's work.                                *)
LEMMA CloseCancelSafe ==
    ASSUME SingleReader, SafeInv, NEW r \in Readers, CloseCancel(r)
    PROVE  SafeInv'
<1> USE LogAssumption DEF Blocks, Contexts
<1>1. TypeOK'
  BY SMTT(40) DEF SafeInv, TypeOK, CloseCancel, locks, list, heap, writer
<1>2. PhaseInv'
  BY DEF SafeInv, PhaseInv, Reading, AllClosed, CloseCancel, locks, list,
     heap, writer
<1>3. PutInv'
  BY DEF SafeInv, PutInv, CloseCancel, locks, list, heap, writer
<1>4. ReaderInv'
  BY DEF SafeInv, ReaderInv, CloseCancel, locks, list, heap, writer
<1>5. LockInv' /\ NextInv' /\ FirstInv' /\ HeapInv' /\ EntryInv'
  BY DEF SafeInv, LockInv, NextInv, FirstInv, HeapInv, EntryInv, CloseCancel,
     locks, list, heap, writer
<1> QED
  BY <1>1, <1>2, <1>3, <1>4, <1>5 DEF SafeInv

(* A read begins.                                                          *)
LEMMA ReadSafe ==
    ASSUME SingleReader, SafeInv, NEW r \in Readers, NEW n \in 0 .. MaxCount,
           Read(r, n)
    PROVE  SafeInv'
<1> USE LogAssumption DEF Blocks, Contexts
<1>1. TypeOK'
  BY DEF SafeInv, TypeOK, PhaseInv, Read, locks, list, heap, writer, slogger
<1>2. PhaseInv'
  BY DEF SafeInv, TypeOK, PhaseInv, AllClosed, Read, locks, list, heap,
     writer, slogger
<1>3. PutInv'
  BY DEF SafeInv, PutInv, Read, locks, list, heap, writer, slogger
<1>4. ReaderInv'
  BY DEF SafeInv, TypeOK, PhaseInv, ReaderInv, Read, locks, list, heap,
     writer, slogger
<1>5. LockInv' /\ NextInv' /\ FirstInv' /\ HeapInv' /\ EntryInv'
  BY DEF SafeInv, LockInv, NextInv, FirstInv, HeapInv, EntryInv, Read, locks,
     list, heap, writer, slogger
<1> QED
  BY <1>1, <1>2, <1>3, <1>4, <1>5 DEF SafeInv

(* The first read drops the dummy block.                                   *)
LEMMA ReadFirstSafe ==
    ASSUME SingleReader, SafeInv, NEW r \in Readers, ReadFirst(r)
    PROVE  SafeInv'
<1> USE LogAssumption DEF Blocks, Contexts
<1>1. TypeOK'
  <2>1. start_log \in Blocks
    BY DEF SafeInv, TypeOK, PhaseInv, Reading, ReadFirst
  <2>2. next[start_log] \in 0 .. MaxBlocks
    BY <2>1 DEF SafeInv, TypeOK
  <2>3. start_log' \in 0 .. MaxBlocks /\ log' \in [Readers -> 0 .. MaxBlocks]
    BY ZenonT(60), <2>2 DEF SafeInv, TypeOK, ReadFirst, TakeBlock, ReadReturn
  <2>4. left' \in [Readers -> 0 .. MaxCount]
    <3>1. left' = left \/ left' = [left EXCEPT ![r] = 0]
      BY DEF ReadFirst, ReadReturn
    <3>2. left \in [Readers -> 0 .. MaxCount]
      BY DEF SafeInv, TypeOK
    <3> QED
      BY <3>1, <3>2
  <2>5. rpc' \in [Readers -> {"closed", "open1", "open2", "open3", "idle", "first", "ffree",
                              "loop", "copy", "take", "free", "close1", "close2"}]
    BY ZenonT(60) DEF SafeInv, TypeOK, ReadFirst, TakeBlock, ReadReturn
  <2> QED
    BY SMTT(40), <2>3, <2>4, <2>5 DEF SafeInv, TypeOK, ReadFirst, locks, heap, writer, slogger
<1>2. PhaseInv'
  BY SMTT(40) DEF SafeInv, TypeOK, PhaseInv, NextInv, ReaderInv, Reading, ReadFirst,
     ReadReturn, TakeBlock, locks, heap, writer, slogger
<1>3. PutInv'
  BY SMTT(40) DEF SafeInv, TypeOK, NextInv, PutInv, ReaderInv, ReadFirst, ReadReturn,
     TakeBlock, locks, heap, writer, slogger
<1>4. ReaderInv'
  <2>1. start_log \in Blocks /\ start_log < current_log /\ start_log \in live
    BY DEF SafeInv, TypeOK, PhaseInv, ReaderInv, HeapInv, Reading, ReadFirst
  <2>2. next[start_log] \in {0, start_log + 1}
    BY <2>1 DEF SafeInv, NextInv
  <2>3. \A q \in Readers : q = r
    BY DEF SingleReader
  <2>4. CASE next[start_log] = 0
    BY SMTT(40), <2>3, <2>4 DEF SafeInv, TypeOK, ReaderInv, ReadFirst, ReadReturn
  <2>5. CASE next[start_log] # 0
    <3>1. start_log' = start_log + 1 /\ log'[r] = start_log /\ rpc'[r] = "ffree" /\ live' = live
      BY <2>2, <2>5 DEF SafeInv, TypeOK, ReadFirst, TakeBlock, heap
    <3> QED
      BY <2>1, <2>3, <3>1 DEF ReaderInv
  <2> QED
    BY <2>4, <2>5
<1>5. FirstInv'
  BY DEF SafeInv, TypeOK, PhaseInv, NextInv, ReaderInv, FirstInv, ReadFirst,
     ReadReturn, TakeBlock, locks, heap, writer, slogger
<1>6. HeapInv'
  BY SMTT(40) DEF SafeInv, TypeOK, PhaseInv, NextInv, HeapInv, Reading, ReadFirst,
     ReadReturn, TakeBlock, locks, heap, writer, slogger
<1>7. LockInv' /\ NextInv' /\ EntryInv'
  BY DEF SafeInv, LockInv, NextInv, EntryInv, ReadFirst, ReadReturn,
     TakeBlock, locks, heap, writer, slogger
<1> QED
  BY <1>1, <1>2, <1>3, <1>4, <1>5, <1>6, <1>7 DEF SafeInv

(* The first read frees the dummy block.                                   *)
LEMMA ReadFirstFreeSafe ==
    ASSUME SingleReader, SafeInv, NEW r \in Readers, ReadFirstFree(r)
    PROVE  SafeInv'
<1> USE LogAssumption DEF Blocks, Contexts
<1>1. TypeOK'
  BY ZenonT(60) DEF SafeInv, TypeOK, PhaseInv, ReadFirstFree, FreeBlock, locks, list,
     writer, slogger
<1>2. PhaseInv'
  BY DEF SafeInv, TypeOK, PhaseInv, ReaderInv, AllClosed, ReadFirstFree,
     FreeBlock, locks, list, writer, slogger
<1>3. PutInv'
  BY DEF SafeInv, TypeOK, PutInv, ReadFirstFree, FreeBlock, locks, list,
     writer, slogger
<1>4. ReaderInv'
  BY DEF SafeInv, TypeOK, ReaderInv, SingleReader, ReadFirstFree, FreeBlock,
     locks, list, writer, slogger
<1>5. FirstInv'
  BY DEF SafeInv, PhaseInv, ReaderInv, FirstInv, ReadFirstFree, FreeBlock,
     locks, list, writer, slogger
<1>6. HeapInv'
  <2>1. log[r] = start_log - 1 /\ 2 <= start_log /\ phase = "up" /\ c1 = 0
    BY DEF SafeInv, PhaseInv, ReaderInv, Reading, ReadFirstFree
  <2>2. live' = live \ {log[r]} /\ UNCHANGED <<nalloc, start_log, phase, c1>>
    BY DEF ReadFirstFree, FreeBlock, locks, list
  <2> QED
    BY <2>1, <2>2 DEF SafeInv, TypeOK, HeapInv
<1>7. LockInv' /\ NextInv' /\ EntryInv'
  BY DEF SafeInv, LockInv, NextInv, EntryInv, ReadFirstFree, FreeBlock, locks,
     list, writer, slogger
<1> QED
  BY <1>1, <1>2, <1>3, <1>4, <1>5, <1>6, <1>7 DEF SafeInv

(* A read looks for another record.                                        *)
LEMMA ReadLoopSafe ==
    ASSUME SingleReader, SafeInv, NEW r \in Readers, ReadLoop(r)
    PROVE  SafeInv'
<1> USE LogAssumption DEF Blocks, Contexts
<1>1. TypeOK'
  <2>1. left' \in [Readers -> 0 .. MaxCount]
    <3>1. left' = left \/ left' = [left EXCEPT ![r] = 0]
      BY DEF ReadLoop, ReadReturn
    <3>2. left \in [Readers -> 0 .. MaxCount]
      BY DEF SafeInv, TypeOK
    <3> QED
      BY <3>1, <3>2
  <2>2. rpc' \in [Readers -> {"closed", "open1", "open2", "open3", "idle", "first", "ffree",
                              "loop", "copy", "take", "free", "close1", "close2"}]
    BY DEF SafeInv, TypeOK, ReadLoop, ReadReturn
  <2> QED
    BY SMTT(40), <2>1, <2>2 DEF SafeInv, TypeOK, ReadLoop, locks, list, heap, writer, slogger
<1>2. PhaseInv'
  BY DEF SafeInv, TypeOK, PhaseInv, ReaderInv, FirstInv, AllClosed, ReadLoop,
     ReadReturn, locks, list, heap, writer, slogger
<1>3. PutInv'
  BY SMTT(40) DEF SafeInv, TypeOK, LockInv, PutInv, FirstInv, HeapInv, SingleReader,
     ReadLoop, ReadReturn, locks, list, heap, writer, slogger
<1>4. ReaderInv'
  BY SMTT(40) DEF SafeInv, TypeOK, PhaseInv, NextInv, ReaderInv, FirstInv, HeapInv,
     SingleReader, ReadLoop, ReadReturn, locks, list, heap, writer, slogger
<1>5. LockInv' /\ NextInv' /\ FirstInv' /\ HeapInv' /\ EntryInv'
  BY DEF SafeInv, LockInv, NextInv, FirstInv, HeapInv, EntryInv, ReadLoop,
     ReadReturn, locks, list, heap, writer, slogger
<1> QED
  BY <1>1, <1>2, <1>3, <1>4, <1>5 DEF SafeInv

(* A read copies the record at the head.                                   *)
LEMMA ReadCopySafe ==
    ASSUME SingleReader, SafeInv, NEW r \in Readers, ReadCopy(r)
    PROVE  SafeInv'
<1> USE LogAssumption DEF Blocks, Contexts
<1>1. TypeOK'
  <2>1. start_log \in 2 .. nalloc
    BY DEF SafeInv, TypeOK, PhaseInv, ReaderInv, FirstInv, Reading, ReadCopy
  <2>2. entry[start_log] \in Records
    BY <2>1 DEF SafeInv, EntryInv
  <2>3. delivered' \in Seq(Records)
    BY <2>2 DEF SafeInv, TypeOK, ReadCopy
  <2> QED
    BY SMTT(40), <2>3 DEF SafeInv, TypeOK, ReadCopy, locks, list, heap, writer, slogger
<1>2. PhaseInv'
  BY DEF SafeInv, TypeOK, PhaseInv, ReaderInv, FirstInv, AllClosed, ReadCopy,
     locks, list, heap, writer, slogger
<1>3. PutInv'
  BY DEF SafeInv, PutInv, ReadCopy, locks, list, heap, writer, slogger
<1>4. ReaderInv'
  BY DEF SafeInv, ReaderInv, ReadCopy, locks, list, heap, writer, slogger
<1>5. LockInv' /\ NextInv' /\ FirstInv' /\ HeapInv' /\ EntryInv'
  BY DEF SafeInv, LockInv, NextInv, FirstInv, HeapInv, EntryInv, ReadCopy,
     locks, list, heap, writer, slogger
<1> QED
  BY <1>1, <1>2, <1>3, <1>4, <1>5 DEF SafeInv

(* A read moves the head of the list.                                      *)
LEMMA ReadTakeSafe ==
    ASSUME SingleReader, SafeInv, NEW r \in Readers, ReadTake(r)
    PROVE  SafeInv'
<1> USE LogAssumption DEF Blocks, Contexts
<1>1. TypeOK'
  <2>1. start_log \in Blocks
    BY DEF SafeInv, TypeOK, PhaseInv, Reading, ReadTake
  <2>2. next[start_log] \in 0 .. MaxBlocks
    BY <2>1 DEF SafeInv, TypeOK
  <2>3. start_log' \in 0 .. MaxBlocks /\ log' \in [Readers -> 0 .. MaxBlocks]
    BY <2>2 DEF SafeInv, TypeOK, ReadTake, TakeBlock
  <2>4. rpc' \in [Readers -> {"closed", "open1", "open2", "open3", "idle", "first", "ffree",
                              "loop", "copy", "take", "free", "close1", "close2"}]
    BY DEF SafeInv, TypeOK, ReadTake, TakeBlock
  <2> QED
    BY SMTT(40), <2>3, <2>4 DEF SafeInv, TypeOK, ReadTake, locks, heap, writer, slogger
<1>2. PhaseInv'
  BY SMTT(40) DEF SafeInv, TypeOK, PhaseInv, NextInv, ReaderInv, FirstInv, HeapInv,
     AllClosed, ReadTake, TakeBlock, locks, heap, writer, slogger
<1>3. PutInv'
  BY DEF SafeInv, TypeOK, PutInv, ReaderInv, ReadTake, TakeBlock, locks, heap,
     writer, slogger
<1>4. ReaderInv'
  <2>1. start_log \in Blocks /\ start_log < current_log /\ start_log \in live
    BY DEF SafeInv, TypeOK, PhaseInv, ReaderInv, HeapInv, Reading, ReadTake
  <2>2. next[start_log] = start_log + 1
    BY <2>1 DEF SafeInv, NextInv, ReaderInv, ReadTake
  <2>3. \A q \in Readers : q = r
    BY DEF SingleReader
  <2>4. start_log' = start_log + 1 /\ log'[r] = start_log /\ rpc'[r] = "free" /\ live' = live
    BY <2>2 DEF SafeInv, TypeOK, ReadTake, TakeBlock, heap
  <2>5. ~first_read' /\ left'[r] > 0
    BY DEF SafeInv, TypeOK, ReaderInv, ReadTake
  <2> QED
    BY <2>1, <2>3, <2>4, <2>5 DEF ReaderInv
<1>5. FirstInv'
  BY DEF SafeInv, TypeOK, PhaseInv, NextInv, ReaderInv, FirstInv, ReadTake,
     TakeBlock, locks, heap, writer, slogger
<1>6. HeapInv'
  <2>1. start_log \in Blocks /\ next[start_log] = start_log + 1
    BY DEF SafeInv, TypeOK, PhaseInv, NextInv, ReaderInv, Reading, ReadTake
  <2>2. start_log' = start_log + 1 /\ UNCHANGED <<live, nalloc, phase, c1>>
    BY <2>1 DEF ReadTake, TakeBlock, locks, heap
  <2> QED
    BY SMTT(40), <2>1, <2>2 DEF SafeInv, TypeOK, HeapInv
<1>7. LockInv' /\ NextInv' /\ EntryInv'
  BY DEF SafeInv, LockInv, NextInv, EntryInv, ReadTake, TakeBlock, locks,
     heap, writer, slogger
<1> QED
  BY <1>1, <1>2, <1>3, <1>4, <1>5, <1>6, <1>7 DEF SafeInv

(* A read frees the block it has taken.                                    *)
LEMMA ReadFreeSafe ==
    ASSUME SingleReader, SafeInv, NEW r \in Readers, ReadFree(r)
    PROVE  SafeInv'
<1> USE LogAssumption DEF Blocks, Contexts
<1>1. TypeOK'
  <2>1. left' \in [Readers -> 0 .. MaxCount]
    BY SMTT(40) DEF SafeInv, TypeOK, ReaderInv, ReadFree
  <2>2. rpc' \in [Readers -> {"closed", "open1", "open2", "open3", "idle", "first", "ffree",
                              "loop", "copy", "take", "free", "close1", "close2"}]
    BY DEF SafeInv, TypeOK, ReadFree
  <2>3. log' \in [Readers -> 0 .. MaxBlocks]
    <3>1. log \in [Readers -> 0 .. MaxBlocks] /\ log' = [log EXCEPT ![r] = 0]
      BY DEF SafeInv, TypeOK, ReadFree, FreeBlock
    <3> QED
      BY <3>1
  <2>4. live' \subseteq Blocks
    BY DEF SafeInv, TypeOK, ReadFree, FreeBlock
  <2> QED
    BY SMTT(40), <2>1, <2>2, <2>3, <2>4 DEF SafeInv, TypeOK, ReadFree, locks, list, writer, slogger
<1>2. PhaseInv'
  BY DEF SafeInv, TypeOK, PhaseInv, ReaderInv, AllClosed, ReadFree, FreeBlock,
     locks, list, writer, slogger
<1>3. PutInv'
  BY DEF SafeInv, TypeOK, PutInv, ReadFree, FreeBlock, locks, list, writer,
     slogger
<1>4. ReaderInv'
  BY DEF SafeInv, TypeOK, ReaderInv, SingleReader, ReadFree, FreeBlock, locks,
     list, writer, slogger
<1>5. HeapInv'
  <2>1. log[r] = start_log - 1 /\ 2 <= start_log /\ phase = "up" /\ c1 = 0
    BY DEF SafeInv, PhaseInv, ReaderInv, Reading, ReadFree
  <2>2. live' = live \ {log[r]} /\ UNCHANGED <<nalloc, start_log, phase, c1>>
    BY DEF ReadFree, FreeBlock, locks, list
  <2> QED
    BY <2>1, <2>2 DEF SafeInv, TypeOK, HeapInv
<1>6. LockInv' /\ NextInv' /\ FirstInv' /\ EntryInv'
  BY DEF SafeInv, LockInv, NextInv, FirstInv, EntryInv, ReadFree, FreeBlock,
     locks, list, writer, slogger
<1> QED
  BY <1>1, <1>2, <1>3, <1>4, <1>5, <1>6 DEF SafeInv

(* log_exit removes the device.                                            *)
LEMMA LogExitSafe ==
    ASSUME SingleReader, SafeInv, LogExit
    PROVE  SafeInv'
<1> USE LogAssumption DEF Blocks, Contexts
<1>1. TypeOK'
  BY DEF SafeInv, TypeOK, LogExit, AllClosed, list, heap, writer, reader,
     slogger
<1>2. PhaseInv'
  BY DEF SafeInv, PhaseInv, Reading, LogExit, AllClosed, list, heap, writer,
     reader, slogger
<1>3. PutInv'
  BY DEF SafeInv, PutInv, LogExit, AllClosed, list, heap, writer, reader,
     slogger
<1>4. FirstInv'
  BY DEF SafeInv, FirstInv, LogExit, AllClosed, list, heap, writer, reader,
     slogger
<1>5. HeapInv'
  BY DEF SafeInv, HeapInv, LogExit, AllClosed, list, heap, writer, reader,
     slogger
<1>6. LockInv' /\ NextInv' /\ ReaderInv' /\ EntryInv'
  BY DEF SafeInv, LockInv, NextInv, ReaderInv, EntryInv, LogExit, AllClosed,
     list, heap, writer, reader, slogger
<1> QED
  BY <1>1, <1>2, <1>3, <1>4, <1>5, <1>6 DEF SafeInv

(* purge_log detaches the list.                                            *)
LEMMA PurgeDetachSafe ==
    ASSUME SingleReader, SafeInv, PurgeDetach
    PROVE  SafeInv'
<1> USE LogAssumption DEF Blocks, Contexts
<1>1. TypeOK'
  BY SMTT(40) DEF SafeInv, TypeOK, PurgeDetach, heap, writer, reader, slogger
<1>2. PhaseInv'
  BY DEF SafeInv, TypeOK, LockInv, PhaseInv, AllClosed, PurgeDetach, heap,
     writer, reader, slogger
<1>3. PutInv'
  BY DEF SafeInv, LockInv, PutInv, PurgeDetach, heap, writer, reader, slogger
<1>4. ReaderInv'
  BY DEF SafeInv, PhaseInv, ReaderInv, AllClosed, PurgeDetach, heap, writer,
     reader, slogger
<1>5. FirstInv'
  BY DEF SafeInv, FirstInv, PurgeDetach, heap, writer, reader, slogger
<1>6. HeapInv'
  BY DEF SafeInv, TypeOK, PhaseInv, HeapInv, PurgeDetach, heap, writer,
     reader, slogger
<1>7. LockInv' /\ NextInv' /\ EntryInv'
  BY DEF SafeInv, LockInv, NextInv, EntryInv, PurgeDetach, heap, writer,
     reader, slogger
<1> QED
  BY <1>1, <1>2, <1>3, <1>4, <1>5, <1>6, <1>7 DEF SafeInv

(* purge_log frees one block.                                              *)
LEMMA PurgeFreeSafe ==
    ASSUME SingleReader, SafeInv, PurgeFree
    PROVE  SafeInv'
<1> USE LogAssumption DEF Blocks, Contexts
<1>1. TypeOK'
  <2>1. c1' \in 0 .. MaxBlocks /\ live' \subseteq Blocks
    BY DEF SafeInv, TypeOK, PurgeFree
  <2> QED
    BY <2>1 DEF SafeInv, TypeOK, PurgeFree, locks, list, writer, reader, slogger
<1>2. PhaseInv'
  BY DEF SafeInv, PhaseInv, AllClosed, PurgeFree, locks, list, writer, reader,
     slogger
<1>3. PutInv'
  BY DEF SafeInv, PhaseInv, PutInv, PurgeFree, locks, list, writer, reader,
     slogger
<1>4. ReaderInv'
  BY DEF SafeInv, PhaseInv, ReaderInv, PurgeFree, locks, list, writer, reader,
     slogger
<1>5. HeapInv'
  BY DEF SafeInv, TypeOK, PhaseInv, NextInv, HeapInv, PurgeFree, locks, list,
     writer, reader, slogger
<1>6. LockInv' /\ NextInv' /\ FirstInv' /\ EntryInv'
  BY DEF SafeInv, LockInv, NextInv, FirstInv, EntryInv, PurgeFree, locks,
     list, writer, reader, slogger
<1> QED
  BY <1>1, <1>2, <1>3, <1>4, <1>5, <1>6 DEF SafeInv

(* log_exit destroys the cache.                                            *)
LEMMA DestroyCacheSafe ==
    ASSUME SingleReader, SafeInv, DestroyCache
    PROVE  SafeInv'
<1> USE LogAssumption DEF Blocks, Contexts
<1>1. TypeOK'
  BY DEF SafeInv, TypeOK, DestroyCache, list, heap, writer, reader, slogger
<1>2. PhaseInv'
  BY DEF SafeInv, PhaseInv, AllClosed, DestroyCache, list, heap, writer,
     reader, slogger
<1>3. PutInv'
  BY DEF SafeInv, PutInv, DestroyCache, list, heap, writer, reader, slogger
<1>4. FirstInv'
  BY DEF SafeInv, FirstInv, DestroyCache, list, heap, writer, reader, slogger
<1>5. HeapInv'
  BY DEF SafeInv, HeapInv, DestroyCache, list, heap, writer, reader, slogger
<1>6. LockInv' /\ NextInv' /\ ReaderInv' /\ EntryInv'
  BY DEF SafeInv, LockInv, NextInv, ReaderInv, EntryInv, DestroyCache, list,
     heap, writer, reader, slogger
<1> QED
  BY <1>1, <1>2, <1>3, <1>4, <1>5, <1>6 DEF SafeInv

(***************************************************************************)
(* The safety invariant is inductive with one reader, whatever EarlyOpen   *)
(* says.                                                                   *)
(***************************************************************************)
LEMMA SafeInit ==
    ASSUME Init
    PROVE  SafeInv
<1> USE LogAssumption DEF Blocks, Contexts
<1>1. TypeOK
  <2>1. 0 \in 0 .. MaxBlocks /\ 0 \in 0 .. MaxCount
    OBVIOUS
  <2>2. next \in [Blocks -> 0 .. MaxBlocks] /\ entry \in [Blocks -> Records \cup {None}]
    BY <2>1 DEF Init
  <2>3. /\ wpc \in [Contexts -> {"idle", "lock", "alloc", "put"}]
        /\ p \in [Contexts -> 0 .. MaxBlocks] /\ tail \in [Contexts -> 0 .. MaxBlocks]
        /\ todo \in [Contexts -> SUBSET {"next", "current"}]
    BY <2>1 DEF Init
  <2>4. /\ log \in [Readers -> 0 .. MaxBlocks] /\ left \in [Readers -> 0 .. MaxCount]
        /\ delivered \in Seq(Records)
    BY <2>1 DEF Init
  <2>5. rpc \in [Readers -> {"closed", "open1", "open2", "open3", "idle", "first", "ffree",
                             "loop", "copy", "take", "free", "close1", "close2"}]
    BY DEF Init
  <2> QED
    BY <2>1, <2>2, <2>3, <2>4, <2>5 DEF Init, TypeOK
<1>2. LockInv
  BY DEF Init, LockInv
<1>3. PhaseInv
  BY DEF Init, PhaseInv, AllClosed, Reading
<1>4. NextInv
  BY DEF Init, NextInv
<1>5. PutInv /\ ReaderInv
  BY DEF Init, PutInv, ReaderInv
<1>6. FirstInv /\ HeapInv /\ EntryInv
  BY DEF Init, FirstInv, HeapInv, EntryInv
<1> QED
  BY <1>1, <1>2, <1>3, <1>4, <1>5, <1>6 DEF SafeInv

(* Every step keeps SafeInv.                                               *)
LEMMA SafeNext ==
    ASSUME SingleReader, SafeInv, [Next]_vars
    PROVE  SafeInv'
<1>1. CASE LogInitRegister \/ LogInitAlloc \/ LogInitPublish \/ LogInitFail
  BY <1>1, LogInitRegisterSafe, LogInitAllocSafe, LogInitPublishSafe, LogInitFailSafe
<1>2. ASSUME NEW w \in Writers, GetLog(w)
      PROVE  SafeInv'
  BY <1>2, GetLogSafe
<1>3. ASSUME NEW w \in Contexts, GetLogLock(w) \/ GetLogEnd(w)
      PROVE  SafeInv'
  BY <1>3, GetLogLockSafe, GetLogNullSafe, GetLogBlockSafe DEF GetLogEnd
<1>4. ASSUME NEW w \in Contexts, PutLog(w)
      PROVE  SafeInv'
  BY <1>4, PutLogNextSafe, PutLogCurrentSafe, PutLogUnlockSafe DEF PutLog
<1>5. CASE LoggerTimer \/ LoggerLog \/ LoggerStep
  BY <1>5, LoggerTimerSafe, LoggerLogSafe, LoggerTakeSafe, LoggerLoggedSafe,
     LoggerFlagSafe, LoggerReschedSafe DEF LoggerStep
<1>6. ASSUME NEW r \in Readers, Open(r) \/ OpenStep(r)
      PROVE  SafeInv'
  BY <1>6, OpenSafe, OpenScheduleSafe, OpenStartedSafe, OpenDoneSafe DEF OpenStep
<1>7. ASSUME NEW r \in Readers, Close(r) \/ CloseStep(r)
      PROVE  SafeInv'
  BY <1>7, CloseSafe, CloseStopSafe, CloseCancelSafe DEF CloseStep
<1>8. ASSUME NEW r \in Readers, NEW n \in 0 .. MaxCount, Read(r, n)
      PROVE  SafeInv'
  BY <1>8, ReadSafe
<1>9. ASSUME NEW r \in Readers, ReadStep(r)
      PROVE  SafeInv'
  BY <1>9, ReadFirstSafe, ReadFirstFreeSafe, ReadLoopSafe, ReadCopySafe, ReadTakeSafe,
     ReadFreeSafe DEF ReadStep
<1>10. CASE LogExit \/ PurgeDetach \/ PurgeFree \/ DestroyCache
  BY <1>10, LogExitSafe, PurgeDetachSafe, PurgeFreeSafe, DestroyCacheSafe
<1>11. CASE UNCHANGED vars
  <2> USE <1>11 DEF vars, locks, list, heap, writer, reader, slogger, SafeInv
  <2>1. TypeOK' /\ LockInv' /\ NextInv' /\ EntryInv'
    BY DEF TypeOK, LockInv, NextInv, EntryInv
  <2>2. PhaseInv' /\ FirstInv' /\ HeapInv'
    BY DEF PhaseInv, AllClosed, FirstInv, HeapInv
  <2>3. PutInv' /\ ReaderInv'
    BY DEF PutInv, ReaderInv
  <2> QED
    BY <2>1, <2>2, <2>3
<1> QED
  BY <1>1, <1>2, <1>3, <1>4, <1>5, <1>6, <1>7, <1>8, <1>9, <1>10, <1>11 DEF Next, Unloaded

(* So SafeInv always holds.                                                *)
LEMMA AlwaysSafe ==
    ASSUME SingleReader
    PROVE  Spec => []SafeInv
<1>1. Init => SafeInv
  BY SafeInit
<1>2. SafeInv /\ [Next]_vars => SafeInv'
  BY SafeNext
<1> QED
  BY <1>1, <1>2, PTL DEF Spec

(* Every variable of the log keeps its type.                               *)
THEOREM LogTypeCorrect ==
    ASSUME SingleReader
    PROVE  Spec => []TypeOK
<1>1. SafeInv => TypeOK
  BY DEF SafeInv
<1> QED
  BY <1>1, AlwaysSafe, PTL

(* With one descriptor open at a time the reader of /dev/seeker_log, which *)
(* follows the list without log_lock, put_log and purge_log never touch a  *)
(* freed block, and none is freed twice: for every number of writers and   *)
(* blocks, and also when the device is opened before log_init returns.     *)
THEOREM LogMemorySafe ==
    ASSUME SingleReader
    PROVE  Spec => []MemorySafe
<1>1. ASSUME SafeInv
      PROVE  MemorySafe
  <2> USE LogAssumption
  <2>1. \A r \in Readers : rpc[r] \in {"first", "loop", "copy", "take"} => start_log \in live
    <3> SUFFICES ASSUME NEW r \in Readers, rpc[r] \in {"first", "loop", "copy", "take"}
                 PROVE  start_log \in live
      OBVIOUS
    <3>1. phase = "up"
      BY <1>1 DEF SafeInv, PhaseInv, Reading
    <3>2. start_log \in start_log .. nalloc /\ start_log # 0
      BY <1>1, <3>1 DEF SafeInv, TypeOK, PhaseInv
    <3> QED
      BY <1>1, <3>2 DEF SafeInv, HeapInv
  <2>2. \A r \in Readers : rpc[r] \in {"ffree", "free"} => log[r] \in live
    BY <1>1 DEF SafeInv, ReaderInv
  <2>3. \A w \in Contexts : wpc[w] = "put" /\ "next" \in todo[w] => tail[w] \in live
    BY <1>1 DEF SafeInv, PutInv
  <2>4. c1 # 0 => c1 \in live
    <3>1. c1 \in Nat /\ nalloc \in Nat
      BY <1>1 DEF SafeInv, TypeOK
    <3>2. c1 # 0 => c1 \in c1 .. nalloc
      BY <1>1, <3>1 DEF SafeInv, HeapInv
    <3> QED
      BY <1>1, <3>2 DEF SafeInv, HeapInv
  <2> QED
    BY <2>1, <2>2, <2>3, <2>4 DEF MemorySafe
<1> QED
  BY <1>1, AlwaysSafe, PTL

-----------------------------------------------------------------------------
(* WholeInv, action by action.                                            *)

(* log_init registers the device.                                          *)
LEMMA LogInitRegisterWhole ==
    ASSUME SingleReader, ~EarlyOpen, SafeInv, WholeInv,
           LogInitRegister
    PROVE  WholeInv'
<1> USE LogAssumption DEF Blocks, Contexts
<1>1. ClosedInv'
  BY DEF SafeInv, WholeInv, ClosedInv, AllClosed, LogInitRegister, list, heap,
     writer, reader, slogger
<1>2. ChainInv'
  BY DEF SafeInv, WholeInv, ChainInv, LogInitRegister, list, heap, writer,
     reader, slogger
<1>3. ExactInv'
  BY DEF SafeInv, WholeInv, ExactInv, LogInitRegister, list, heap, writer,
     reader, slogger
<1>4. DummyInv'
  BY DEF SafeInv, WholeInv, DummyInv, LogInitRegister, list, heap, writer,
     reader, slogger
<1> QED
  BY <1>1, <1>2, <1>3, <1>4 DEF WholeInv

(* log_init allocates the dummy block.                                     *)
LEMMA LogInitAllocWhole ==
    ASSUME SingleReader, ~EarlyOpen, SafeInv, WholeInv,
           LogInitAlloc
    PROVE  WholeInv'
<1> USE LogAssumption DEF Blocks, Contexts
<1>1. ClosedInv'
  BY DEF SafeInv, WholeInv, ClosedInv, AllClosed, LogInitAlloc, writer,
     reader, slogger
<1>2. ChainInv'
  BY DEF SafeInv, WholeInv, ChainInv, LogInitAlloc, writer, reader, slogger
<1>3. ExactInv'
  BY DEF SafeInv, WholeInv, ExactInv, LogInitAlloc, writer, reader, slogger
<1>4. DummyInv'
  BY DEF SafeInv, WholeInv, DummyInv, LogInitAlloc, writer, reader, slogger
<1> QED
  BY <1>1, <1>2, <1>3, <1>4 DEF WholeInv

(* log_init publishes the dummy block as the list.                         *)
LEMMA LogInitPublishWhole ==
    ASSUME SingleReader, ~EarlyOpen, SafeInv, WholeInv,
           LogInitPublish
    PROVE  WholeInv'
<1> USE LogAssumption DEF Blocks, Contexts
<1>1. ClosedInv'
  BY DEF SafeInv, WholeInv, ClosedInv, LogInitPublish, heap, writer, reader,
     slogger
<1>2. ChainInv'
  BY DEF SafeInv, WholeInv, ChainInv, ExactInv, LogInitPublish, heap, writer,
     reader, slogger
<1>3. ExactInv'
  BY DEF SafeInv, WholeInv, PhaseInv, HeapInv, ExactInv, LogInitPublish, heap,
     writer, reader, slogger
<1>4. DummyInv'
  BY DEF SafeInv, WholeInv, TypeOK, PhaseInv, ReaderInv, ExactInv, DummyInv,
     LogInitPublish, heap, writer, reader, slogger
<1> QED
  BY <1>1, <1>2, <1>3, <1>4 DEF WholeInv

(* log_init cannot allocate the dummy block.                               *)
LEMMA LogInitFailWhole ==
    ASSUME SingleReader, ~EarlyOpen, SafeInv, WholeInv,
           LogInitFail
    PROVE  WholeInv'
<1> USE LogAssumption DEF Blocks, Contexts
<1>1. ClosedInv'
  BY DEF SafeInv, WholeInv, ClosedInv, LogInitFail, AllClosed, list, heap,
     writer, reader, slogger
<1>2. ChainInv'
  BY DEF SafeInv, WholeInv, ChainInv, LogInitFail, AllClosed, list, heap,
     writer, reader, slogger
<1>3. ExactInv'
  BY DEF SafeInv, WholeInv, ExactInv, LogInitFail, AllClosed, list, heap,
     writer, reader, slogger
<1>4. DummyInv'
  BY DEF SafeInv, WholeInv, DummyInv, LogInitFail, AllClosed, list, heap,
     writer, reader, slogger
<1> QED
  BY <1>1, <1>2, <1>3, <1>4 DEF WholeInv

(* A writer calls get_log.                                                 *)
LEMMA GetLogWhole ==
    ASSUME SingleReader, ~EarlyOpen, SafeInv, WholeInv,
           NEW w \in Writers, GetLog(w)
    PROVE  WholeInv'
<1> USE LogAssumption DEF Blocks, Contexts
<1>1. ChainInv'
  BY DEF SafeInv, WholeInv, ChainInv, Linking, GetLog, GetLogCall, locks,
     list, heap, reader, slogger
<1>2. ClosedInv' /\ ExactInv' /\ DummyInv'
  BY DEF WholeInv, ClosedInv, ExactInv, DummyInv, AllClosed, GetLog,
     GetLogCall, locks, list, heap, reader, slogger
<1> QED
  BY <1>1, <1>2 DEF WholeInv

(* get_log takes log_lock.                                                 *)
LEMMA GetLogLockWhole ==
    ASSUME SingleReader, ~EarlyOpen, SafeInv, WholeInv,
           NEW w \in Contexts, GetLogLock(w)
    PROVE  WholeInv'
<1> USE LogAssumption DEF Blocks, Contexts
<1>1. ChainInv'
  BY DEF SafeInv, WholeInv, ChainInv, Linking, GetLogLock, list, heap, reader,
     slogger
<1>2. ClosedInv' /\ ExactInv' /\ DummyInv'
  BY DEF WholeInv, ClosedInv, ExactInv, DummyInv, AllClosed, GetLogLock, list,
     heap, reader, slogger
<1> QED
  BY <1>1, <1>2 DEF WholeInv

(* get_log returns no block.                                               *)
LEMMA GetLogNullWhole ==
    ASSUME SingleReader, ~EarlyOpen, SafeInv, WholeInv,
           NEW w \in Contexts, GetLogNull(w)
    PROVE  WholeInv'
<1> USE LogAssumption DEF Blocks, Contexts
<1>1. ChainInv'
  BY DEF SafeInv, WholeInv, ChainInv, Linking, GetLogNull, list, heap, reader,
     slogger
<1>2. ClosedInv' /\ ExactInv' /\ DummyInv'
  BY DEF WholeInv, ClosedInv, ExactInv, DummyInv, AllClosed, GetLogNull, list,
     heap, reader, slogger
<1> QED
  BY <1>1, <1>2 DEF WholeInv

(* get_log allocates a block and fills it in.                              *)
LEMMA GetLogBlockWhole ==
    ASSUME SingleReader, ~EarlyOpen, SafeInv, WholeInv,
           NEW w \in Contexts, NEW rec \in Records, GetLogBlock(w, rec)
    PROVE  WholeInv'
<1> USE LogAssumption DEF Blocks, Contexts
<1>1. ChainInv'
  BY DEF SafeInv, WholeInv, TypeOK, LockInv, NextInv, ChainInv, Linking,
     GetLogBlock, locks, reader, slogger
<1>2. ExactInv'
  BY DEF SafeInv, WholeInv, TypeOK, PhaseInv, FirstInv, HeapInv, ClosedInv,
     ExactInv, GetLogBlock, locks, reader, slogger
<1>3. ClosedInv' /\ DummyInv'
  BY DEF WholeInv, ClosedInv, DummyInv, AllClosed, GetLogBlock, locks, reader,
     slogger
<1> QED
  BY <1>1, <1>2, <1>3 DEF WholeInv

(* put_log links the block.                                                *)
LEMMA PutLogNextWhole ==
    ASSUME SingleReader, ~EarlyOpen, SafeInv, WholeInv,
           NEW w \in Contexts, PutLogNext(w)
    PROVE  WholeInv'
<1> USE LogAssumption DEF Blocks, Contexts
<1>1. ChainInv'
  BY SMTT(40) DEF SafeInv, WholeInv, TypeOK, PutInv, ChainInv, PutLogNext, locks, heap,
     reader, slogger
<1>2. ClosedInv' /\ ExactInv' /\ DummyInv'
  BY DEF WholeInv, ClosedInv, ExactInv, DummyInv, AllClosed, PutLogNext,
     locks, heap, reader, slogger
<1> QED
  BY <1>1, <1>2 DEF WholeInv

(* put_log makes the block the last one.                                   *)
LEMMA PutLogCurrentWhole ==
    ASSUME SingleReader, ~EarlyOpen, SafeInv, WholeInv,
           NEW w \in Contexts, PutLogCurrent(w)
    PROVE  WholeInv'
<1> USE LogAssumption DEF Blocks, Contexts
<1>1. ChainInv'
  BY DEF SafeInv, WholeInv, ChainInv, Linking, PutLogCurrent, locks, heap,
     reader, slogger
<1>2. ClosedInv' /\ ExactInv' /\ DummyInv'
  BY DEF WholeInv, ClosedInv, ExactInv, DummyInv, AllClosed, PutLogCurrent,
     locks, heap, reader, slogger
<1> QED
  BY <1>1, <1>2 DEF WholeInv

(* put_log gives log_lock back.                                            *)
LEMMA PutLogUnlockWhole ==
    ASSUME SingleReader, ~EarlyOpen, SafeInv, WholeInv,
           NEW w \in Contexts, PutLogUnlock(w)
    PROVE  WholeInv'
<1> USE LogAssumption DEF Blocks, Contexts
<1>1. ChainInv'
  BY DEF SafeInv, WholeInv, ChainInv, Linking, PutLogUnlock, list, heap,
     reader, slogger
<1>2. ClosedInv' /\ ExactInv' /\ DummyInv'
  BY DEF WholeInv, ClosedInv, ExactInv, DummyInv, AllClosed, PutLogUnlock,
     list, heap, reader, slogger
<1> QED
  BY <1>1, <1>2 DEF WholeInv

(* The state logger calls get_log.                                         *)
LEMMA LoggerLogWhole ==
    ASSUME SingleReader, ~EarlyOpen, SafeInv, WholeInv,
           LoggerLog
    PROVE  WholeInv'
<1> USE LogAssumption DEF Blocks, Contexts
<1>1. ChainInv'
  BY DEF SafeInv, WholeInv, ChainInv, Linking, LoggerLog, GetLogCall, locks,
     list, heap, reader, slogger
<1>2. ClosedInv' /\ ExactInv' /\ DummyInv'
  BY DEF WholeInv, ClosedInv, ExactInv, DummyInv, AllClosed, LoggerLog,
     GetLogCall, locks, list, heap, reader, slogger
<1> QED
  BY <1>1, <1>2 DEF WholeInv

(* The device is opened.                                                   *)
LEMMA OpenWhole ==
    ASSUME SingleReader, ~EarlyOpen, SafeInv, WholeInv,
           NEW r \in Readers, Open(r)
    PROVE  WholeInv'
<1> USE LogAssumption DEF Blocks, Contexts
<1>1. ClosedInv'
  BY DEF SafeInv, WholeInv, ClosedInv, Open, locks, list, heap, writer,
     slogger
<1>2. ExactInv'
  BY DEF SafeInv, WholeInv, ReaderInv, ExactInv, Open, locks, list, heap,
     writer, slogger
<1>3. DummyInv'
  BY DEF SafeInv, WholeInv, DummyInv, Open, locks, list, heap, writer, slogger
<1>4. ChainInv'
  BY DEF WholeInv, ChainInv, Linking, Open, locks, list, heap, writer, slogger
<1> QED
  BY <1>1, <1>2, <1>3, <1>4 DEF WholeInv

(* Opening schedules the state logger.                                     *)
LEMMA OpenScheduleWhole ==
    ASSUME SingleReader, ~EarlyOpen, SafeInv, WholeInv,
           NEW r \in Readers, OpenSchedule(r)
    PROVE  WholeInv'
<1> USE LogAssumption DEF Blocks, Contexts
<1>1. ClosedInv'
  BY DEF SafeInv, WholeInv, ClosedInv, AllClosed, OpenSchedule,
     ScheduleLogger, locks, list, heap, writer
<1>2. ExactInv'
  BY DEF SafeInv, WholeInv, ReaderInv, ExactInv, OpenSchedule, ScheduleLogger,
     locks, list, heap, writer
<1>3. DummyInv'
  BY DEF SafeInv, WholeInv, DummyInv, OpenSchedule, ScheduleLogger, locks,
     list, heap, writer
<1>4. ChainInv'
  BY DEF WholeInv, ChainInv, Linking, OpenSchedule, ScheduleLogger, locks,
     list, heap, writer
<1> QED
  BY <1>1, <1>2, <1>3, <1>4 DEF WholeInv

(* Opening sets the state logger's flag.                                   *)
LEMMA OpenStartedWhole ==
    ASSUME SingleReader, ~EarlyOpen, SafeInv, WholeInv,
           NEW r \in Readers, OpenStarted(r)
    PROVE  WholeInv'
<1> USE LogAssumption DEF Blocks, Contexts
<1>1. ClosedInv'
  BY DEF SafeInv, WholeInv, ClosedInv, AllClosed, OpenStarted, locks, list,
     heap, writer
<1>2. ExactInv'
  BY DEF SafeInv, WholeInv, ReaderInv, ExactInv, OpenStarted, locks, list,
     heap, writer
<1>3. DummyInv'
  BY DEF SafeInv, WholeInv, DummyInv, OpenStarted, locks, list, heap, writer
<1>4. ChainInv'
  BY DEF WholeInv, ChainInv, Linking, OpenStarted, locks, list, heap, writer
<1> QED
  BY <1>1, <1>2, <1>3, <1>4 DEF WholeInv

(* Opening ends.                                                           *)
LEMMA OpenDoneWhole ==
    ASSUME SingleReader, ~EarlyOpen, SafeInv, WholeInv,
           NEW r \in Readers, OpenDone(r)
    PROVE  WholeInv'
<1> USE LogAssumption DEF Blocks, Contexts
<1>1. ClosedInv'
  BY DEF SafeInv, WholeInv, ClosedInv, AllClosed, OpenDone, locks, list, heap,
     writer, slogger
<1>2. ExactInv'
  BY DEF SafeInv, WholeInv, ReaderInv, ExactInv, OpenDone, locks, list, heap,
     writer, slogger
<1>3. DummyInv'
  BY DEF SafeInv, WholeInv, DummyInv, OpenDone, locks, list, heap, writer,
     slogger
<1>4. ChainInv'
  BY DEF WholeInv, ChainInv, Linking, OpenDone, locks, list, heap, writer,
     slogger
<1> QED
  BY <1>1, <1>2, <1>3, <1>4 DEF WholeInv

(* The device is closed.                                                   *)
LEMMA CloseWhole ==
    ASSUME SingleReader, ~EarlyOpen, SafeInv, WholeInv,
           NEW r \in Readers, Close(r)
    PROVE  WholeInv'
<1> USE LogAssumption DEF Blocks, Contexts
<1>1. ClosedInv'
  BY DEF SafeInv, WholeInv, ClosedInv, AllClosed, Close, locks, list, heap,
     writer, slogger
<1>2. ExactInv'
  BY DEF SafeInv, WholeInv, ReaderInv, ExactInv, Close, locks, list, heap,
     writer, slogger
<1>3. DummyInv'
  BY DEF SafeInv, WholeInv, DummyInv, Close, locks, list, heap, writer,
     slogger
<1>4. ChainInv'
  BY DEF WholeInv, ChainInv, Linking, Close, locks, list, heap, writer,
     slogger
<1> QED
  BY <1>1, <1>2, <1>3, <1>4 DEF WholeInv

(* Closing clears the state logger's flag.                                 *)
LEMMA CloseStopWhole ==
    ASSUME SingleReader, ~EarlyOpen, SafeInv, WholeInv,
           NEW r \in Readers, CloseStop(r)
    PROVE  WholeInv'
<1> USE LogAssumption DEF Blocks, Contexts
<1>1. ClosedInv'
  BY DEF SafeInv, WholeInv, ClosedInv, AllClosed, CloseStop, locks, list,
     heap, writer
<1>2. ExactInv'
  BY DEF SafeInv, WholeInv, ExactInv, CloseStop, locks, list, heap, writer
<1>3. DummyInv'
  BY DEF SafeInv, WholeInv, DummyInv, CloseStop, locks, list, heap, writer
<1>4. ChainInv'
  BY DEF WholeInv, ChainInv, Linking, CloseStop, locks, list, heap, writer
<1> QED
  BY <1>1, <1>2, <1>3, <1>4 DEF WholeInv

(* Closing cancels the state logger's work.                                *)
LEMMA CloseCancelWhole ==
    ASSUME SingleReader, ~EarlyOpen, SafeInv, WholeInv,
           NEW r \in Readers, CloseCancel(r)
    PROVE  WholeInv'
<1> USE LogAssumption DEF Blocks, Contexts
<1>1. ClosedInv'
  BY DEF SafeInv, WholeInv, ClosedInv, AllClosed, CloseCancel, locks, list,
     heap, writer
<1>2. ExactInv'
  BY DEF SafeInv, WholeInv, ReaderInv, ExactInv, CloseCancel, locks, list,
     heap, writer
<1>3. DummyInv'
  BY DEF SafeInv, WholeInv, DummyInv, CloseCancel, locks, list, heap, writer
<1>4. ChainInv'
  BY DEF WholeInv, ChainInv, Linking, CloseCancel, locks, list, heap, writer
<1> QED
  BY <1>1, <1>2, <1>3, <1>4 DEF WholeInv

(* A read begins.                                                          *)
LEMMA ReadWhole ==
    ASSUME SingleReader, ~EarlyOpen, SafeInv, WholeInv,
           NEW r \in Readers, NEW n \in 0 .. MaxCount, Read(r, n)
    PROVE  WholeInv'
<1> USE LogAssumption DEF Blocks, Contexts
<1>1. ClosedInv'
  BY DEF SafeInv, WholeInv, ClosedInv, AllClosed, Read, locks, list, heap,
     writer, slogger
<1>2. ExactInv'
  BY DEF SafeInv, WholeInv, ReaderInv, HeapInv, ExactInv, Read, locks, list,
     heap, writer, slogger
<1>3. DummyInv'
  BY DEF SafeInv, WholeInv, DummyInv, Read, locks, list, heap, writer, slogger
<1>4. ChainInv'
  BY DEF WholeInv, ChainInv, Linking, Read, locks, list, heap, writer, slogger
<1> QED
  BY <1>1, <1>2, <1>3, <1>4 DEF WholeInv

(* The first read drops the dummy block.                                   *)
LEMMA ReadFirstWhole ==
    ASSUME SingleReader, ~EarlyOpen, SafeInv, WholeInv,
           NEW r \in Readers, ReadFirst(r)
    PROVE  WholeInv'
<1> USE LogAssumption DEF Blocks, Contexts
<1>1. ClosedInv'
  BY DEF SafeInv, WholeInv, ClosedInv, AllClosed, ReadFirst, ReadReturn,
     TakeBlock, locks, heap, writer, slogger
<1>2. ExactInv'
  BY SMTT(40) DEF SafeInv, WholeInv, TypeOK, NextInv, ExactInv, DummyInv, SingleReader,
     ReadFirst, ReadReturn, TakeBlock, locks, heap, writer, slogger
<1>3. DummyInv'
  BY DEF SafeInv, WholeInv, TypeOK, NextInv, DummyInv, SingleReader,
     ReadFirst, ReadReturn, TakeBlock, locks, heap, writer, slogger
<1>4. ChainInv'
  BY DEF WholeInv, ChainInv, Linking, ReadFirst, ReadReturn, TakeBlock, locks,
     heap, writer, slogger
<1> QED
  BY <1>1, <1>2, <1>3, <1>4 DEF WholeInv

(* The first read frees the dummy block.                                   *)
LEMMA ReadFirstFreeWhole ==
    ASSUME SingleReader, ~EarlyOpen, SafeInv, WholeInv,
           NEW r \in Readers, ReadFirstFree(r)
    PROVE  WholeInv'
<1> USE LogAssumption DEF Blocks, Contexts
<1>1. ClosedInv'
  BY DEF SafeInv, WholeInv, ClosedInv, AllClosed, ReadFirstFree, FreeBlock,
     locks, list, writer, slogger
<1>2. ExactInv'
  <2>1. phase = "up" /\ phase' = "up" /\ UNCHANGED <<start_log, nalloc>>
    BY DEF SafeInv, PhaseInv, Reading, ReadFirstFree, locks, list
  <2>2. \A q \in Readers : q = r
    BY DEF SingleReader
  <2>3. live \subseteq start_log .. nalloc \cup {log[r]}
    BY <2>1, <2>2 DEF WholeInv, ExactInv
  <2>4. live' = live \ {log[r]}
    BY DEF ReadFirstFree, FreeBlock
  <2>5. live' \subseteq start_log .. nalloc
    BY <2>3, <2>4
  <2> QED
    BY <2>1, <2>5 DEF ExactInv
<1>3. DummyInv'
  BY DEF SafeInv, WholeInv, TypeOK, DummyInv, SingleReader, ReadFirstFree,
     FreeBlock, locks, list, writer, slogger
<1>4. ChainInv'
  BY DEF WholeInv, ChainInv, Linking, ReadFirstFree, FreeBlock, locks, list,
     writer, slogger
<1> QED
  BY <1>1, <1>2, <1>3, <1>4 DEF WholeInv

(* A read looks for another record.                                        *)
LEMMA ReadLoopWhole ==
    ASSUME SingleReader, ~EarlyOpen, SafeInv, WholeInv,
           NEW r \in Readers, ReadLoop(r)
    PROVE  WholeInv'
<1> USE LogAssumption DEF Blocks, Contexts
<1>1. ClosedInv'
  BY DEF SafeInv, WholeInv, ClosedInv, AllClosed, ReadLoop, ReadReturn, locks,
     list, heap, writer, slogger
<1>2. ExactInv'
  BY DEF SafeInv, WholeInv, ExactInv, SingleReader, ReadLoop, ReadReturn,
     locks, list, heap, writer, slogger
<1>3. DummyInv'
  BY DEF SafeInv, WholeInv, TypeOK, NextInv, DummyInv, SingleReader, ReadLoop,
     ReadReturn, locks, list, heap, writer, slogger
<1>4. ChainInv'
  BY DEF WholeInv, ChainInv, Linking, ReadLoop, ReadReturn, locks, list, heap,
     writer, slogger
<1> QED
  BY <1>1, <1>2, <1>3, <1>4 DEF WholeInv

(* A read copies the record at the head.                                   *)
LEMMA ReadCopyWhole ==
    ASSUME SingleReader, ~EarlyOpen, SafeInv, WholeInv,
           NEW r \in Readers, ReadCopy(r)
    PROVE  WholeInv'
<1> USE LogAssumption DEF Blocks, Contexts
<1>1. ClosedInv'
  BY DEF SafeInv, WholeInv, ClosedInv, AllClosed, ReadCopy, locks, list, heap,
     writer, slogger
<1>2. ExactInv'
  BY DEF SafeInv, WholeInv, ReaderInv, ExactInv, ReadCopy, locks, list, heap,
     writer, slogger
<1>3. DummyInv'
  <2>1. UNCHANGED <<phase, first_read, start_log>>
    BY DEF ReadCopy, locks, list
  <2>2. rpc[r] = "copy" /\ rpc'[r] = "take" /\ \A q \in Readers : q = r
    BY DEF SafeInv, TypeOK, ReadCopy, SingleReader
  <2> QED
    BY <2>1, <2>2 DEF WholeInv, DummyInv
<1>4. ChainInv'
  BY DEF WholeInv, ChainInv, Linking, ReadCopy, locks, list, heap, writer,
     slogger
<1> QED
  BY <1>1, <1>2, <1>3, <1>4 DEF WholeInv

(* A read moves the head of the list.                                      *)
LEMMA ReadTakeWhole ==
    ASSUME SingleReader, ~EarlyOpen, SafeInv, WholeInv,
           NEW r \in Readers, ReadTake(r)
    PROVE  WholeInv'
<1> USE LogAssumption DEF Blocks, Contexts
<1>1. ClosedInv'
  BY DEF SafeInv, WholeInv, ClosedInv, AllClosed, ReadTake, TakeBlock, locks,
     heap, writer, slogger
<1>2. ExactInv'
  BY SMTT(40) DEF SafeInv, WholeInv, TypeOK, PhaseInv, NextInv, ReaderInv, HeapInv,
     ExactInv, ReadTake, TakeBlock, locks, heap, writer, slogger
<1>3. DummyInv'
  BY DEF SafeInv, WholeInv, ReaderInv, DummyInv, ReadTake, TakeBlock, locks,
     heap, writer, slogger
<1>4. ChainInv'
  BY DEF WholeInv, ChainInv, Linking, ReadTake, TakeBlock, locks, heap,
     writer, slogger
<1> QED
  BY <1>1, <1>2, <1>3, <1>4 DEF WholeInv

(* A read frees the block it has taken.                                    *)
LEMMA ReadFreeWhole ==
    ASSUME SingleReader, ~EarlyOpen, SafeInv, WholeInv,
           NEW r \in Readers, ReadFree(r)
    PROVE  WholeInv'
<1> USE LogAssumption DEF Blocks, Contexts
<1>1. ClosedInv'
  BY DEF SafeInv, WholeInv, ClosedInv, AllClosed, ReadFree, FreeBlock, locks,
     list, writer, slogger
<1>2. ExactInv'
  <2>1. phase = "up" /\ phase' = "up" /\ UNCHANGED <<start_log, nalloc>>
    BY DEF SafeInv, PhaseInv, Reading, ReadFree, locks, list
  <2>2. \A q \in Readers : q = r
    BY DEF SingleReader
  <2>3. live \subseteq start_log .. nalloc \cup {log[r]}
    BY <2>1, <2>2 DEF WholeInv, ExactInv
  <2>4. live' = live \ {log[r]}
    BY DEF ReadFree, FreeBlock
  <2>5. live' \subseteq start_log .. nalloc
    BY <2>3, <2>4
  <2> QED
    BY <2>1, <2>5 DEF ExactInv
<1>3. DummyInv'
  BY DEF SafeInv, WholeInv, DummyInv, ReadFree, FreeBlock, locks, list,
     writer, slogger
<1>4. ChainInv'
  BY DEF WholeInv, ChainInv, Linking, ReadFree, FreeBlock, locks, list,
     writer, slogger
<1> QED
  BY <1>1, <1>2, <1>3, <1>4 DEF WholeInv

(* log_exit removes the device.                                            *)
LEMMA LogExitWhole ==
    ASSUME SingleReader, ~EarlyOpen, SafeInv, WholeInv,
           LogExit
    PROVE  WholeInv'
<1> USE LogAssumption DEF Blocks, Contexts
<1>1. ClosedInv'
  BY DEF SafeInv, WholeInv, ClosedInv, LogExit, AllClosed, list, heap, writer,
     reader, slogger
<1>2. ChainInv'
  BY DEF SafeInv, WholeInv, ChainInv, Linking, LogExit, AllClosed, list, heap,
     writer, reader, slogger
<1>3. ExactInv'
  BY DEF SafeInv, WholeInv, ExactInv, LogExit, AllClosed, list, heap, writer,
     reader, slogger
<1>4. DummyInv'
  BY DEF SafeInv, WholeInv, DummyInv, LogExit, AllClosed, list, heap, writer,
     reader, slogger
<1> QED
  BY <1>1, <1>2, <1>3, <1>4 DEF WholeInv

(* purge_log detaches the list.                                            *)
LEMMA PurgeDetachWhole ==
    ASSUME SingleReader, ~EarlyOpen, SafeInv, WholeInv,
           PurgeDetach
    PROVE  WholeInv'
<1> USE LogAssumption DEF Blocks, Contexts
<1>1. ClosedInv'
  BY DEF SafeInv, WholeInv, ClosedInv, AllClosed, PurgeDetach, heap, writer,
     reader, slogger
<1>2. ChainInv'
  BY DEF SafeInv, WholeInv, ChainInv, Linking, PurgeDetach, heap, writer,
     reader, slogger
<1>3. ExactInv'
  BY DEF SafeInv, WholeInv, PhaseInv, ExactInv, AllClosed, PurgeDetach, heap,
     writer, reader, slogger
<1>4. DummyInv'
  BY DEF SafeInv, WholeInv, DummyInv, PurgeDetach, heap, writer, reader,
     slogger
<1> QED
  BY <1>1, <1>2, <1>3, <1>4 DEF WholeInv

(* purge_log frees one block.                                              *)
LEMMA PurgeFreeWhole ==
    ASSUME SingleReader, ~EarlyOpen, SafeInv, WholeInv,
           PurgeFree
    PROVE  WholeInv'
<1> USE LogAssumption DEF Blocks, Contexts
<1>1. ExactInv'
  BY SMTT(40) DEF SafeInv, WholeInv, TypeOK, LockInv, PhaseInv, PutInv, HeapInv,
     EntryInv, ChainInv, ExactInv, Linking, AllClosed, SingleReader,
     PurgeFree, locks, list, writer, reader, slogger
<1>2. ClosedInv' /\ ChainInv' /\ DummyInv'
  BY DEF WholeInv, ClosedInv, ChainInv, DummyInv, AllClosed, Linking,
     PurgeFree, locks, list, writer, reader, slogger
<1> QED
  BY <1>1, <1>2 DEF WholeInv

(* log_exit destroys the cache.                                            *)
LEMMA DestroyCacheWhole ==
    ASSUME SingleReader, ~EarlyOpen, SafeInv, WholeInv,
           DestroyCache
    PROVE  WholeInv'
<1> USE LogAssumption DEF Blocks, Contexts
<1>1. ClosedInv'
  BY DEF SafeInv, WholeInv, ClosedInv, AllClosed, DestroyCache, list, heap,
     writer, reader, slogger
<1>2. ChainInv'
  BY DEF SafeInv, WholeInv, ChainInv, DestroyCache, list, heap, writer,
     reader, slogger
<1>3. ExactInv'
  BY DEF SafeInv, WholeInv, ExactInv, DestroyCache, list, heap, writer,
     reader, slogger
<1>4. DummyInv'
  BY DEF SafeInv, WholeInv, DummyInv, DestroyCache, list, heap, writer,
     reader, slogger
<1> QED
  BY <1>1, <1>2, <1>3, <1>4 DEF WholeInv

(* What the state logger does to its own work leaves the list alone.       *)
LEMMA LoggerWhole ==
    ASSUME WholeInv, LoggerTimer \/ LoggerStep
    PROVE  WholeInv'
<1>1. UNCHANGED <<locks, list, heap, first_read, dev_open, writer, reader, c1>>
  BY DEF LoggerTimer, LoggerStep, LoggerTake, LoggerLogged, LoggerFlag, LoggerResched
<1> QED
  BY <1>1 DEF WholeInv, ClosedInv, ChainInv, ExactInv, DummyInv, AllClosed, Linking,
     locks, list, heap, writer, reader

(* WholeInv holds before the module is loaded.                             *)
LEMMA WholeInit ==
    ASSUME Init
    PROVE  WholeInv
BY DEF Init, WholeInv, ClosedInv, ChainInv, ExactInv, DummyInv, AllClosed

(* Every step keeps WholeInv.                                              *)
LEMMA WholeNext ==
    ASSUME SingleReader, ~EarlyOpen, SafeInv, WholeInv, [Next]_vars
    PROVE  WholeInv'
<1>1. CASE LogInitRegister \/ LogInitAlloc \/ LogInitPublish \/ LogInitFail
  BY <1>1, LogInitRegisterWhole, LogInitAllocWhole, LogInitPublishWhole, LogInitFailWhole
<1>2. ASSUME NEW w \in Writers, GetLog(w)
      PROVE  WholeInv'
  BY <1>2, GetLogWhole
<1>3. ASSUME NEW w \in Contexts, GetLogLock(w) \/ GetLogEnd(w)
      PROVE  WholeInv'
  BY <1>3, GetLogLockWhole, GetLogNullWhole, GetLogBlockWhole DEF GetLogEnd
<1>4. ASSUME NEW w \in Contexts, PutLog(w)
      PROVE  WholeInv'
  BY <1>4, PutLogNextWhole, PutLogCurrentWhole, PutLogUnlockWhole DEF PutLog
<1>5. CASE LoggerTimer \/ LoggerLog \/ LoggerStep
  BY <1>5, LoggerWhole, LoggerLogWhole
<1>6. ASSUME NEW r \in Readers, Open(r) \/ OpenStep(r)
      PROVE  WholeInv'
  BY <1>6, OpenWhole, OpenScheduleWhole, OpenStartedWhole, OpenDoneWhole DEF OpenStep
<1>7. ASSUME NEW r \in Readers, Close(r) \/ CloseStep(r)
      PROVE  WholeInv'
  BY <1>7, CloseWhole, CloseStopWhole, CloseCancelWhole DEF CloseStep
<1>8. ASSUME NEW r \in Readers, NEW n \in 0 .. MaxCount, Read(r, n)
      PROVE  WholeInv'
  BY <1>8, ReadWhole
<1>9. ASSUME NEW r \in Readers, ReadStep(r)
      PROVE  WholeInv'
  BY <1>9, ReadFirstWhole, ReadFirstFreeWhole, ReadLoopWhole, ReadCopyWhole, ReadTakeWhole,
     ReadFreeWhole DEF ReadStep
<1>10. CASE LogExit \/ PurgeDetach \/ PurgeFree \/ DestroyCache
  BY <1>10, LogExitWhole, PurgeDetachWhole, PurgeFreeWhole, DestroyCacheWhole
<1>11. CASE UNCHANGED vars
  BY <1>11 DEF vars, locks, list, heap, writer, reader, slogger, WholeInv, ClosedInv,
     ChainInv, ExactInv, DummyInv, AllClosed, Linking
<1> QED
  BY <1>1, <1>2, <1>3, <1>4, <1>5, <1>6, <1>7, <1>8, <1>9, <1>10, <1>11 DEF Next, Unloaded

(* So WholeInv always holds.                                               *)
LEMMA AlwaysWhole ==
    ASSUME SingleReader, ~EarlyOpen
    PROVE  Spec => []WholeInv
<1>1. Init => WholeInv
  BY WholeInit
<1>2. SafeInv /\ WholeInv /\ [Next]_vars => WholeInv'
  BY WholeNext
<1> QED
  BY <1>1, <1>2, AlwaysSafe, PTL DEF Spec

(* When the device is not opened before log_init returns, log_exit frees   *)
(* every block that was allocated and not consumed, however many writers   *)
(* and a late state logger were logging: kmem_cache_destroy finds the cache*)
(* empty.                                                                  *)
THEOREM LogNothingLeaked ==
    ASSUME SingleReader, ~EarlyOpen
    PROVE  Spec => []NothingLeaked
<1>1. WholeInv => NothingLeaked
  BY DEF WholeInv, ExactInv, NothingLeaked
<1> QED
  BY <1>1, AlwaysWhole, PTL

-----------------------------------------------------------------------------
(* The n entries of e from number lo on, as a sequence.                    *)
Window(e, lo, n) == [k \in 1 .. n |-> e[lo + k - 1]]

(* A window grows at its end as a sequence does.                           *)
LEMMA WindowAppend ==
    ASSUME NEW e, NEW lo \in Nat, NEW n \in Nat
    PROVE  Window(e, lo, n + 1) = Append(Window(e, lo, n), e[lo + n])
<1> DEFINE S == {e[lo + k - 1] : k \in 1 .. n + 1}
<1>0. \A k \in 1 .. n + 1 : e[lo + k - 1] \in S
  OBVIOUS
<1> HIDE DEF S
<1>1. /\ Window(e, lo, n) \in Seq(S) /\ Len(Window(e, lo, n)) = n
      /\ \A k \in 1 .. n : Window(e, lo, n)[k] = e[lo + k - 1]
  <2>1. \A k \in 1 .. n : e[lo + k - 1] \in S
    BY <1>0
  <2> QED
    BY <2>1 DEF Window
<1>2. /\ Window(e, lo, n + 1) \in Seq(S) /\ Len(Window(e, lo, n + 1)) = n + 1
      /\ \A k \in 1 .. n + 1 : Window(e, lo, n + 1)[k] = e[lo + k - 1]
  <2>1. n + 1 \in Nat
    OBVIOUS
  <2> QED
    BY <1>0, <2>1 DEF Window
<1>3. e[lo + n] \in S
  <2>1. n + 1 \in 1 .. n + 1 /\ lo + (n + 1) - 1 = lo + n
    OBVIOUS
  <2> QED
    BY <1>0, <2>1
<1> DEFINE W == Window(e, lo, n)
           V == Window(e, lo, n + 1)
           A == Append(W, e[lo + n])
<1>4. /\ A \in Seq(S) /\ Len(A) = n + 1
      /\ \A k \in 1 .. n : A[k] = W[k]
      /\ A[n + 1] = e[lo + n]
  BY <1>1, <1>3, AppendProperties
<1>5. \A k \in 1 .. n + 1 : V[k] = A[k]
  <2> HIDE DEF V, W, A
  <2> TAKE k \in 1 .. n + 1
  <2>1. CASE k \in 1 .. n
    BY <1>1, <1>2, <1>4, <2>1 DEF V, W
  <2>2. CASE k = n + 1
    <3>1. lo + (n + 1) - 1 = lo + n
      OBVIOUS
    <3> QED
      BY <1>2, <1>4, <2>2, <3>1 DEF V
  <2> QED
    BY <2>1, <2>2
<1> HIDE DEF V, A
<1>6. V = A
  <2>1. V \in Seq(S) /\ Len(V) = n + 1
    BY <1>2 DEF V
  <2> QED
    BY <1>4, <1>5, <2>1, SeqEqual
<1> QED
  BY <1>6 DEF V, A

(* A window without its first entry is the tail of the window.             *)
LEMMA WindowTail ==
    ASSUME NEW e, NEW lo \in Nat, NEW n \in Nat
    PROVE  /\ Window(e, lo, n + 1) # << >>
           /\ Head(Window(e, lo, n + 1)) = e[lo]
           /\ Tail(Window(e, lo, n + 1)) = Window(e, lo + 1, n)
<1> DEFINE S == {e[lo + k - 1] : k \in 1 .. n + 1}
<1>0. \A k \in 1 .. n + 1 : e[lo + k - 1] \in S
  OBVIOUS
<1> HIDE DEF S
<1> DEFINE W == Window(e, lo, n + 1)
           V == Window(e, lo + 1, n)
<1>1. W \in Seq(S) /\ Len(W) = n + 1 /\ \A k \in 1 .. n + 1 : W[k] = e[lo + k - 1]
  <2>1. n + 1 \in Nat
    OBVIOUS
  <2> QED
    BY <1>0, <2>1 DEF Window
<1>2. \A k \in 1 .. n : (lo + 1) + k - 1 = lo + (k + 1) - 1 /\ k + 1 \in 1 .. n + 1
  OBVIOUS
<1>3. V \in Seq(S) /\ Len(V) = n /\ \A k \in 1 .. n : V[k] = e[(lo + 1) + k - 1]
  <2>1. lo + 1 \in Nat
    OBVIOUS
  <2>2. \A k \in 1 .. n : e[(lo + 1) + k - 1] \in S
    BY <1>0, <1>2
  <2> QED
    BY <2>1, <2>2 DEF Window
<1> HIDE DEF W, V
<1>4. W # << >> /\ Head(W) = e[lo]
  <2>1. W # << >> /\ Head(W) = W[1]
    BY <1>1
  <2>2. 1 \in 1 .. n + 1 /\ lo + 1 - 1 = lo
    OBVIOUS
  <2> QED
    BY <1>1, <2>1, <2>2
<1>5. Tail(W) \in Seq(S) /\ Len(Tail(W)) = n /\ \A k \in 1 .. n : Tail(W)[k] = W[k + 1]
  BY <1>1, <1>4, HeadTailProperties
<1>6. \A k \in 1 .. n : Tail(W)[k] = V[k]
  BY <1>1, <1>2, <1>3, <1>5
<1>7. Tail(W) = V
  BY <1>3, <1>5, <1>6, SeqEqual
<1> QED
  BY <1>4, <1>7 DEF W, V

(* The pending records are those of the blocks from FirstPending to the    *)
(* end of the list, which hold records.                                    *)
LEMMA PendingIsWindow ==
    ASSUME SafeInv, WholeInv, start_log # 0
    PROVE  /\ FirstPending \in Nat /\ 2 <= FirstPending
           /\ current_log \in Nat /\ current_log <= nalloc
           /\ current_log + 1 - FirstPending \in Nat
           /\ PendingRecords = Window(entry, FirstPending, current_log + 1 - FirstPending)
           /\ \A b \in FirstPending .. nalloc : entry[b] \in Records
<1> USE LogAssumption
<1>1. phase = "up" \/ phase = "exiting"
  BY DEF SafeInv, TypeOK, PhaseInv
<1>2. /\ start_log \in Nat /\ current_log \in Nat /\ nalloc \in Nat
      /\ 1 <= start_log /\ start_log <= current_log /\ current_log <= nalloc
  BY <1>1 DEF SafeInv, TypeOK, PhaseInv
<1>3. FirstPending = start_log + 1 \/ FirstPending = start_log
  BY DEF FirstPending
<1>4. FirstPending = start_log => 2 <= start_log
  <2>1. CASE first_read
    <3>1. start_log # start_log + 1
      BY <1>2
    <3>2. FirstPending = start_log => \E r \in Readers : rpc[r] = "ffree"
      BY <2>1, <3>1 DEF FirstPending
    <3> QED
      BY <1>1, <1>2, <3>2 DEF WholeInv, DummyInv
  <2>2. CASE ~first_read
    BY <1>2, <2>2 DEF SafeInv, FirstInv
  <2> QED
    BY <2>1, <2>2
<1>5. 2 <= FirstPending /\ FirstPending \in Nat /\ current_log + 1 - FirstPending \in Nat
  BY <1>2, <1>3, <1>4
<1>6. \A b \in FirstPending .. nalloc : b \in 2 .. nalloc
  BY <1>2, <1>5
<1>7. \A b \in FirstPending .. nalloc : entry[b] \in Records
  BY <1>6 DEF SafeInv, EntryInv
<1>8. PendingRecords = Window(entry, FirstPending, current_log + 1 - FirstPending)
  BY DEF PendingRecords, Window
<1> QED
  BY <1>2, <1>5, <1>7, <1>8

(* A step that moves neither end of the list and does not touch what tells *)
(* FirstPending leaves the queue as it is.                                 *)
LEMMA PendingQuiet ==
    ASSUME UNCHANGED <<start_log, current_log, entry, first_read>>,
           \A r \in Readers : /\ rpc'[r] = "ffree" <=> rpc[r] = "ffree"
                              /\ rpc'[r] = "take" <=> rpc[r] = "take"
    PROVE  PendingRecords' = PendingRecords
<1>1. FirstPending' = FirstPending
  BY DEF FirstPending
<1> QED
  BY <1>1 DEF PendingRecords

(* LogInitPublish makes the dummy block the only one: nothing is pending.  *)
LEMMA PublishQueue ==
    ASSUME SafeInv, WholeInv, LogInitPublish
    PROVE  PendingRecords' = PendingRecords
<1> USE LogAssumption
<1>1. start_log = 0 /\ current_log = 1 /\ nalloc = 1
  BY DEF SafeInv, TypeOK, PhaseInv, WholeInv, ExactInv, LogInitPublish
<1>2. start_log' = 1 /\ current_log' = 1 /\ first_read'
  BY <1>1 DEF LogInitPublish
<1>3. \A r \in Readers : rpc'[r] # "ffree"
  BY DEF WholeInv, ClosedInv, AllClosed, LogInitPublish, reader
<1>4. FirstPending' = 2
  BY <1>2, <1>3 DEF FirstPending
<1>5. PendingRecords' = << >>
  BY <1>2, <1>4 DEF PendingRecords
<1> QED
  BY <1>1, <1>5 DEF PendingRecords

(* get_log fills in a block that is not linked yet.                        *)
LEMMA GetLogBlockQueue ==
    ASSUME SafeInv, WholeInv, NEW w \in Contexts, NEW rec \in Records, GetLogBlock(w, rec)
    PROVE  PendingRecords' = PendingRecords
<1> USE LogAssumption
<1>1. UNCHANGED <<start_log, current_log, first_read, rpc>>
  BY DEF GetLogBlock, reader
<1>2. FirstPending' = FirstPending
  BY <1>1 DEF FirstPending
<1>3. CASE start_log = 0
  BY <1>1, <1>3 DEF PendingRecords
<1>4. CASE start_log # 0
  <2> DEFINE n == current_log + 1 - FirstPending
  <2>1. n \in Nat /\ FirstPending \in Nat /\ 2 <= FirstPending
    BY <1>4, PendingIsWindow
  <2>2. current_log <= nalloc /\ nalloc + 1 <= MaxBlocks /\ nalloc \in Nat /\ current_log \in Nat
    BY DEF SafeInv, TypeOK, PhaseInv, GetLogBlock
  <2>3. entry' = [entry EXCEPT ![nalloc + 1] = rec] /\ entry \in [Blocks -> Records \cup {None}]
    BY DEF SafeInv, TypeOK, GetLogBlock
  <2>4. \A k \in 1 .. n : FirstPending + k - 1 \in Blocks /\ FirstPending + k - 1 # nalloc + 1
    BY <2>1, <2>2 DEF Blocks
  <2>5. \A k \in 1 .. n : entry'[FirstPending + k - 1] = entry[FirstPending + k - 1]
    BY <2>3, <2>4
  <2> QED
    BY <1>1, <1>2, <2>5 DEF PendingRecords
<1> QED
  BY <1>3, <1>4

(* Setting current_log is the point at which a record is logged.           *)
LEMMA PutLogCurrentQueue ==
    ASSUME SafeInv, WholeInv, NEW w \in Contexts, PutLogCurrent(w)
    PROVE  \E rec \in Records : Queue!Log(rec)
<1> USE LogAssumption
<1>1. /\ current_log = nalloc - 1 /\ nalloc >= 2 /\ nalloc \in Nat
      /\ UNCHANGED <<start_log, first_read, rpc, entry, delivered>>
      /\ current_log' = nalloc
  BY DEF SafeInv, TypeOK, PutInv, PutLogCurrent, reader
<1>2. start_log # 0
  BY <1>1 DEF SafeInv, TypeOK, PhaseInv, PutInv, WholeInv, ExactInv, PutLogCurrent
<1>3. FirstPending' = FirstPending
  BY <1>1 DEF FirstPending
<1> DEFINE lo == FirstPending
           n == current_log + 1 - FirstPending
<1>4. /\ lo \in Nat /\ n \in Nat /\ PendingRecords = Window(entry, lo, n)
      /\ \A b \in lo .. nalloc : entry[b] \in Records
  BY <1>2, PendingIsWindow
<1>5. lo + n = nalloc /\ current_log' + 1 - lo = n + 1
  BY <1>1, <1>4
<1>6. PendingRecords' = Window(entry, lo, n + 1)
  BY <1>1, <1>2, <1>3, <1>5 DEF PendingRecords, Window
<1> HIDE DEF n, lo
<1>7. Window(entry, lo, n + 1) = Append(Window(entry, lo, n), entry[lo + n])
  BY <1>4, WindowAppend
<1>8. entry[nalloc] \in Records
  <2>1. nalloc \in lo .. nalloc
    BY <1>1, <1>4, <1>5
  <2> QED
    BY <1>4, <2>1
<1>9. Queue!Log(entry[nalloc])
  BY <1>1, <1>4, <1>5, <1>6, <1>7 DEF Queue!Log
<1> QED
  BY <1>8, <1>9

(* Dropping the dummy block changes nothing: it holds no record.           *)
LEMMA ReadFirstQueue ==
    ASSUME SingleReader, SafeInv, WholeInv, NEW r \in Readers, ReadFirst(r)
    PROVE  PendingRecords' = PendingRecords
<1> USE LogAssumption
<1>1. \A q \in Readers : q = r
  BY DEF SingleReader
<1>2. phase = "up" /\ start_log \in Blocks /\ first_read /\ rpc[r] = "first"
  BY DEF SafeInv, TypeOK, PhaseInv, Reading, WholeInv, DummyInv, ReadFirst, Blocks
<1>3. UNCHANGED <<current_log, entry, first_read>>
  BY DEF ReadFirst
<1>4. CASE next[start_log] = 0
  <2>1. start_log' = start_log /\ rpc'[r] = "idle"
    BY <1>4 DEF ReadFirst, ReadReturn, SafeInv, TypeOK
  <2> QED
    BY <1>1, <1>2, <1>3, <2>1, PendingQuiet
<1>5. CASE next[start_log] # 0
  <2>1. next[start_log] = start_log + 1
    BY <1>2, <1>5 DEF SafeInv, NextInv
  <2>2. start_log' = start_log + 1 /\ rpc'[r] = "ffree"
    BY <1>5, <2>1 DEF ReadFirst, TakeBlock, SafeInv, TypeOK
  <2>3. FirstPending = start_log + 1
    BY <1>1, <1>2 DEF FirstPending
  <2>4. FirstPending' = start_log + 1
    BY <1>1, <1>3, <2>2 DEF FirstPending
  <2>5. start_log # 0 /\ start_log' # 0
    BY <1>2, <2>2 DEF Blocks
  <2> QED
    BY <1>3, <2>3, <2>4, <2>5 DEF PendingRecords
<1> QED
  BY <1>4, <1>5

(* Freeing the dummy block, and clearing first_read, changes nothing.      *)
LEMMA ReadFirstFreeQueue ==
    ASSUME SingleReader, SafeInv, WholeInv, NEW r \in Readers, ReadFirstFree(r)
    PROVE  PendingRecords' = PendingRecords
<1>1. \A q \in Readers : q = r
  BY DEF SingleReader
<1>2. /\ UNCHANGED <<start_log, current_log, entry>>
      /\ rpc[r] = "ffree" /\ rpc'[r] = "loop" /\ ~first_read'
  BY DEF SafeInv, TypeOK, ReadFirstFree, list
<1>3. FirstPending = start_log /\ FirstPending' = start_log
  BY <1>1, <1>2 DEF FirstPending
<1> QED
  BY <1>2, <1>3 DEF PendingRecords

(* Copying the record at the head of the list delivers it.                 *)
LEMMA ReadCopyQueue ==
    ASSUME SingleReader, SafeInv, WholeInv, NEW r \in Readers, ReadCopy(r)
    PROVE  Queue!Deliver
<1> USE LogAssumption
<1>1. \A q \in Readers : q = r
  BY DEF SingleReader
<1>2. /\ UNCHANGED <<start_log, current_log, entry, first_read>>
      /\ rpc[r] = "copy" /\ rpc'[r] = "take" /\ ~first_read
      /\ start_log < current_log /\ start_log # 0 /\ start_log \in Nat /\ current_log \in Nat
      /\ delivered' = Append(delivered, entry[start_log])
  BY DEF SafeInv, TypeOK, PhaseInv, ReaderInv, Reading, ReadCopy, list
<1>3. FirstPending = start_log /\ FirstPending' = start_log + 1
  BY <1>1, <1>2 DEF FirstPending
<1> DEFINE n == current_log - start_log
<1>4. n \in Nat /\ current_log + 1 - start_log = n + 1
      /\ current_log + 1 - (start_log + 1) = n
  BY <1>2
<1>5. PendingRecords = Window(entry, start_log, n + 1)
  BY <1>2, <1>3, <1>4, PendingIsWindow
<1>6. PendingRecords' = Window(entry, start_log + 1, n)
  BY <1>2, <1>3, <1>4 DEF PendingRecords, Window
<1> HIDE DEF n
<1>7. /\ Window(entry, start_log, n + 1) # << >>
      /\ Head(Window(entry, start_log, n + 1)) = entry[start_log]
      /\ Tail(Window(entry, start_log, n + 1)) = Window(entry, start_log + 1, n)
  <2>1. n \in Nat /\ start_log \in Nat
    BY <1>2, <1>4
  <2> QED
    BY <2>1, WindowTail, Zenon
<1> QED
  BY <1>2, <1>5, <1>6, <1>7 DEF Queue!Deliver

(* Moving the head past the record that was copied changes nothing.        *)
LEMMA ReadTakeQueue ==
    ASSUME SingleReader, SafeInv, WholeInv, NEW r \in Readers, ReadTake(r)
    PROVE  PendingRecords' = PendingRecords
<1> USE LogAssumption
<1>1. \A q \in Readers : q = r
  BY DEF SingleReader
<1>2. /\ UNCHANGED <<current_log, entry, first_read>>
      /\ rpc[r] = "take" /\ rpc'[r] = "free" /\ ~first_read
      /\ start_log \in Blocks /\ next[start_log] # 0 /\ start_log' = next[start_log]
  BY DEF SafeInv, TypeOK, PhaseInv, ReaderInv, Reading, ReadTake, TakeBlock, Blocks
<1>3. start_log' = start_log + 1 /\ start_log # 0 /\ start_log' # 0
  BY <1>2 DEF SafeInv, NextInv, Blocks
<1>4. FirstPending = start_log + 1 /\ FirstPending' = start_log + 1
  BY <1>1, <1>2, <1>3 DEF FirstPending
<1> QED
  BY <1>2, <1>3, <1>4 DEF PendingRecords

(* Detaching the list for purge_log drops what is pending.                 *)
LEMMA PurgeDetachQueue ==
    ASSUME PurgeDetach
    PROVE  Queue!Purge
BY DEF PurgeDetach, PendingRecords, Queue!Purge

(* Every step of the log is a step of the queue, or none.                  *)
LEMMA QueueStep ==
    ASSUME SingleReader, SafeInv, WholeInv, [Next]_vars
    PROVE  [Queue!Next]_<<PendingRecords, delivered>>
<1> SUFFICES \/ Queue!Next
             \/ PendingRecords' = PendingRecords /\ delivered' = delivered
  OBVIOUS
<1>1. CASE LogInitRegister \/ LogInitFail
  BY <1>1, PendingQuiet DEF LogInitRegister, LogInitFail, list, reader
<1>2. CASE LogInitAlloc
  BY <1>2 DEF SafeInv, PhaseInv, LogInitAlloc, PendingRecords
<1>3. CASE LogInitPublish
  BY <1>3, PublishQueue DEF LogInitPublish
<1>4. ASSUME NEW w \in Contexts, GetLog(w) \/ GetLogLock(w) \/ GetLogNull(w)
      PROVE  PendingRecords' = PendingRecords /\ delivered' = delivered
  BY <1>4, PendingQuiet DEF GetLog, GetLogLock, GetLogNull, list, reader
<1>5. ASSUME NEW w \in Contexts, NEW rec \in Records, GetLogBlock(w, rec)
      PROVE  PendingRecords' = PendingRecords /\ delivered' = delivered
  BY <1>5, GetLogBlockQueue DEF GetLogBlock
<1>6. ASSUME NEW w \in Contexts, PutLogCurrent(w)
      PROVE  Queue!Next
  BY <1>6, PutLogCurrentQueue DEF Queue!Next
<1>7. ASSUME NEW w \in Contexts, PutLogNext(w) \/ PutLogUnlock(w)
      PROVE  PendingRecords' = PendingRecords /\ delivered' = delivered
  BY <1>7, PendingQuiet DEF PutLogNext, PutLogUnlock, list, reader
<1>8. CASE LoggerTimer \/ LoggerLog \/ LoggerStep
  BY <1>8, PendingQuiet DEF LoggerTimer, LoggerLog, LoggerStep, LoggerTake, LoggerLogged,
     LoggerFlag, LoggerResched, list, reader
<1>9. ASSUME NEW r \in Readers, Open(r) \/ OpenStep(r) \/ Close(r) \/ CloseStep(r)
      PROVE  PendingRecords' = PendingRecords /\ delivered' = delivered
  <2>1. UNCHANGED <<start_log, current_log, entry, first_read, delivered>>
    BY <1>9 DEF Open, OpenStep, OpenSchedule, OpenStarted, OpenDone, Close, CloseStep,
       CloseStop, CloseCancel, list
  <2>2. \A q \in Readers : /\ rpc'[q] = "ffree" <=> rpc[q] = "ffree"
                           /\ rpc'[q] = "take" <=> rpc[q] = "take"
    BY <1>9 DEF Open, OpenStep, OpenSchedule, OpenStarted, OpenDone, Close, CloseStep,
       CloseStop, CloseCancel, SafeInv, TypeOK
  <2> QED
    BY <2>1, <2>2, PendingQuiet
<1>10. ASSUME NEW r \in Readers, NEW n \in 0 .. MaxCount, Read(r, n)
       PROVE  PendingRecords' = PendingRecords /\ delivered' = delivered
  BY <1>10, PendingQuiet DEF Read, list, SafeInv, TypeOK
<1>11. ASSUME NEW r \in Readers, ReadLoop(r) \/ ReadFree(r)
       PROVE  PendingRecords' = PendingRecords /\ delivered' = delivered
  <2>1. UNCHANGED <<start_log, current_log, entry, first_read, delivered>>
    BY <1>11 DEF ReadLoop, ReadFree, list
  <2>2. \A q \in Readers : /\ rpc'[q] = "ffree" <=> rpc[q] = "ffree"
                           /\ rpc'[q] = "take" <=> rpc[q] = "take"
    BY <1>11 DEF ReadLoop, ReadReturn, ReadFree, SafeInv, TypeOK
  <2> QED
    BY <2>1, <2>2, PendingQuiet
<1>12. ASSUME NEW r \in Readers, ReadFirst(r) \/ ReadFirstFree(r) \/ ReadTake(r)
       PROVE  PendingRecords' = PendingRecords /\ delivered' = delivered
  BY <1>12, ReadFirstQueue, ReadFirstFreeQueue, ReadTakeQueue
     DEF ReadFirst, ReadFirstFree, ReadTake
<1>13. ASSUME NEW r \in Readers, ReadCopy(r)
       PROVE  Queue!Next
  BY <1>13, ReadCopyQueue DEF Queue!Next
<1>14. CASE LogExit \/ PurgeFree \/ DestroyCache
  BY <1>14, PendingQuiet DEF LogExit, PurgeFree, DestroyCache, list, reader
<1>15. CASE PurgeDetach
  BY <1>15, PurgeDetachQueue DEF Queue!Next
<1>16. CASE UNCHANGED vars
  BY <1>16, PendingQuiet DEF vars, list, reader
<1>17. CASE \E w \in Contexts : GetLogLock(w) \/ GetLogEnd(w) \/ PutLog(w)
  BY <1>4, <1>5, <1>6, <1>7, <1>17 DEF GetLogEnd, PutLog
<1>18. CASE \E w \in Writers : GetLog(w)
  BY <1>4, <1>18 DEF Contexts
<1>19. CASE \E r \in Readers :
               \/ Open(r) \/ OpenStep(r) \/ Close(r) \/ CloseStep(r) \/ ReadStep(r)
               \/ \E n \in 0 .. MaxCount : Read(r, n)
  BY <1>9, <1>10, <1>11, <1>12, <1>13, <1>19 DEF ReadStep
<1> QED
  BY <1>1, <1>2, <1>3, <1>8, <1>14, <1>15, <1>16, <1>17, <1>18, <1>19 DEF Next, Unloaded

(* With one reader, and no open before log_init returns, the linked list   *)
(* with its unlocked reader, its two unordered stores and its dummy block  *)
(* is the queue of LogQueue: every record that was logged is delivered at  *)
(* most once, in the order of the log, and none is skipped.                *)
THEOREM LogImplementsQueue ==
    ASSUME SingleReader, ~EarlyOpen
    PROVE  Spec => ImplementsQueue
<1>1. Init => Queue!Init
  BY DEF Init, Queue!Init, PendingRecords
<1>2. SafeInv /\ WholeInv /\ [Next]_vars => [Queue!Next]_<<PendingRecords, delivered>>
  BY QueueStep
<1> QED
  BY <1>1, <1>2, AlwaysSafe, AlwaysWhole, PTL DEF Spec, ImplementsQueue, Queue!Spec
=============================================================================
