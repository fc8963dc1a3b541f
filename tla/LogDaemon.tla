------------------------------ MODULE LogDaemon ------------------------------
(***************************************************************************)
(* The log daemon (Scripts/seekerlogd.c): it copies the records of         *)
(* /dev/seeker_log to a file, SIGUSR1 makes it go on with the next file,   *)
(* SIGTERM ends it.  The handlers run between any two of its steps.        *)
(*                                                                         *)
(* Records are numbered in the order the device hands them out.  What is   *)
(* written goes to the buffer of the stream first; stdio brings records    *)
(* from there to the file when it likes, in order, and may fail to.        *)
(***************************************************************************)
EXTENDS Integers, Sequences, FiniteSetsExt

CONSTANTS
    MaxRecords,     \* bound: records logged
    MaxChunk,       \* bound: records one fread returns
    MaxCount,       \* bound: files written
    Existing        \* the files that exist already

ASSUME LogDaemonAssumption == {MaxRecords, MaxChunk, MaxCount} \subseteq Nat

VARIABLES
    dpc,            \* of the daemon: its next step
    taken,          \* records read from the device
    buf,
    held,           \* records in the buffer of the stream outfile
    files,          \* of each file: the records that have reached it
    lost,           \* history, of each file: those it was to get and never will
    count, do_sample,
    streams         \* those of infile and outfile that are open

daemon == <<dpc, taken, buf, held, files, lost, count, do_sample, streams>>

NoRecords == [f \in 0 .. MaxCount |-> <<>>]

DaemonOff ==
    /\ dpc = "exit" /\ taken = 0 /\ buf = <<>> /\ held = <<>> /\ count = 0
    /\ files = NoRecords /\ lost = NoRecords /\ do_sample = TRUE /\ streams = {}

(* The daemon is started: the first file is opened unless it exists.       *)
DaemonInit ==
    /\ dpc = (IF 0 \in Existing THEN "exit" ELSE "loop")
    /\ taken = 0 /\ buf = <<>> /\ held = <<>> /\ count = 0
    /\ files = NoRecords /\ lost = NoRecords /\ do_sample = TRUE
    /\ streams = (IF 0 \in Existing THEN {} ELSE {"infile", "outfile"})

-----------------------------------------------------------------------------
Goto(from, to) == dpc = from /\ dpc' = to

(* fflush or fclose of outfile: as many as stdio can of the records it     *)
(* holds reach the file; the others are lost, and so is never.             *)
Flush(holds, never) ==
    \E n \in 0 .. Len(holds) :
        /\ files' = [files EXCEPT ![count] = @ \o SubSeq(holds, 1, n)]
        /\ lost' = [lost EXCEPT ![count] = @ \o (SubSeq(holds, n + 1, Len(holds)) \o never)]
        /\ held' = <<>> /\ buf' = <<>>

do_exit(holds, never) ==
    /\ dpc' = "exit" /\ streams' = {}
    /\ Flush(holds, never)
    /\ UNCHANGED <<count, do_sample>>

Loop ==
    /\ Goto("loop", IF do_sample THEN "read" ELSE "close")
    /\ UNCHANGED <<taken, buf, held, files, lost, count, do_sample, streams>>

Fresh(n) == [k \in 1 .. n |-> taken + k]

(* fread returns up to a buffer of records, none if the log is empty.      *)
Read(n) ==
    /\ taken + n <= MaxRecords
    /\ Goto("read", IF n = 0 THEN "sleep" ELSE "write")
    /\ taken' = taken + n /\ buf' = Fresh(n)
    /\ UNCHANGED <<held, files, lost, count, do_sample, streams>>

(* An error behind some records ends the daemon, which then has read them  *)
(* for nothing; behind none, it is noticed after the sleep.                *)
ReadError(n) ==
    /\ dpc = "read" /\ n > 0 /\ taken + n <= MaxRecords
    /\ taken' = taken + n
    /\ do_exit(held, Fresh(n))

SleepError == dpc = "sleep" /\ do_exit(held, <<>>) /\ UNCHANGED taken

(* fwrite: the records join those stdio holds, of which some go on to the  *)
(* file.                                                                   *)
Write ==
    /\ Goto("write", "read")
    /\ LET holds == held \o buf
       IN  \E n \in 0 .. Len(holds) :
               /\ files' = [files EXCEPT ![count] = @ \o SubSeq(holds, 1, n)]
               /\ held' = SubSeq(holds, n + 1, Len(holds))
    /\ buf' = <<>>
    /\ UNCHANGED <<taken, lost, count, do_sample, streams>>

(* Mutant: an error of fwrite goes unnoticed.                              *)
WriteErrorIgnored ==
    /\ Goto("write", "read") /\ buf' = <<>>
    /\ UNCHANGED <<taken, held, files, lost, count, do_sample, streams>>

(* fwrite finds that what stdio holds cannot be written.                   *)
WriteError == dpc = "write" /\ do_exit(held \o buf, <<>>) /\ UNCHANGED taken

(* Mutant: sleeping is part of the loop that reads.                        *)
SleepReadsOn ==
    /\ Goto("sleep", "read")
    /\ UNCHANGED <<taken, buf, held, files, lost, count, do_sample, streams>>

Sleep ==
    /\ Goto("sleep", "loop")
    /\ UNCHANGED <<taken, buf, held, files, lost, count, do_sample, streams>>

(* fclose at the end of a file flushes too, and nobody looks whether it    *)
(* could.                                                                  *)
Close ==
    /\ Goto("close", "closein")
    /\ Flush(held, <<>>) /\ streams' = {"infile"}
    /\ UNCHANGED <<taken, count, do_sample>>

(* fread has come to the end of the log, so that infile holds nothing.     *)
CloseIn ==
    /\ Goto("closein", "next") /\ streams' = {}
    /\ UNCHANGED <<taken, buf, held, files, lost, count, do_sample>>

(* The next file; the daemon gives up if it exists or cannot be opened.    *)
OpenNext(ok) ==
    /\ count < MaxCount
    /\ count' = count + 1
    /\ LET opened == ok /\ count' \notin Existing
       IN  /\ Goto("next", IF opened THEN "openin" ELSE "exit")
           /\ streams' = IF opened THEN {"outfile"} ELSE {}
    /\ UNCHANGED <<taken, buf, held, files, lost, do_sample>>

OpenIn(ok) ==
    /\ Goto("openin", IF ok THEN "resume" ELSE "exit")
    /\ streams' = IF ok THEN {"infile", "outfile"} ELSE {}
    /\ UNCHANGED <<taken, buf, held, files, lost, count, do_sample>>

Resume ==
    /\ Goto("resume", "loop") /\ do_sample' = TRUE
    /\ UNCHANGED <<taken, buf, held, files, lost, count, streams>>

-----------------------------------------------------------------------------
catchSig ==
    /\ dpc # "exit" /\ count < MaxCount
    /\ do_sample' = FALSE
    /\ UNCHANGED <<dpc, taken, buf, held, files, lost, count, streams>>

(* fwrite may be half done.  The streams are closed whether or not they    *)
(* are open.                                                               *)
catchTerm == dpc # "exit" /\ do_exit(held \o buf, <<>>) /\ UNCHANGED taken

Main ==
    \/ Loop
    \/ \E n \in 0 .. MaxChunk : Read(n) \/ ReadError(n)
    \/ Write \/ WriteError \/ Sleep \/ SleepError
    \/ Close \/ CloseIn
    \/ \E ok \in BOOLEAN : OpenNext(ok) \/ OpenIn(ok)
    \/ Resume

DaemonNext == Main \/ catchSig \/ catchTerm

DaemonFairness == WF_daemon(Main)

-----------------------------------------------------------------------------
(* What each file was to hold, one after the other.                        *)
Due == [f \in 0 .. MaxCount |-> files[f] \o lost[f]]
AllDue == LET all[f \in 0 .. MaxCount] == IF f = 0 THEN Due[0] ELSE all[f - 1] \o Due[f]
          IN  all[MaxCount]

(* Whatever signals and errors come when, the files in their order hold    *)
(* the records in theirs, none twice, and each file a run without a gap.   *)
(* The records missing are the end of a file: what stdio held when it      *)
(* could not flush it, be it the unchecked fclose of a file the daemon     *)
(* goes on from, or what was not yet written when the daemon ended.        *)
FilesInOrder == (AllDue \o held) \o buf = [k \in 1 .. taken |-> k]

(* A SIGUSR1 has the daemon go on reading for a file behind the one it was *)
(* writing, if the log runs dry from time to time, unless the daemon ends. *)
(* One that comes after the next file is opened and before do_sample is    *)
(* set is not among those the property speaks of: the daemon forgets it.   *)
RotationHappens ==
    \A f \in 0 .. MaxCount :
        (~do_sample /\ count = f /\ dpc \notin {"openin", "resume"})
            ~> ((count > f /\ do_sample) \/ dpc = "exit")
=============================================================================
