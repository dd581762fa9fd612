------------------------------- MODULE Health -------------------------------
(***************************************************************************)
(* pi/src/health.py: the small files on the USB stick through which the    *)
(* collector tells the other processes its counters, and how they are      *)
(* written.  A file on the stick has the content its name shows now and    *)
(* the content it will have after a power cut.  The steps of _atomic_write *)
(* are separate actions: the writer may die, the power may go and a second *)
(* instance of the collector may write between any two.                    *)
(***************************************************************************)
EXTENDS Integers

CONSTANTS
    Pids,        \* collector processes that may be alive at the same time
    MaxCount,    \* bound: starts and reconnects that are counted
    MaxFaults    \* bound: OSErrors of reads and writes

ASSUME HealthAssumption == MaxCount \in Nat \ {0} /\ MaxFaults \in Nat

Missing == -2     \* there is no such file
Torn    == -1     \* a file without its complete value
Files   == {"rtc_ok", "restart_count", "reconnect_count"}
Content == 0..MaxCount \cup {Missing, Torn}

VARIABLES
    visible,    \* what a reader of each file finds
    stable,     \* what each file is after a power cut
    dirty,      \* files whose visible bytes were not fsync'ed
    tmp,        \* the temp file of each process
    flushed,    \* temp files whose bytes were fsync'ed
    pc,         \* where main is: which of its writes it is in, or between them
    io,         \* the position in _atomic_write
    arg,        \* the value to write
    reconnects, \* OBDConnection.reconnect_count of each process
    rtcs,       \* history: the last check_rtc result whose write returned
    counted,    \* history: increments of restart_count that returned
    clash,      \* history: a rename found its temp file gone
    muddled,    \* history: two instances overlapped, or a read or write failed
    starts, faults

files   == <<visible, stable, dirty, tmp, flushed>>
procs   == <<pc, io, arg, reconnects>>
history == <<rtcs, counted, clash, muddled>>
vars == <<files, procs, history, starts, faults>>

Places == {"down", "rtc", "read", "count", "run", "reconnect"}
Steps  == {"open", "write", "fsync", "replace", "dirsync"}

TypeOK ==
    /\ visible \in [Files -> Content] /\ stable \in [Files -> Content]
    /\ dirty \subseteq Files
    /\ tmp \in [Pids -> Content] /\ flushed \subseteq Pids
    /\ pc \in [Pids -> Places] /\ io \in [Pids -> Steps]
    /\ arg \in [Pids -> 0..MaxCount] /\ reconnects \in [Pids -> 0..MaxCount]
    /\ rtcs \in {0, 1, Missing} /\ counted \in 0..MaxCount
    /\ clash \in BOOLEAN /\ muddled \in BOOLEAN
    /\ starts \in 0..MaxCount /\ faults \in 0..MaxFaults

Init ==
    /\ visible = [f \in Files |-> Missing] /\ stable = visible
    /\ dirty = {} /\ flushed = {}
    /\ tmp = [p \in Pids |-> Missing]
    /\ pc = [p \in Pids |-> "down"] /\ io = [p \in Pids |-> "open"]
    /\ arg = [p \in Pids |-> 0] /\ reconnects = [p \in Pids |-> 0]
    /\ rtcs = Missing /\ counted = 0
    /\ clash = FALSE /\ muddled = FALSE
    /\ starts = 0 /\ faults = 0

\* int(f.read().strip()), with the reader's default for a file that is missing
\* or does not parse.
Parse(content, default) == IF content \in {Missing, Torn} THEN default ELSE content

read_rtc_ok          == Parse(visible["rtc_ok"], 1)
read_restart_count   == Parse(visible["restart_count"], 0)
read_reconnect_count == Parse(visible["reconnect_count"], 0)

-----------------------------------------------------------------------------
(* _atomic_write of process p.  Its temp file is named after its path and  *)
(* its pid; a process has one write under way, so the pid tells them apart. *)

Path(p) == CASE pc[p] = "rtc"   -> "rtc_ok"
             [] pc[p] = "count" -> "restart_count"
             [] OTHER           -> "reconnect_count"

Writing(p) == pc[p] \in {"rtc", "count", "reconnect"}

\* Mutant: one temp name for all.
SharedTemp(p) == CHOOSE q \in Pids : TRUE

Temp(p) == p

\* The write is over, successfully or with an OSError that the caller logs.
Return(p) ==
    /\ pc' = [pc EXCEPT ![p] = IF @ = "rtc" THEN "read" ELSE "run"]
    /\ io' = [io EXCEPT ![p] = "open"]
    /\ UNCHANGED <<arg, reconnects>>

Advance(p, step) ==
    /\ io' = [io EXCEPT ![p] = step]
    /\ UNCHANGED <<pc, arg, reconnects>>

\* open(tmp, "w") truncates.
OpenTemp(p) ==
    /\ Writing(p) /\ io[p] = "open"
    /\ tmp' = [tmp EXCEPT ![Temp(p)] = Torn]
    /\ flushed' = flushed \ {Temp(p)}
    /\ Advance(p, "write")
    /\ UNCHANGED <<visible, stable, dirty, history, starts, faults>>

WriteTemp(p) ==
    /\ Writing(p) /\ io[p] = "write"
    /\ tmp' = [tmp EXCEPT ![Temp(p)] = arg[p]]
    /\ Advance(p, "fsync")
    /\ UNCHANGED <<visible, stable, dirty, flushed, history, starts, faults>>

\* Mutant: no fsync before the rename.
NoFsync(p) ==
    /\ Writing(p) /\ io[p] = "fsync"
    /\ Advance(p, "replace")
    /\ UNCHANGED <<files, history, starts, faults>>

FsyncTemp(p) ==
    /\ Writing(p) /\ io[p] = "fsync"
    /\ flushed' = flushed \cup {Temp(p)}
    /\ Advance(p, "replace")
    /\ UNCHANGED <<visible, stable, dirty, tmp, history, starts, faults>>

\* os.replace.  Without its temp file it raises ENOENT.
Replace(p) ==
    /\ Writing(p) /\ io[p] = "replace"
    /\ IF tmp[Temp(p)] = Missing
       THEN /\ clash' = TRUE
            /\ Return(p)
            /\ UNCHANGED <<files, rtcs, counted, muddled>>
       ELSE /\ visible' = [visible EXCEPT ![Path(p)] = tmp[Temp(p)]]
            /\ dirty' = IF Temp(p) \in flushed THEN dirty \ {Path(p)} ELSE dirty \cup {Path(p)}
            /\ tmp' = [tmp EXCEPT ![Temp(p)] = Missing]
            /\ Advance(p, "dirsync")
            /\ UNCHANGED <<stable, flushed, history>>
    /\ UNCHANGED <<starts, faults>>

\* What the stick keeps of file f once its directory entry is written.
Persisted(f) == IF f \in dirty THEN Torn ELSE visible[f]

\* The history of a write that returned.
Returned(p) ==
    /\ rtcs' = IF pc[p] = "rtc" THEN arg[p] ELSE rtcs
    /\ counted' = IF pc[p] = "count" THEN counted + 1 ELSE counted
    /\ UNCHANGED <<clash, muddled>>

\* Mutant: the directory is not fsync'ed.
NoFsyncDir(p) ==
    /\ Writing(p) /\ io[p] = "dirsync"
    /\ Return(p) /\ Returned(p)
    /\ UNCHANGED <<files, starts, faults>>

FsyncDir(p) ==
    /\ Writing(p) /\ io[p] = "dirsync"
    /\ stable' = [f \in Files |-> Persisted(f)]
    /\ Return(p) /\ Returned(p)
    /\ UNCHANGED <<visible, dirty, tmp, flushed, starts, faults>>

\* An OSError: the temp file is unlinked, the caller logs and goes on.
WriteFails(p) ==
    /\ Writing(p) /\ faults < MaxFaults
    /\ faults' = faults + 1 /\ muddled' = TRUE
    /\ tmp' = [tmp EXCEPT ![Temp(p)] = Missing]
    /\ Return(p)
    /\ UNCHANGED <<visible, stable, dirty, flushed, rtcs, counted, clash, starts>>

-----------------------------------------------------------------------------
(* The collector's process.                                                *)

Alive(p) == pc[p] # "down"

\* main: the result of check_rtc goes out first.  An instance that is started
\* while another is alive is a stray one.
Start(p) ==
    /\ ~Alive(p) /\ starts < MaxCount
    /\ starts' = starts + 1
    /\ pc' = [pc EXCEPT ![p] = "rtc"] /\ io' = [io EXCEPT ![p] = "open"]
    /\ \E ok \in {0, 1} : arg' = [arg EXCEPT ![p] = ok]
    /\ reconnects' = [reconnects EXCEPT ![p] = 0]
    /\ muddled' = (muddled \/ \E q \in Pids : Alive(q))
    /\ UNCHANGED <<files, rtcs, counted, clash, faults>>

\* increment_restart_count, as far as the file is read.
ReadCount(p) ==
    /\ pc[p] = "read"
    /\ arg' = [arg EXCEPT ![p] = read_restart_count + 1]
    /\ pc' = [pc EXCEPT ![p] = "count"]
    /\ UNCHANGED <<files, io, reconnects, history, starts, faults>>

\* The file exists and cannot be read: counting starts from 0.
ReadCountFails(p) ==
    /\ pc[p] = "read" /\ visible["restart_count"] # Missing
    /\ faults < MaxFaults
    /\ faults' = faults + 1 /\ muddled' = TRUE
    /\ arg' = [arg EXCEPT ![p] = 1]
    /\ pc' = [pc EXCEPT ![p] = "count"]
    /\ UNCHANGED <<files, io, reconnects, rtcs, counted, clash, starts>>

\* Mutant: the file is written before the count goes up.
ReconnectWritesFirst(p) ==
    /\ pc[p] = "run" /\ reconnects[p] < MaxCount
    /\ reconnects' = [reconnects EXCEPT ![p] = @ + 1]
    /\ arg' = [arg EXCEPT ![p] = reconnects[p]]
    /\ pc' = [pc EXCEPT ![p] = "reconnect"]
    /\ UNCHANGED <<files, io, history, starts, faults>>

\* OBDConnection.reconnect: the count of this process, in memory and in its file.
Reconnect(p) ==
    /\ pc[p] = "run" /\ reconnects[p] < MaxCount
    /\ reconnects' = [reconnects EXCEPT ![p] = @ + 1]
    /\ arg' = [arg EXCEPT ![p] = reconnects[p] + 1]
    /\ pc' = [pc EXCEPT ![p] = "reconnect"]
    /\ UNCHANGED <<files, io, history, starts, faults>>

\* The process ends, wherever it is; what it wrote so far stays.
Die(p) ==
    /\ Alive(p)
    /\ pc' = [pc EXCEPT ![p] = "down"]
    /\ UNCHANGED <<files, io, arg, reconnects, history, starts, faults>>

\* The kernel writes the directory back in its own time.
Writeback(f) ==
    /\ stable[f] # Persisted(f)
    /\ stable' = [stable EXCEPT ![f] = Persisted(f)]
    /\ UNCHANGED <<visible, dirty, tmp, flushed, procs, history, starts, faults>>

\* The engine goes off.  Temp files that survive are never read.
PowerCut ==
    /\ visible' = stable
    /\ dirty' = {} /\ flushed' = {}
    /\ tmp' = [p \in Pids |-> Missing]
    /\ pc' = [p \in Pids |-> "down"]
    /\ UNCHANGED <<stable, io, arg, reconnects, history, starts, faults>>

Next ==
    \/ \E p \in Pids :
          \/ OpenTemp(p) \/ WriteTemp(p) \/ FsyncTemp(p) \/ Replace(p) \/ FsyncDir(p)
          \/ WriteFails(p)
          \/ Start(p) \/ ReadCount(p) \/ ReadCountFails(p) \/ Reconnect(p) \/ Die(p)
    \/ \E f \in Files : Writeback(f)
    \/ PowerCut

Spec == Init /\ [][Next]_vars

-----------------------------------------------------------------------------
\* A power cut "never leaves a partial file" (health.py:53), and a reader "sees
\* either the old file or the complete new one", whoever writes, dies or fails.
NeverTorn == \A f \in Files : visible[f] # Torn /\ stable[f] # Torn

\* "A per-pid temp keeps the writers independent" (health.py:69): no instance
\* makes the rename of another fail.
WritersIndependent == ~clash

\* An increment that returned is not lost: while one instance runs at a time
\* and no read or write fails, the count is at least the number of increments
\* that returned, on the stick too, through deaths and power cuts.  (And every
\* variable has its type.)
CountKept ==
    /\ TypeOK
    /\ ~muddled => /\ Parse(stable["restart_count"], 0) >= counted
                   /\ read_restart_count \in counted..starts

\* What other processes read is what the running collector last reported: its
\* clock check as soon as that write returned, and its reconnects if it had any
\* (before its first one the file is still that of an earlier process), also if
\* the power goes now.
Reported ==
    ~muddled => \A p \in Pids :
        /\ pc[p] \in {"read", "count", "run", "reconnect"} => Parse(stable["rtc_ok"], 1) = rtcs
        /\ pc[p] = "run" /\ reconnects[p] > 0
              => read_reconnect_count = reconnects[p] /\ stable["reconnect_count"] = reconnects[p]
=============================================================================
