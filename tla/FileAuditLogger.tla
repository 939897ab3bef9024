--------------------------- MODULE FileAuditLogger ---------------------------
(***************************************************************************)
(* FileAuditLogger of audit_sinks.py: JSON lines in one file, rotated by   *)
(* size over numbered backups, by a process that may die between any two   *)
(* renames and start again.                                                *)
(*                                                                         *)
(* The lock serializes log(); nothing is awaited under it, so what another *)
(* task of the process sees is one step.  A crash is of the process: what  *)
(* was flushed stays, and the path is the same after it, as in a container *)
(* the pid is.  One process per path, as the documentation asks.           *)
(***************************************************************************)
EXTENDS Integers, Sequences

CONSTANTS
    BackupCount,   \* backup_count
    MaxBytes,      \* max_bytes
    Sizes,         \* bytes of a line
    MaxLines,      \* bound: lines written
    MaxCrashes     \* bound: crashes

ASSUME LoggerAssumption ==
    /\ BackupCount \in Nat /\ MaxBytes \in Nat \ {0}
    /\ Sizes \subseteq 1..MaxBytes
    /\ MaxLines \in Nat /\ MaxCrashes \in Nat

VARIABLES
    files,      \* what is in the file of each suffix; 0 is the file itself
    open,       \* the process has a handle on it
    rotating,   \* the suffix _rotate is at, or NotRotating
    line,       \* size of the line being logged, or 0
    written,    \* lines written, which number them
    crashes

loggerVars == <<files, open, rotating, line, written, crashes>>

Numbers == 0..BackupCount

NotRotating == -1

Reopen == -2   \* the renames are done

(* A file is the numbers of its lines and its size, which a handle that    *)
(* appends tells.  One that is missing is an empty one: none is rotated    *)
(* before it has a line.                                                   *)
NoFile == [lines |-> <<>>, size |-> 0]

Exists(i) == files[i] # NoFile

LoggerInit ==
    /\ files = [i \in Numbers |-> NoFile]
    /\ open = FALSE /\ rotating = NotRotating /\ line = 0
    /\ written = 0 /\ crashes = 0

----------------------------------------------------------------------------
Appended(file, size) ==
    [lines |-> Append(file.lines, written + 1), size |-> file.size + size]

(* Mutant: the size of the file without the line.                          *)
Fits_Before(size) == files[0].size <= MaxBytes

Fits(size) == files[0].size + size <= MaxBytes

(* log(), for a line that fits in the file: _open, write, flush.           *)
Write(size) ==
    /\ rotating = NotRotating /\ written < MaxLines
    /\ Fits(size)
    /\ files' = [files EXCEPT ![0] = Appended(files[0], size)]
    /\ open' = TRUE
    /\ written' = written + 1
    /\ UNCHANGED <<rotating, line, crashes>>

(* log(), for one that does not: the handle is closed, and _rotate begins  *)
(* with the last suffix but one.                                           *)
StartRotation(size) ==
    /\ rotating = NotRotating /\ written < MaxLines
    /\ ~Fits(size)
    /\ open' = FALSE
    /\ line' = size
    /\ rotating' = IF BackupCount = 0 THEN 0 ELSE BackupCount - 1
    /\ UNCHANGED <<files, written, crashes>>

(* Mutant: copied, not renamed.                                            *)
Rename_Copied(i) ==
    /\ rotating = i /\ i > 0
    /\ files' = [files EXCEPT ![i + 1] = files[i]]
    /\ rotating' = i - 1
    /\ UNCHANGED <<open, line, written, crashes>>

(* older.replace(...): what had the suffix above it is gone.               *)
Rename(i) ==
    /\ rotating = i /\ i > 0
    /\ files' = IF Exists(i) THEN [files EXCEPT ![i + 1] = files[i], ![i] = NoFile] ELSE files
    /\ rotating' = i - 1
    /\ UNCHANGED <<open, line, written, crashes>>

(* The file itself becomes .1, or is removed if there are no backups; the  *)
(* line goes to a new one.                                                 *)
FinishRotation ==
    /\ rotating = 0
    /\ files' = IF BackupCount = 0 THEN [files EXCEPT ![0] = NoFile]
                ELSE [files EXCEPT ![1] = files[0], ![0] = NoFile]
    /\ rotating' = Reopen
    /\ UNCHANGED <<open, line, written, crashes>>

WriteAfterRotation ==
    /\ rotating = Reopen
    /\ files' = [files EXCEPT ![0] = Appended(files[0], line)]
    /\ open' = TRUE /\ line' = 0 /\ rotating' = NotRotating
    /\ written' = written + 1
    /\ UNCHANGED crashes

(* aclose; a later log() opens the file again.                             *)
Close ==
    /\ rotating = NotRotating /\ open
    /\ open' = FALSE
    /\ UNCHANGED <<files, rotating, line, written, crashes>>

(* The process dies, anywhere in log(), and is started again.              *)
Crash ==
    /\ crashes < MaxCrashes
    /\ crashes' = crashes + 1
    /\ open' = FALSE /\ rotating' = NotRotating /\ line' = 0
    /\ UNCHANGED <<files, written>>

LoggerNext ==
    \/ \E size \in Sizes : Write(size) \/ StartRotation(size)
    \/ \E i \in Numbers : Rename(i)
    \/ FinishRotation \/ WriteAfterRotation \/ Close \/ Crash

LoggerSpec == LoggerInit /\ [][LoggerNext]_loggerVars

----------------------------------------------------------------------------
(* No file outgrows its bound, though a crash may leave the logger to go   *)
(* on with a file it has not rotated; and one is open only where the last  *)
(* rotation is done and its first line can be written.                     *)
FilesAreBounded ==
    /\ \A i \in Numbers : files[i].size <= MaxBytes
    /\ open => Exists(0) /\ rotating = NotRotating

(* What is kept is the last lines written: none lost between two others,   *)
(* none twice, in order from the oldest backup to the file, wherever a     *)
(* process died.  The lines of a file follow each other, up to the first   *)
(* of the next newer file there is, or to the last line written.           *)
KeptIsTheTail ==
    \A i \in Numbers : Exists(i) =>
        LET lines == files[i].lines
            Newer(j) == j < i /\ Exists(j)
        IN  /\ \A k \in DOMAIN lines : lines[k] = lines[1] + k - 1
            /\ (\A j \in Numbers : ~Newer(j)) => lines[Len(lines)] = written
            /\ \A j \in Numbers : Newer(j) /\ (\A k \in Numbers : Newer(k) => k <= j)
                  => files[j].lines[1] = lines[Len(lines)] + 1

=============================================================================
