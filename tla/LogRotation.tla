----------------------------- MODULE LogRotation -----------------------------
(***************************************************************************)
(* The FIFO-rotating JSONL sink (log/_rotation.py) of one writer, with the *)
(* process dying between any two file operations and a later one opening   *)
(* the same path.  File 0 is the live file, file i the archive .i; a line  *)
(* is the number of the write that wrote it, a file a sequence of lines.   *)
(* A line is written and flushed in one system call.  The names of the     *)
(* specification carry "Rotation": it is proved about beside SharedLog.    *)
(***************************************************************************)
EXTENDS Integers, Sequences, FiniteSets, FiniteSetsExt

CONSTANTS
  FileCaps,         \* the values config.max_files may have
  MaxLinesPerFile,  \* config.max_lines_per_file
  Writes,           \* bound: writes made
  MaxCrashes        \* bound: times the process dies

ASSUME LogRotationAssumption ==
  /\ FileCaps \subseteq Nat \ {0} /\ MaxLinesPerFile \in Nat \ {0}
  /\ Writes \in Nat /\ MaxCrashes \in Nat

Missing == <<0>>

VARIABLES
  max_files,   \* config.max_files of the run
  disk,        \* index -> the file's lines, or Missing
  line_count,  \* _line_count of the open sink
  step,        \* what write() does next
  existing,    \* archives _evict_and_shift has listed and not handled yet
  written,     \* lines written so far
  crashes

rotationVars == <<max_files, disk, line_count, step, existing, written, crashes>>

-----------------------------------------------------------------------------
Indices == 0 .. max_files
Keep == max_files - 1

Archives == {i \in Indices \ {0} : disk[i] # Missing}
Files == {i \in Indices : disk[i] # Missing}

Goes(where) == step' = where /\ UNCHANGED <<max_files, written, crashes>>

\* Mutant: a file takes one line more than the cap.
FullLate == line_count > MaxLinesPerFile

Full == line_count >= MaxLinesPerFile

BeginWrite ==
  /\ step = "idle" /\ written < Writes
  /\ Goes(IF Full THEN "rotating" ELSE "appending")
  /\ UNCHANGED <<disk, line_count, existing>>

\* _rotate closes the full file; with one file allowed it truncates it.
Truncate ==
  /\ step = "rotating" /\ max_files = 1
  /\ disk' = [disk EXCEPT ![0] = <<>>]
  /\ line_count' = 0
  /\ Goes("appending")
  /\ UNCHANGED existing

List ==
  /\ step = "rotating" /\ max_files > 1
  /\ existing' = Archives
  /\ Goes("evicting")
  /\ UNCHANGED <<disk, line_count>>

Overflowing == {i \in existing : i >= Keep}

Evict ==
  /\ step = "evicting"
  /\ IF Overflowing = {}
       THEN Goes("shifting") /\ UNCHANGED <<disk, existing>>
       ELSE LET i == Min(Overflowing)
            IN  /\ disk' = [disk EXCEPT ![i] = Missing]
                /\ existing' = existing \ {i}
                /\ Goes("evicting")
  /\ UNCHANGED line_count

\* Mutant: archives are shifted in rising order, each onto the next.
FirstShifted == Min(existing)

NextShifted == Max(existing)

Shift ==
  /\ step = "shifting"
  /\ IF existing = {}
       THEN Goes("retiring") /\ UNCHANGED <<disk, existing>>
       ELSE LET i == NextShifted
            IN  /\ disk' = [disk EXCEPT ![i + 1] = disk[i], ![i] = Missing]
                /\ existing' = existing \ {i}
                /\ Goes("shifting")
  /\ UNCHANGED line_count

Retire ==
  /\ step = "retiring"
  /\ disk' = [disk EXCEPT ![1] = disk[0], ![0] = Missing]
  /\ Goes("reopening")
  /\ UNCHANGED <<line_count, existing>>

ReopenLive ==
  /\ step = "reopening"
  /\ disk' = [disk EXCEPT ![0] = <<>>]
  /\ line_count' = 0
  /\ Goes("appending")
  /\ UNCHANGED existing

AppendLine ==
  /\ step = "appending"
  /\ disk' = [disk EXCEPT ![0] = Append(@, written + 1)]
  /\ line_count' = line_count + 1
  /\ written' = written + 1
  /\ step' = "idle"
  /\ UNCHANGED <<max_files, existing, crashes>>

Crash ==
  /\ step # "down" /\ crashes < MaxCrashes
  /\ crashes' = crashes + 1
  /\ step' = "down"
  /\ existing' = {} /\ line_count' = 0
  /\ UNCHANGED <<max_files, disk, written>>

\* Mutant: a sink opened on an old file counts from zero.
ExistingLinesForgotten == 0

ExistingLines == IF disk[0] = Missing THEN 0 ELSE Len(disk[0])

\* Mutant: the live file is opened for writing, not for appending.
LiveTruncated == <<>>

LiveOpened == IF disk[0] = Missing THEN <<>> ELSE disk[0]

\* RotatingJsonlSink.__init__ of the next process.
Open ==
  /\ step = "down"
  /\ line_count' = ExistingLines
  /\ disk' = [disk EXCEPT ![0] = LiveOpened]
  /\ Goes("idle")
  /\ UNCHANGED existing

RotationOver == written = Writes /\ step = "idle" /\ UNCHANGED rotationVars

RotationInit ==
  /\ max_files \in FileCaps
  /\ disk = [i \in Indices |-> Missing]
  /\ line_count = 0 /\ step = "down" /\ existing = {}
  /\ written = 0 /\ crashes = 0

RotationNext ==
  \/ BeginWrite \/ Truncate \/ List \/ Evict \/ Shift \/ Retire \/ ReopenLive \/ AppendLine
  \/ Crash \/ Open \/ RotationOver

RotationSpec == RotationInit /\ [][RotationNext]_rotationVars

-----------------------------------------------------------------------------
\* There are never more than max_files files nor a file of more than
\* max_lines_per_file lines, in the middle of a rotation or after a crash
\* (_rotation.py:132-144).
CapsHold ==
  Cardinality(Files) <= max_files /\ \A i \in Files : Len(disk[i]) <= MaxLinesPerFile

\* Every variable ranges over what the code keeps in it, and the count in
\* memory is that of the live file whenever a write begins; the caps hold.
RotationTypeOK ==
  /\ max_files \in FileCaps
  /\ disk \in [Indices -> Seq(1 .. Writes) \cup {Missing}]
  /\ line_count \in 0 .. MaxLinesPerFile
  /\ step \in {"idle", "rotating", "evicting", "shifting", "retiring", "reopening",
               "appending", "down"}
  /\ existing \subseteq Indices \ {0} /\ written \in 0 .. Writes /\ crashes \in 0 .. MaxCrashes
  /\ step \in {"idle", "appending"} => disk[0] # Missing /\ line_count = Len(disk[0])
  /\ CapsHold

Held == UNION {{disk[i][k] : k \in DOMAIN disk[i]} : i \in Files}

\* Read from the highest archive to the live file, the lines are in the order
\* they were written in, and none is there twice.
InOrder ==
  \A i, j \in Files : \A k \in DOMAIN disk[i], l \in DOMAIN disk[j] :
    i > j \/ (i = j /\ k < l) => disk[i][k] < disk[j][l]

\* As long as no process died in a rotation, a line is dropped only when the
\* archives are full: max_files - 1 full files of lines are there to read.
EnoughKept ==
  crashes = 0 => \A n \in 1 .. written : n > written - Keep * MaxLinesPerFile => n \in Held

\* The files hold the newest lines, in the order they were written, without a
\* gap or a repetition; a crash in the middle of a rotation loses no line but
\* the oldest.
NewestKept ==
  /\ InOrder
  /\ Held \subseteq 1 .. written /\ \A n \in Held : n .. written \subseteq Held
  /\ EnoughKept
=============================================================================
