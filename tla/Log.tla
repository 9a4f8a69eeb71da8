--------------------------------- MODULE Log ---------------------------------
(***************************************************************************)
(* The log file of qd_log.c: its buffer, rotation, reopening and locks.    *)
(* A line is a number; Size gives its length in the units of BufferSize.   *)
(* disk[0] is the log file, disk[i] the file with suffix .i.  Calls run    *)
(* under g_log.lock and are one step; the calls that take the lock again   *)
(* while they hold it never return and leave everyone else waiting         *)
(* (stuck).                                                                *)
(***************************************************************************)
EXTENDS Naturals, Sequences, SequencesExt

CONSTANTS MaxLines, MaxFiles, BufferSize, MaxSize

VARIABLES ready,    \* g_log.initialized
          open,     \* g_log.file is not NULL
          toFile,   \* QD_LOG_TARGET_FILE is set
          level,    \* config.level
          buffer, disk, lines, stuck,
          accepted  \* history: the lines that were to be kept, in order

lgVars == <<ready, open, toFile, level, buffer, disk, lines, stuck, accepted>>

NoFile == <<0>>          \* no line is 0
Size(l) == IF l % 3 = 0 THEN BufferSize ELSE 1
Lines(i) == IF disk[i] = NoFile THEN <<>> ELSE disk[i]
Pos == FoldSeq(LAMBDA l, n : Size(l) + n, 0, buffer)

LGInit == /\ ready = FALSE /\ open = FALSE /\ toFile = FALSE /\ stuck = FALSE
          /\ level = 1 /\ buffer = <<>> /\ lines = 0 /\ accepted = <<>>
          /\ disk = [i \in 0..MaxFiles |-> NoFile]

\* log_open_file: append mode creates the file; ok is whether fopen succeeds.
OpenFile(d, ok) == IF ok /\ d[0] = NoFile THEN [d EXCEPT ![0] = <<>>] ELSE d

\* qd_log_init; without the file target nothing is opened.
LogInit(target, ok) ==
  /\ ~stuck /\ ~ready /\ ready' = (target => ok)
  /\ toFile' = target /\ open' = (target /\ ok)
  /\ disk' = IF target THEN OpenFile(disk, ok) ELSE disk
  /\ buffer' = <<>> /\ UNCHANGED <<level, lines, stuck, accepted>>

SetTargets(target) ==
  /\ ~stuck /\ toFile' = target
  /\ UNCHANGED <<ready, open, level, buffer, disk, lines, stuck, accepted>>

SetLevel(l) ==
  /\ ~stuck /\ level' = l
  /\ UNCHANGED <<ready, open, toFile, buffer, disk, lines, stuck, accepted>>

\* Defect: the line goes into the file past the lines that wait in the buffer.
BufferLineBypass(l) ==
  IF Size(l) < BufferSize /\ Pos + Size(l) <= BufferSize
  THEN buffer' = Append(buffer, l) /\ disk' = disk /\ accepted' = Append(accepted, l)
  ELSE /\ disk' = [disk EXCEPT ![0] = Append(Lines(0), l)] /\ buffer' = buffer
       /\ accepted' = Append(accepted, l)

\* log_output to the file: a full buffer is written first; a line that is not
\* shorter than the buffer is dropped.
BufferLine(l) ==
  LET spill == Pos + Size(l) > BufferSize
      kept == Size(l) < BufferSize IN
  /\ disk' = IF spill THEN [disk EXCEPT ![0] = Lines(0) \o buffer] ELSE disk
  /\ buffer' = (IF spill THEN <<>> ELSE buffer) \o (IF kept THEN <<l>> ELSE <<>>)
  /\ accepted' = accepted \o (IF kept THEN <<l>> ELSE <<>>)

\* qd_log: the level, then log_output under the lock.  log_rotate_check looks
\* at the size the file has on disk, which stdio may be behind on, and calls
\* qd_log_rotate, which waits for the lock its caller holds.
Log(lv) ==
  /\ ~stuck /\ lv <= level /\ lines < MaxLines /\ lines' = lines + 1
  /\ IF toFile /\ open
     THEN /\ BufferLine(lines + 1)
          /\ stuck' \in IF Len(disk'[0]) >= MaxSize THEN BOOLEAN ELSE {FALSE}
     ELSE UNCHANGED <<buffer, disk, stuck, accepted>>
  /\ UNCHANGED <<ready, open, toFile, level>>

\* rename of a file that does not exist changes nothing.
Renamed(d, i, j) == IF d[i] = NoFile THEN d ELSE [d EXCEPT ![j] = d[i], ![i] = NoFile]

\* The oldest file is removed, then .i becomes .(i+1) from the oldest down.
Shifted(d) ==
  FoldLeft(LAMBDA e, i : Renamed(e, i, i + 1), [d EXCEPT ![MaxFiles] = NoFile],
           [i \in 1..(MaxFiles - 1) |-> MaxFiles - i])

\* qd_log_rotate, called from outside; the buffer stays.
Rotate(ok) ==
  /\ ~stuck /\ open
  /\ disk' = OpenFile(Renamed(Shifted(disk), 0, 1), ok) /\ open' = ok
  /\ UNCHANGED <<ready, toFile, level, buffer, lines, stuck, accepted>>

\* qd_log_reopen
Reopen(ok) ==
  /\ ~stuck /\ ready /\ open' = ok /\ disk' = OpenFile(disk, ok)
  /\ UNCHANGED <<ready, toFile, level, buffer, lines, stuck, accepted>>

Flush ==
  /\ ~stuck /\ open /\ buffer # <<>>
  /\ disk' = [disk EXCEPT ![0] = Lines(0) \o buffer] /\ buffer' = <<>>
  /\ UNCHANGED <<ready, open, toFile, level, lines, stuck, accepted>>

\* qd_log_shutdown calls qd_log_flush with the lock held.
LogShutdown ==
  /\ ~stuck /\ ready /\ stuck' = TRUE
  /\ UNCHANGED <<ready, open, toFile, level, buffer, disk, lines, accepted>>

LGNext == \/ \E ok \in BOOLEAN : \/ Rotate(ok) \/ Reopen(ok)
                                 \/ \E target \in BOOLEAN : LogInit(target, ok)
          \/ \E target \in BOOLEAN : SetTargets(target)
          \/ \E l \in {0, 1} : SetLevel(l) \/ Log(l)
          \/ Flush \/ LogShutdown

-----------------------------------------------------------------------------

\* What is kept, from the oldest file to the buffer
Kept == LET upTo[i \in 0..MaxFiles] ==
              IF i = MaxFiles THEN Lines(i) ELSE upTo[i + 1] \o Lines(i)
        IN upTo[0] \o buffer

\* No accepted line is lost, doubled or out of order: what is in the rotated
\* files, the log file and the buffer is the end of what was accepted, through
\* rotations, failed reopenings, flushes and changes of target.
LinesKept == IsSuffix(Kept, accepted)

\* ... and no step gives up a line, but for a rotation that finds every suffix
\* up to max_files in use: it gives up the oldest file and nothing else.
LogExact == [][lgVars' # lgVars =>
  /\ LinesKept'
  /\ LET lost == Len(Kept) - Len(Kept') IN
     lost > 0 => /\ \A i \in 1..MaxFiles : disk[i] # NoFile
                 /\ lost = Len(Lines(MaxFiles))]_lgVars
=============================================================================
