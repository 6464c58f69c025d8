----------------------------- MODULE LogRotation -----------------------------
(***************************************************************************)
(* The devkit's rotating log writer: lines go to an active file, which is   *)
(* renamed to an archive when the next line would make it too large. A file *)
(* is a sequence of lines under a name: Active, or <<stamp, index>> for an  *)
(* archive, stamp 0 when archive names carry no time. A write is flushed at *)
(* once, so a process that stops loses none of its lines.                   *)
(***************************************************************************)
EXTENDS Integers, Sequences, Functions

CONSTANTS
    LogConfigs,     \* the configurations: max_file_size, max_files, timestamp_suffix
    LineSizes,      \* sizes of lines with their line feed
    MaxLines,       \* bound: lines passed to the writer
    MaxRotations,   \* bound: rotations of a process besides those for a line
    MaxStamp        \* bound: the clock in seconds

ASSUME LogRotationAssumption ==
    /\ \A c \in LogConfigs :
          c.max_file_size \in Nat /\ c.max_files \in Nat /\ c.timestamp_suffix \in BOOLEAN
    /\ LineSizes \subseteq Nat \ {0} /\ MaxLines \in Nat /\ MaxRotations \in Nat /\ MaxStamp \in Nat \ {0}

VARIABLES
    logConfig,  \* one configuration for all processes
    files,      \* the log directory
    writer,     \* "none" without a process, then "open" or "closed"
    size,       \* current_size
    index,      \* current_index
    stamp,      \* the clock
    lines,      \* how many lines were passed to a writer
    written,    \* history: this process's lines that a writer took, with the index then
    skipped     \* history: indices of this process whose rename failed

logVars == <<logConfig, files, writer, size, index, stamp, lines, written, skipped>>

Active == <<>>
Archive(i, now) == <<IF logConfig.timestamp_suffix THEN now ELSE 0, i>>

SizeOf(file) ==
    LET upTo[n \in 0..Len(file)] == IF n = 0 THEN 0 ELSE upTo[n - 1] + file[n].size
    IN  upTo[Len(file)]

(* Options create and append. *)
Opened(dir) == [name \in DOMAIN dir \cup {Active} |-> IF name \in DOMAIN dir THEN dir[name] ELSE <<>>]

(* rename replaces a file of that name. *)
Renamed(dir, to) ==
    [name \in (DOMAIN dir \ {Active}) \cup {to} |-> dir[IF name = to THEN Active ELSE name]]

(* Faulty: the index of the archive just made. *)
RetainedOneLess(dir, i, now) ==
    IF i + 1 >= logConfig.max_files
    THEN Restrict(dir, DOMAIN dir \ {Archive(i + 1 - logConfig.max_files, now)}) ELSE dir

(* Removes the archive that max_files rotations ago would have had this stamp. *)
Retained(dir, i, now) ==
    IF i >= logConfig.max_files
    THEN Restrict(dir, DOMAIN dir \ {Archive(i - logConfig.max_files, now)}) ELSE dir

(* rotate() from one second to the same or the next: done, or failed at the   *)
(* rename or at opening, which leaves the writer closed.                      *)
Rotations ==
    LET archived == Active \in DOMAIN files
        next == IF archived THEN index + 1 ELSE index
        dir(later) == IF archived THEN Retained(Renamed(files, Archive(index, stamp)), index, later) ELSE files
    IN  {[result |-> "done", files |-> Opened(dir(later)), size |-> 0, index |-> next, stamp |-> later] :
            later \in {stamp, stamp + 1}}
        \cup {[result |-> "open", files |-> dir(stamp), size |-> size, index |-> next, stamp |-> stamp]}
        \cup {[result |-> "rename", files |-> files, size |-> size, index |-> next, stamp |-> stamp] :
                name \in {Active} \cap DOMAIN files}

Skips(rotation) == IF rotation.result = "rename" THEN skipped \cup {index} ELSE skipped

-----------------------------------------------------------------------------
OpenLog ==
    /\ writer = "none" /\ files' = Opened(files)
    /\ writer' = "open" /\ size' = SizeOf(files'[Active]) /\ index' = 0
    /\ written' = <<>> /\ skipped' = {}
    /\ UNCHANGED <<logConfig, stamp, lines>>

TooLong(line) == size + line.size > logConfig.max_file_size

Line(bytes) == [number |-> lines + 1, size |-> bytes]

(* A line that fits; a closed writer takes it without writing it. *)
WriteLine ==
    /\ writer # "none" /\ lines < MaxLines
    /\ \E bytes \in LineSizes :
          LET line == Line(bytes) IN
          /\ ~TooLong(line)
          /\ IF writer = "open"
             THEN /\ files' = [files EXCEPT ![Active] = Append(@, line)]
                  /\ size' = size + bytes
                  /\ written' = Append(written, [line |-> line, part |-> index])
             ELSE UNCHANGED <<files, size, written>>
    /\ lines' = lines + 1
    /\ UNCHANGED <<logConfig, writer, index, stamp, skipped>>

(* A line that does not fit rotates first, also when the writer was closed; *)
(* it is lost when the rotation fails.                                      *)
WriteLong ==
    /\ writer # "none" /\ lines < MaxLines
    /\ \E bytes \in LineSizes, r \in Rotations :
          LET line == Line(bytes) IN
          /\ TooLong(line) /\ r.stamp <= MaxStamp
          /\ index' = r.index /\ stamp' = r.stamp /\ skipped' = Skips(r)
          /\ IF r.result = "done"
             THEN /\ files' = [r.files EXCEPT ![Active] = Append(@, line)]
                  /\ size' = r.size + bytes /\ writer' = "open"
                  /\ written' = Append(written, [line |-> line, part |-> r.index])
             ELSE files' = r.files /\ size' = r.size /\ writer' = "closed" /\ UNCHANGED written
    /\ lines' = lines + 1
    /\ UNCHANGED logConfig

(* rotate() on its own. *)
RotateLog ==
    /\ writer # "none" /\ index < MaxRotations
    /\ \E r \in Rotations :
          /\ r.stamp <= MaxStamp
          /\ files' = r.files /\ size' = r.size /\ index' = r.index /\ stamp' = r.stamp
          /\ writer' = (IF r.result = "done" THEN "open" ELSE "closed") /\ skipped' = Skips(r)
    /\ UNCHANGED <<logConfig, lines, written>>

CloseLog == writer = "open" /\ writer' = "closed"
            /\ UNCHANGED <<logConfig, files, size, index, stamp, lines, written, skipped>>

(* The process ends; the next one starts from the directory. *)
StopLog == writer # "none" /\ writer' = "none"
           /\ UNCHANGED <<logConfig, files, size, index, stamp, lines, written, skipped>>

SecondPasses == writer # "none" /\ stamp < MaxStamp /\ stamp' = stamp + 1
                /\ UNCHANGED <<logConfig, files, writer, size, index, lines, written, skipped>>

LogInit ==
    /\ logConfig \in LogConfigs
    /\ files = [name \in {} |-> <<>>] /\ writer = "none" /\ size = 0 /\ index = 0
    /\ stamp = 1 /\ lines = 0 /\ written = <<>> /\ skipped = {}

LogNext == OpenLog \/ WriteLine \/ WriteLong \/ RotateLog \/ CloseLog \/ StopLog \/ SecondPasses

LogTypeOK ==
    /\ logConfig \in LogConfigs /\ writer \in {"none", "open", "closed"}
    /\ \A name \in DOMAIN files : name = Active \/ name \in (0..MaxStamp) \X Nat
    /\ \A name \in DOMAIN files : \A i \in DOMAIN files[name] : files[name][i].number \in 1..MaxLines
    /\ size \in Nat /\ index \in Nat /\ stamp \in 1..MaxStamp /\ lines \in 0..MaxLines

-----------------------------------------------------------------------------
(* Of two places, the first in reading order: archives go by index, the active *)
(* file is last.                                                               *)
Sooner(a, i, b, m) == IF a = b THEN i < m ELSE a # Active /\ (b = Active \/ a[2] < b[2])

OwnArchives ==
    {name \in DOMAIN files \ {Active} :
        \E i \in DOMAIN files[name], k \in DOMAIN written : files[name][i] = written[k].line}

(* Rotation, with its failures, closes and restarts, loses no line too early: *)
(* every line a process wrote since the last max_files rotations is found,    *)
(* and its lines are found in the order written, each in one place. Under     *)
(* names without a time, an older archive is left only where the rename that  *)
(* was to remove it failed. An open writer's size is its file's, so that only *)
(* a file of one line is larger than allowed.                                 *)
LogKeeps ==
    /\ writer # "none" =>
          /\ \A k \in DOMAIN written : written[k].part >= index - logConfig.max_files =>
                \E name \in DOMAIN files : \E i \in DOMAIN files[name] : files[name][i] = written[k].line
          /\ \A a, b \in DOMAIN files : \A i \in DOMAIN files[a], m \in DOMAIN files[b], j, k \in DOMAIN written :
                files[a][i] = written[j].line /\ files[b][m] = written[k].line =>
                   (j < k => Sooner(a, i, b, m)) /\ (j = k => a = b /\ i = m)
          /\ ~logConfig.timestamp_suffix => \A name \in OwnArchives :
                name[2] + logConfig.max_files >= index \/ name[2] + logConfig.max_files \in skipped
    /\ writer = "open" => size = SizeOf(files[Active])
    /\ Active \in DOMAIN files /\ Len(files[Active]) > 1 => SizeOf(files[Active]) <= logConfig.max_file_size
=============================================================================
