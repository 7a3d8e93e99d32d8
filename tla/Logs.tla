-------------------------------- MODULE Logs --------------------------------
(***************************************************************************)
(* `multibird logs [--follow]` (internal/ops/logs.go) next to a daemon     *)
(* that writes its log and to whatever rotates it: nobody, a copytruncate, *)
(* or a rename.  A file is an inode, the sequence of its lines; lines are  *)
(* numbered as they are written and stand for the bytes the code counts.   *)
(***************************************************************************)
EXTENDS Integers, Sequences

CONSTANTS
    Inodes,     \* the files there can be
    NoInode,    \* the log's path names no file
    MaxLines,   \* bound on the lines the daemon writes
    Tails       \* the values of --tail, in lines

ASSUME LogsAssumption == NoInode \notin Inodes /\ MaxLines \in Nat /\ Tails \subseteq Nat

VARIABLES
    kind,       \* how the log is rotated
    tail,       \* --tail
    follow,     \* --follow
    data,       \* data[i]: the lines in file i
    path,       \* the file that LogFile names
    written,    \* how many lines the daemon has written
    pc, f, pos, \* the command: what it does next, the file it has open, where in it
    first,      \* the first line it should print
    seen, last, \* the lines it has printed, and the last of them
    ordered     \* whether each was a later one than those before

vars == <<kind, tail, follow, data, path, written, pc, f, pos, first, seen, last, ordered>>
options == <<kind, tail, follow>>
log == <<data, path, written>>
out == <<first, seen, last, ordered>>

Kinds == {"none", "truncate", "rename"}

Init ==
    /\ kind \in Kinds /\ tail \in Tails /\ follow \in BOOLEAN
    /\ data = [i \in Inodes |-> <<>>] /\ path = NoInode
    /\ written = 0
    /\ pc = "start" /\ f = NoInode /\ pos = 0
    /\ first = 1 /\ seen = {} /\ last = 0 /\ ordered = TRUE

-----------------------------------------------------------------------------
(* The daemon and the rotation.                                            *)

\* The daemon creates the log when it starts, and after it was renamed.
Create ==
    /\ path = NoInode
    /\ \E i \in Inodes : data[i] = <<>> /\ i # f /\ path' = i
    /\ UNCHANGED <<options, data, written, pc, f, pos, out>>

DaemonWrites(n) ==
    /\ path # NoInode /\ written + n <= MaxLines
    /\ data' = [data EXCEPT ![path] = @ \o [k \in 1..n |-> written + k]]
    /\ written' = written + n
    /\ UNCHANGED <<options, path, pc, f, pos, out>>

Truncate ==
    /\ kind = "truncate" /\ path # NoInode /\ data[path] # <<>>
    /\ data' = [data EXCEPT ![path] = <<>>]
    /\ UNCHANGED <<options, path, written, pc, f, pos, out>>

RenameAway ==
    /\ kind = "rename" /\ path # NoInode /\ data[path] # <<>>
    /\ path' = NoInode
    /\ UNCHANGED <<options, data, written, pc, f, pos, out>>

-----------------------------------------------------------------------------
(* Logs.                                                                   *)

\* io.Copy from the position to the end of the open file.
Copy ==
    LET new == SubSeq(data[f], pos + 1, Len(data[f]))
    IN  /\ pos' = pos + Len(new)
        /\ seen' = seen \cup {new[k] : k \in DOMAIN new}
        /\ last' = IF new = <<>> THEN last ELSE new[Len(new)]
        /\ ordered' = (ordered /\ (new = <<>> \/ new[1] > last))

Open ==
    /\ pc = "start"
    /\ f' = path
    /\ pc' = IF path = NoInode THEN "failed" ELSE "tail"
    /\ UNCHANGED <<options, log, pos, out>>

\* Mutants: the offset is counted from the start; nobody looks at the size.
OffsetFromStart(size) == IF size > tail THEN tail ELSE 0
OffsetAlways(size) == size - tail

Offset(size) == IF size > tail THEN size - tail ELSE 0

SeekTail ==
    /\ pc = "tail"
    /\ pos' = Offset(Len(data[f]))
    /\ first' = IF written > tail THEN written - tail + 1 ELSE 1
    /\ pc' = "print"
    /\ UNCHANGED <<options, log, f, seen, last, ordered>>

PrintTail ==
    /\ pc = "print"
    /\ Copy
    /\ pc' = IF follow THEN "wait" ELSE "done"
    /\ UNCHANGED <<options, log, f, first>>

\* Mutants: a file of the same size is taken for a new one; a shorter one is not.
ShrunkOrSame(size) == size <= pos
NeverShrunk(size) == FALSE

Shrunk(size) == size < pos

\* Every half second: look at the file the path names now; if it is shorter than
\* what has been read, go back to the start of the file that is open.
Poll ==
    /\ pc = "wait"
    /\ \/ path = NoInode /\ UNCHANGED <<pc, pos>>
       \/ /\ path # NoInode
          /\ pos' = IF Shrunk(Len(data[path])) THEN 0 ELSE pos
          /\ pc' = "copy"
    /\ UNCHANGED <<options, log, f, out>>

PrintNew ==
    /\ pc = "copy"
    /\ Copy
    /\ pc' = "wait"
    /\ UNCHANGED <<options, log, f, first>>

\* Ctrl-C, or a read that fails.
Stop ==
    /\ pc \in {"tail", "print", "wait", "copy"}
    /\ pc' = "stopped"
    /\ UNCHANGED <<options, log, f, pos, out>>

LogsStep == Open \/ SeekTail \/ PrintTail \/ Poll \/ PrintNew

Next == Create \/ (\E n \in 1..2 : DaemonWrites(n)) \/ Truncate \/ RenameAway \/ LogsStep \/ Stop

\* Timers fire and reads return.
Spec == Init /\ [][Next]_vars /\ WF_vars(LogsStep)

-----------------------------------------------------------------------------
(* Properties.                                                             *)

TypeOK ==
    /\ kind \in Kinds /\ tail \in Tails /\ follow \in BOOLEAN
    /\ data \in [Inodes -> Seq(1..MaxLines)] /\ path \in Inodes \cup {NoInode}
    /\ written \in 0..MaxLines
    /\ pc \in {"start", "tail", "print", "wait", "copy", "done", "failed", "stopped"}
    /\ f \in Inodes \cup {NoInode} /\ pos \in Nat
    /\ first \in 1..MaxLines + 1 /\ seen \subseteq 1..MaxLines /\ last \in 0..MaxLines
    /\ ordered \in BOOLEAN

\* Whatever is truncated between the size and the read of it, no line is printed
\* twice or after a later one.  (After a rename the code goes back to the start of
\* the file it has open, the old one, and prints that again.)
InOrder == kind # "rename" => ordered

\* Of a log nobody rotates the last --tail lines are printed and every line since,
\* without a gap, wherever lines are written between the size, the seek and the read.
NoGap == kind = "none" /\ seen # {} => seen = first..last

\* A follower keeps up with a log that grows or is truncated: again and again it
\* has read the file to its end.  (Lines that were truncated away before it came to
\* them are lost, and so is the start of a file that outgrew the old position
\* within one poll.)
KeepsUp == kind # "rename" /\ follow => []<>(pc \in {"start", "failed", "stopped"} \/ pos = Len(data[f]))
=============================================================================
