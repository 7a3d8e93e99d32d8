----------------------------- MODULE LogsProofs -----------------------------
(* Theorems about Logs, for any number of files, lines and values of --tail. *)
EXTENDS Logs, SequenceTheorems, TLAPS

-----------------------------------------------------------------------------
(* The inductive invariant.                                                *)

\* How many lines were written before the first one in file i, if i is the log.
Base(i) == written - Len(data[i])

\* The command has a file open, or has not yet printed anything.
ReadInv == /\ pc \in {"tail", "print", "wait", "copy"} => f \in Inodes
           /\ pc \in {"start", "tail", "print", "failed"} => seen = {} /\ last = 0

\* A log that is not renamed is one file, which holds the lines written last; the
\* command reads that file.
FileInv ==
    /\ f # NoInode => path = f
    /\ path = NoInode => written = 0
    /\ path # NoInode => /\ Len(data[path]) <= written
                         /\ \A k \in 1..Len(data[path]) : data[path][k] = Base(path) + k
                         /\ kind = "none" => Len(data[path]) = written

\* What was printed is either out of the file by now, or before the position.
OrderInv ==
    /\ ordered /\ last <= written
    /\ f # NoInode => \/ last <= Base(f)
                      \/ pos <= Len(data[f]) /\ last <= Base(f) + pos

\* What was printed of a log that only grows is all from the first line to the position.
GapInv ==
    /\ pc \in {"print", "wait", "copy"} => /\ pos <= Len(data[f]) /\ first <= pos + 1
                                           /\ seen = {} => first = pos + 1
                                           /\ seen # {} => last = pos /\ first <= last
    /\ seen # {} => seen = first..last

-----------------------------------------------------------------------------
(* What Copy prints.                                                       *)

Lines == 1..MaxLines

LEMMA Sizes == ASSUME TypeOK, NEW i \in Inodes
               PROVE  /\ data[i] \in Seq(Lines) /\ Len(data[i]) \in Nat
                      /\ \A k \in 1..Len(data[i]) : data[i][k] \in Lines
<1>1. data[i] \in Seq(Lines)
  BY DEF TypeOK, Lines
<1> QED BY <1>1, LenProperties, ElementOfSeq

\* Nothing if the file has no more lines than were read, else all the others.
LEMMA CopyIs ==
    ASSUME TypeOK, f \in Inodes, Copy
    PROVE  /\ pos >= Len(data[f]) =>
                 pos' = pos /\ seen' = seen /\ last' = last /\ ordered' = ordered
           /\ pos < Len(data[f]) =>
                 /\ pos' = Len(data[f])
                 /\ seen' = seen \cup {data[f][k] : k \in pos + 1..Len(data[f])}
                 /\ last' = data[f][Len(data[f])]
                 /\ ordered' = (ordered /\ data[f][pos + 1] > last)
<1> DEFINE s == data[f]
           n == Len(s)
           new == SubSeq(s, pos + 1, n)
<1>1. s \in Seq(Lines) /\ n \in Nat /\ pos \in Nat /\ ordered \in BOOLEAN
      /\ \A k \in 1..n : s[k] \in Lines
  BY Sizes DEF TypeOK
<1>2. \A k \in pos + 1..n : s[k] \in Lines
  BY <1>1
<1>3. /\ pos' = pos + Len(new)
      /\ seen' = seen \cup {new[k] : k \in DOMAIN new}
      /\ last' = IF new = <<>> THEN last ELSE new[Len(new)]
      /\ ordered' = (ordered /\ (new = <<>> \/ new[1] > last))
  BY DEF Copy
<1> HIDE DEF s, n
<1>4. /\ new \in Seq(Lines)
      /\ Len(new) = IF pos + 1 <= n THEN n - (pos + 1) + 1 ELSE 0
      /\ \A k \in 1..n - (pos + 1) + 1 : new[k] = s[pos + 1 + k - 1]
  BY <1>1, <1>2, SubSeqProperties
<1>5. DOMAIN new = 1..Len(new) /\ Len(<<>>) = 0
  BY <1>4, LenProperties, EmptySeq
<1> HIDE DEF new
<1>6. CASE pos >= n
  <2>1. Len(new) = 0 /\ new = <<>>
    BY <1>1, <1>4, <1>6, EmptySeq
  <2>2. {new[k] : k \in DOMAIN new} = {}
    BY <1>5, <2>1
  <2> QED BY <1>1, <1>3, <1>6, <2>1, <2>2 DEF s, n
<1>7. CASE pos < n
  <2>1. Len(new) = n - pos /\ new # <<>> /\ \A k \in 1..n - pos : new[k] = s[pos + k]
    BY <1>1, <1>4, <1>5, <1>7
  <2>2. {new[k] : k \in DOMAIN new} = {s[k] : k \in pos + 1..n}
    <3>1. \A k \in DOMAIN new : pos + k \in pos + 1..n /\ new[k] = s[pos + k]
      BY <1>1, <1>5, <2>1
    <3>2. \A k \in pos + 1..n : k - pos \in DOMAIN new /\ new[k - pos] = s[k]
      <4> SUFFICES ASSUME NEW k \in pos + 1..n PROVE k - pos \in DOMAIN new /\ new[k - pos] = s[k]
        OBVIOUS
      <4>1. k - pos \in 1..n - pos /\ pos + (k - pos) = k
        BY <1>1
      <4> QED BY <1>5, <2>1, <4>1
    <3> QED BY <3>1, <3>2
  <2>3. new[Len(new)] = s[n] /\ new[1] = s[pos + 1]
    BY <1>1, <1>7, <2>1
  <2>4. pos' = n
    BY <1>1, <1>3, <2>1
  <2>5. seen' = seen \cup {s[k] : k \in pos + 1..n}
    BY <1>3, <2>2
  <2>6. last' = s[n]
    BY <1>3, <2>1, <2>3
  <2>7. ordered' = (ordered /\ s[pos + 1] > last)
    BY <1>3, <2>1, <2>3
  <2>8. ~(pos >= n)
    BY <1>1, <1>7
  <2> QED BY <2>4, <2>5, <2>6, <2>7, <2>8 DEF s, n
<1> QED BY <1>1, <1>6, <1>7 DEF s, n

\* What the daemon appends.
LEMMA WriteIs ==
    ASSUME TypeOK, NEW n \in 1..2, DaemonWrites(n)
    PROVE  /\ path \in Inodes /\ data' \in [Inodes -> Seq(Lines)] /\ written' \in 0..MaxLines
           /\ written' = written + n
           /\ \A i \in Inodes \ {path} : data'[i] = data[i]
           /\ Len(data'[path]) = Len(data[path]) + n
           /\ \A k \in 1..Len(data[path]) : data'[path][k] = data[path][k]
           /\ \A k \in 1..n : data'[path][Len(data[path]) + k] = written + k
<1> DEFINE s == data[path]
           t == [k \in 1..n |-> written + k]
<1>1. /\ path \in Inodes /\ n \in Nat /\ written \in Nat /\ MaxLines \in Nat /\ written + n <= MaxLines
      /\ written' = written + n /\ data' = [data EXCEPT ![path] = s \o t]
      /\ data \in [Inodes -> Seq(Lines)]
  BY LogsAssumption DEF TypeOK, DaemonWrites, Lines
<1>2. s \in Seq(Lines) /\ Len(s) \in Nat
  BY <1>1, Sizes
<1>3. t \in Seq(Lines) /\ Len(t) = n /\ \A k \in 1..n : t[k] = written + k
  <2>1. \A k \in 1..n : written + k \in Lines
    BY <1>1 DEF Lines
  <2> QED BY <1>1, <2>1
<1> HIDE DEF s, t
<1>4. /\ s \o t \in Seq(Lines) /\ Len(s \o t) = Len(s) + Len(t)
      /\ \A i \in 1..Len(s) + Len(t) : (s \o t)[i] = IF i <= Len(s) THEN s[i] ELSE t[i - Len(s)]
  BY <1>2, <1>3, ConcatProperties
<1>5. data' \in [Inodes -> Seq(Lines)] /\ data'[path] = s \o t
      /\ \A i \in Inodes \ {path} : data'[i] = data[i]
  BY <1>1, <1>4
<1>6. \A k \in 1..Len(s) : (s \o t)[k] = s[k]
  BY <1>2, <1>3, <1>4, <1>1
<1>7. ASSUME NEW k \in 1..n PROVE (s \o t)[Len(s) + k] = written + k
  <2>1. Len(s) + k \in 1..Len(s) + Len(t) /\ ~(Len(s) + k <= Len(s)) /\ (Len(s) + k) - Len(s) = k
    BY <1>1, <1>2, <1>3
  <2> QED BY <1>3, <1>4, <2>1
<1> QED BY <1>1, <1>3, <1>4, <1>5, <1>6, <1>7 DEF s

-----------------------------------------------------------------------------
(* Types.                                                                  *)

Typed == TypeOK /\ ReadInv

LEMMA TypedInit == Init => Typed
<1> SUFFICES ASSUME Init PROVE Typed
  OBVIOUS
<1>1. [i \in Inodes |-> <<>>] \in [Inodes -> Seq(1..MaxLines)]
  BY EmptySeq
<1> QED BY <1>1, LogsAssumption DEF Init, Typed, TypeOK, ReadInv, Kinds

LEMMA CopyTypes ==
    ASSUME TypeOK, f \in Inodes, Copy
    PROVE  pos' \in Nat /\ seen' \subseteq Lines /\ last' \in 0..MaxLines /\ ordered' \in BOOLEAN
<1>1. /\ Len(data[f]) \in Nat /\ \A k \in 1..Len(data[f]) : data[f][k] \in Lines
  BY Sizes
<1>2. /\ pos \in Nat /\ seen \subseteq Lines /\ last \in 0..MaxLines /\ ordered \in BOOLEAN
  BY DEF TypeOK, Lines
<1>3. CASE pos >= Len(data[f])
  BY <1>1, <1>2, <1>3, CopyIs
<1>4. CASE pos < Len(data[f])
  <2>1. \A k \in pos + 1..Len(data[f]) : data[f][k] \in Lines
    BY <1>1, <1>2
  <2>2. data[f][Len(data[f])] \in Lines
    BY <1>1, <1>2, <1>4
  <2>3. data[f][Len(data[f])] \in 0..MaxLines
    BY <2>2 DEF Lines
  <2> QED BY <1>1, <1>2, <1>4, <2>1, <2>3, CopyIs
<1> QED BY <1>1, <1>2, <1>3, <1>4

LEMMA TypedStep == Typed /\ [Next]_vars => Typed'
<1> SUFFICES ASSUME Typed, [Next]_vars PROVE Typed'
  OBVIOUS
<1>0. TypeOK /\ ReadInv /\ MaxLines \in Nat /\ Tails \subseteq Nat /\ NoInode \notin Inodes
  BY LogsAssumption DEF Typed
<1> USE DEF options, log, out
<1>1. CASE UNCHANGED vars
  BY <1>0, <1>1 DEF vars, Typed, TypeOK, ReadInv
<1>2. CASE Create
  BY <1>0, <1>2 DEF Create, Typed, TypeOK, ReadInv
<1>3. ASSUME NEW n \in 1..2, DaemonWrites(n) PROVE Typed'
  <2>1. data' \in [Inodes -> Seq(1..MaxLines)] /\ written' \in 0..MaxLines
    BY <1>0, <1>3, WriteIs DEF Lines
  <2> QED BY <1>0, <1>3, <2>1 DEF DaemonWrites, Typed, TypeOK, ReadInv
<1>4. CASE Truncate
  <2>1. data' \in [Inodes -> Seq(1..MaxLines)]
    BY <1>0, <1>4, EmptySeq DEF Truncate, TypeOK
  <2> QED BY <1>0, <1>4, <2>1 DEF Truncate, Typed, TypeOK, ReadInv
<1>5. CASE RenameAway
  BY <1>0, <1>5 DEF RenameAway, Typed, TypeOK, ReadInv
<1>6. CASE Open
  BY <1>0, <1>6 DEF Open, Typed, TypeOK, ReadInv
<1>7. CASE SeekTail
  <2>1. f \in Inodes /\ Len(data[f]) \in Nat /\ tail \in Nat /\ written \in 0..MaxLines
    BY <1>0, <1>7, Sizes DEF SeekTail, ReadInv, TypeOK
  <2>2. pos' \in Nat /\ first' \in 1..MaxLines + 1
    BY <1>0, <1>7, <2>1 DEF SeekTail, Offset
  <2> QED BY <1>0, <1>7, <2>1, <2>2 DEF SeekTail, Typed, TypeOK, ReadInv
<1>8. CASE PrintTail \/ PrintNew
  <2>1. f \in Inodes /\ Copy
    BY <1>0, <1>8 DEF PrintTail, PrintNew, ReadInv
  <2>2. pos' \in Nat /\ seen' \subseteq 1..MaxLines /\ last' \in 0..MaxLines /\ ordered' \in BOOLEAN
    BY <1>0, <2>1, CopyTypes DEF Lines
  <2> QED BY <1>0, <1>8, <2>1, <2>2 DEF PrintTail, PrintNew, Typed, TypeOK, ReadInv
<1>9. CASE Poll
  BY <1>0, <1>9 DEF Poll, Typed, TypeOK, ReadInv
<1>10. CASE Stop
  BY <1>0, <1>10 DEF Stop, Typed, TypeOK, ReadInv
<1> QED BY <1>1, <1>2, <1>3, <1>4, <1>5, <1>6, <1>7, <1>8, <1>9, <1>10 DEF Next, LogsStep

\* The types of the variables: positions, lines and options stay what they are.
THEOREM LogsTypes == Spec => []TypeOK
<1>1. Spec => []Typed
  BY TypedInit, TypedStep, PTL DEF Spec
<1>2. Typed => TypeOK
  BY DEF Typed
<1> QED BY <1>1, <1>2, PTL

-----------------------------------------------------------------------------
(* Order.                                                                  *)

Ordered == kind # "rename" => FileInv /\ OrderInv

LEMMA OrderedInit == Init => Ordered
BY DEF Init, Ordered, FileInv, OrderInv

\* The log file and its size, in terms of numbers.
LEMMA LogSize ==
    ASSUME TypeOK
    PROVE  /\ written \in Nat /\ pos \in Nat /\ last \in Nat /\ tail \in Nat /\ first \in Nat
           /\ \A i \in Inodes : Len(data[i]) \in Nat
           /\ path # NoInode => path \in Inodes
           /\ f # NoInode => f \in Inodes
BY Sizes, LogsAssumption DEF TypeOK

\* Copying prints lines after the last one that was printed.
LEMMA CopyOrdered ==
    ASSUME TypeOK, f \in Inodes, Copy, FileInv, OrderInv, UNCHANGED <<kind, data, path, written, f>>
    PROVE  FileInv' /\ OrderInv'
<1>1. /\ path = f /\ f # NoInode /\ Len(data[f]) <= written
      /\ \A k \in 1..Len(data[f]) : data[f][k] = Base(f) + k
  BY LogsAssumption DEF FileInv
<1>2. written \in Nat /\ pos \in Nat /\ last \in Nat /\ Len(data[f]) \in Nat
  BY LogSize
<1>3. FileInv'
  BY DEF FileInv, Base
<1>4. CASE pos >= Len(data[f])
  <2>1. pos' = pos /\ last' = last /\ ordered' = ordered
    BY <1>4, CopyIs
  <2> QED BY <1>3, <2>1 DEF OrderInv, Base
<1>5. CASE pos < Len(data[f])
  <2>1. /\ pos' = Len(data[f]) /\ last' = data[f][Len(data[f])]
        /\ ordered' = (ordered /\ data[f][pos + 1] > last)
    BY <1>5, CopyIs
  <2>2. data[f][Len(data[f])] = Base(f) + Len(data[f]) /\ data[f][pos + 1] = Base(f) + (pos + 1)
    BY <1>1, <1>2, <1>5
  <2>3. Base(f) \in Nat /\ Base(f)' = Base(f) /\ Base(f) + Len(data[f]) = written
    BY <1>1, <1>2 DEF Base
  <2>4. data[f][pos + 1] > last
    BY <1>1, <1>2, <2>2, <2>3 DEF OrderInv
  <2>5. last' <= written' /\ pos' <= Len(data'[f']) /\ last' <= Base(f)' + pos'
    BY <1>2, <2>1, <2>2, <2>3
  <2>6. ordered'
    BY <2>1, <2>4 DEF OrderInv
  <2> QED BY <1>3, <2>5, <2>6 DEF OrderInv
<1> QED BY <1>2, <1>4, <1>5

LEMMA OrderedStep == Typed /\ Ordered /\ [Next]_vars => Ordered'
<1> SUFFICES ASSUME Typed, Ordered, [Next]_vars, kind' # "rename" PROVE FileInv' /\ OrderInv'
  BY DEF Ordered
<1>0. TypeOK /\ ReadInv /\ NoInode \notin Inodes
  BY LogsAssumption DEF Typed
<1>n. /\ written \in Nat /\ pos \in Nat /\ last \in Nat /\ tail \in Nat
      /\ \A i \in Inodes : Len(data[i]) \in Nat
      /\ path # NoInode => path \in Inodes
      /\ f # NoInode => f \in Inodes
  BY <1>0, LogSize
<1>k. kind' = kind /\ FileInv /\ OrderInv
  BY DEF Ordered, Next, vars, options, Create, DaemonWrites, Truncate, RenameAway, LogsStep, Open,
     SeekTail, PrintTail, Poll, PrintNew, Stop
<1> USE DEF options, log, out
<1>1. CASE UNCHANGED vars
  BY <1>1, <1>k DEF vars, FileInv, OrderInv, Base
<1>2. CASE Create
  <2>1. path = NoInode /\ f = NoInode /\ path' \in Inodes /\ data[path'] = <<>>
        /\ written = 0 /\ UNCHANGED <<kind, data, written, f, pos, ordered, last>>
    BY <1>2, <1>k DEF Create, FileInv
  <2>2. Len(data[path']) = 0
    BY <2>1, EmptySeq
  <2>3. FileInv'
    BY <2>1, <2>2 DEF FileInv, Base
  <2> QED BY <1>k, <2>1, <2>3 DEF OrderInv
<1>3. ASSUME NEW n \in 1..2, DaemonWrites(n) PROVE FileInv' /\ OrderInv'
  <2>1. /\ path \in Inodes /\ written' = written + n /\ Len(data'[path]) = Len(data[path]) + n
        /\ \A k \in 1..Len(data[path]) : data'[path][k] = data[path][k]
        /\ \A k \in 1..n : data'[path][Len(data[path]) + k] = written + k
        /\ UNCHANGED <<kind, path, f, pos, ordered, last>>
    BY <1>0, <1>3, WriteIs DEF DaemonWrites
  <2>0. path # NoInode /\ Len(data[path]) <= written /\ Len(data[path]) \in Nat
    BY <1>0, <1>k, <1>n, <2>1 DEF FileInv
  <2>2. /\ Base(path)' = Base(path) /\ Base(path) \in Nat /\ Len(data'[path]) <= written'
        /\ Base(path) + Len(data[path]) = written
    <3>1. written \in Nat /\ n \in Nat
      BY <1>n
    <3>2. Base(path)' = (written + n) - (Len(data[path]) + n)
      BY <2>1 DEF Base
    <3>3. Len(data'[path]) <= written'
      BY <2>0, <2>1, <3>1
    <3>4. Base(path) = written - Len(data[path])
      BY DEF Base
    <3> QED BY <2>0, <3>1, <3>2, <3>3, <3>4
  <2>3. ASSUME NEW k \in 1..Len(data'[path]) PROVE data'[path][k] = Base(path) + k
    <3>1. CASE k <= Len(data[path])
      BY <1>k, <1>n, <2>1, <2>2, <3>1 DEF FileInv
    <3>2. CASE k > Len(data[path])
      <4>1. k - Len(data[path]) \in 1..n /\ Len(data[path]) + (k - Len(data[path])) = k
        BY <1>n, <2>1, <3>2
      <4>2. data'[path][k] = written + (k - Len(data[path]))
        BY <2>1, <4>1
      <4> QED BY <1>n, <2>1, <2>2, <4>2
    <3> QED BY <1>n, <2>1, <3>1, <3>2
  <2>4. kind = "none" => Len(data'[path]) = written'
    BY <1>k, <2>0, <2>1, <2>2 DEF FileInv
  <2>5. FileInv'
    BY <1>k, <2>0, <2>1, <2>2, <2>3, <2>4 DEF FileInv
  <2>6. OrderInv'
    BY <1>k, <1>n, <2>1, <2>2 DEF OrderInv, FileInv
  <2> QED BY <2>5, <2>6
<1>4. CASE Truncate
  <2>1. /\ kind = "truncate" /\ path \in Inodes /\ data'[path] = <<>>
        /\ UNCHANGED <<kind, path, written, f, pos, ordered, last>>
    BY <1>0, <1>4, <1>n DEF Truncate, TypeOK
  <2>2. Len(data'[path]) = 0
    BY <2>1, EmptySeq
  <2>3. FileInv'
    BY <1>k, <1>n, <2>1, <2>2 DEF FileInv
  <2>4. f # NoInode => Base(f)' = written
    BY <1>k, <1>n, <2>1, <2>2 DEF FileInv, Base
  <2> QED BY <1>k, <2>1, <2>3, <2>4 DEF OrderInv
<1>5. CASE RenameAway
  BY <1>5, <1>k DEF RenameAway
<1>6. CASE Open
  <2>1. last = 0 /\ f' = path /\ UNCHANGED <<kind, data, path, written, pos, ordered, last>>
    BY <1>0, <1>6 DEF Open, ReadInv
  <2>2. FileInv'
    BY <1>k, <2>1 DEF FileInv, Base
  <2>3. path # NoInode => path \in Inodes /\ Len(data[path]) <= written
    BY <1>k, <1>n DEF FileInv
  <2>4. f' # NoInode => 0 <= Base(f)'
    BY <1>n, <2>1, <2>3 DEF Base
  <2> QED BY <1>k, <2>1, <2>2, <2>4 DEF OrderInv
<1>7. CASE SeekTail
  <2>1. last = 0 /\ f \in Inodes /\ UNCHANGED <<kind, data, path, written, f, ordered, last>>
    BY <1>0, <1>7 DEF SeekTail, ReadInv
  <2>2. FileInv'
    BY <1>k, <2>1 DEF FileInv, Base
  <2>3. Len(data[f]) <= written
    BY <1>0, <1>k, <2>1 DEF FileInv
  <2>4. 0 <= Base(f)'
    BY <1>n, <2>1, <2>3 DEF Base
  <2> QED BY <1>k, <2>1, <2>2, <2>4 DEF OrderInv
<1>8. CASE PrintTail \/ PrintNew
  <2>1. f \in Inodes /\ Copy /\ UNCHANGED <<kind, data, path, written, f>>
    BY <1>0, <1>8 DEF PrintTail, PrintNew, ReadInv
  <2> QED BY <1>0, <1>k, <2>1, CopyOrdered
<1>9. CASE Poll
  <2>1. f \in Inodes /\ UNCHANGED <<kind, data, path, written, f, ordered, last>>
    BY <1>0, <1>9 DEF Poll, ReadInv
  <2>2. path = f /\ FileInv'
    BY <1>0, <1>k, <2>1 DEF FileInv, Base
  <2>3. pos' = pos \/ (Len(data[f]) < pos /\ pos' = 0)
    BY <1>9, <2>2 DEF Poll, Shrunk
  <2>4. CASE pos' = pos
    BY <1>k, <2>1, <2>2, <2>4 DEF OrderInv, Base
  <2>5. CASE Len(data[f]) < pos
    <3>1. last <= Base(f)
      BY <1>0, <1>k, <1>n, <2>1, <2>5 DEF OrderInv
    <3> QED BY <1>k, <2>1, <2>2, <3>1 DEF OrderInv, Base
  <2> QED BY <2>3, <2>4, <2>5
<1>10. CASE Stop
  BY <1>10, <1>k DEF Stop, FileInv, OrderInv, Base
<1> QED BY <1>1, <1>2, <1>3, <1>4, <1>5, <1>6, <1>7, <1>8, <1>9, <1>10 DEF Next, LogsStep

\* logs.go's follower: whatever is written or truncated between the size, the seek and
\* the read, no line is printed twice or after a later one, unless the log is renamed.
THEOREM PrintsInOrder == Spec => []InOrder
<1>1. Spec => [](Typed /\ Ordered)
  BY TypedInit, TypedStep, OrderedInit, OrderedStep, PTL DEF Spec
<1>2. Typed /\ Ordered => InOrder
  BY DEF Ordered, OrderInv, InOrder
<1> QED BY <1>1, <1>2, PTL

-----------------------------------------------------------------------------
(* No gap.                                                                 *)

Gapless == kind = "none" => GapInv

LEMMA GaplessInit == Init => Gapless
BY DEF Init, Gapless, GapInv

\* Copying continues where the last one ended.
LEMMA CopyGapless ==
    ASSUME TypeOK, f \in Inodes, Copy, FileInv, GapInv, kind = "none", pc \in {"print", "copy"},
           UNCHANGED <<data, f, first>>
    PROVE  GapInv'
<1>1. Len(data[f]) = written /\ path = f
  BY LogsAssumption DEF FileInv
<1>2. /\ written \in Nat /\ pos \in Nat /\ last \in Nat /\ first \in Nat
  BY LogSize
<1>3. \A k \in 1..Len(data[f]) : data[f][k] = k
  <2>1. Base(f) = 0
    BY <1>1, <1>2 DEF Base
  <2>2. \A k \in 1..Len(data[f]) : data[f][k] = Base(f) + k
    BY <1>1, LogsAssumption DEF FileInv
  <2> QED BY <2>1, <2>2
<1>4. /\ pos <= written /\ first <= pos + 1 /\ (seen = {} => first = pos + 1)
      /\ (seen # {} => last = pos /\ first <= last /\ seen = first..last)
  BY <1>1 DEF GapInv
<1>5. CASE pos >= written
  <2>1. pos' = pos /\ seen' = seen /\ last' = last
    BY <1>1, <1>5, CopyIs
  <2> QED BY <1>1, <1>4, <2>1 DEF GapInv
<1>6. CASE pos < written
  <2>1. /\ pos' = written /\ seen' = seen \cup {data[f][k] : k \in pos + 1..written}
        /\ last' = data[f][written]
    BY <1>1, <1>6, CopyIs
  <2>2. {data[f][k] : k \in pos + 1..written} = pos + 1..written
    <3>1. \A k \in pos + 1..written : data[f][k] = k
      BY <1>1, <1>2, <1>3
    <3> QED BY <3>1
  <2>3. last' = written
    BY <1>1, <1>2, <1>3, <1>6, <2>1
  <2>4. seen' = first..written
    <3>1. CASE seen = {}
      BY <1>4, <2>1, <2>2, <3>1
    <3>2. CASE seen # {}
      <4>1. seen = first..pos
        BY <1>4, <3>2
      <4>2. first..pos \cup (pos + 1..written) = first..written
        BY <1>2, <1>4, <1>6
      <4> QED BY <2>1, <2>2, <4>1, <4>2
    <3> QED BY <3>1, <3>2
  <2>5. first <= written /\ first <= written + 1
    BY <1>2, <1>4, <1>6
  <2>6. written \in seen'
    BY <1>2, <2>4, <2>5
  <2> QED BY <1>1, <1>2, <2>1, <2>3, <2>4, <2>5, <2>6 DEF GapInv
<1> QED BY <1>2, <1>5, <1>6

LEMMA GaplessStep == Typed /\ Ordered /\ Gapless /\ [Next]_vars => Gapless'
<1> SUFFICES ASSUME Typed, Ordered, Gapless, [Next]_vars, kind' = "none" PROVE GapInv'
  BY DEF Gapless
<1>0. TypeOK /\ ReadInv /\ NoInode \notin Inodes
  BY LogsAssumption DEF Typed
<1>n. /\ written \in Nat /\ pos \in Nat /\ last \in Nat /\ tail \in Nat
      /\ \A i \in Inodes : Len(data[i]) \in Nat
      /\ f # NoInode => f \in Inodes
  BY <1>0, LogSize
<1>k. kind = "none" /\ FileInv /\ GapInv
  BY DEF Ordered, Gapless, Next, vars, options, Create, DaemonWrites, Truncate, RenameAway, LogsStep,
     Open, SeekTail, PrintTail, Poll, PrintNew, Stop
<1> USE DEF options, log, out
<1>1. CASE UNCHANGED vars
  BY <1>1, <1>k DEF vars, GapInv
<1>2. CASE Create
  BY <1>2, <1>k DEF Create, GapInv
<1>3. ASSUME NEW n \in 1..2, DaemonWrites(n) PROVE GapInv'
  <2>1. UNCHANGED <<pc, f, pos, first, seen, last>> /\ Len(data'[path]) = Len(data[path]) + n
        /\ path \in Inodes
    BY <1>0, <1>3, WriteIs DEF DaemonWrites
  <2>2. ASSUME pc \in {"print", "wait", "copy"} PROVE pos <= Len(data'[f])
    <3>1. f = path /\ pos <= Len(data[path])
      BY <1>0, <1>k, <2>2 DEF ReadInv, FileInv, GapInv
    <3> QED BY <1>n, <2>1, <3>1
  <2> QED BY <1>k, <2>1, <2>2 DEF GapInv
<1>4. CASE Truncate \/ RenameAway
  BY <1>4, <1>k DEF Truncate, RenameAway
<1>5. CASE Open
  BY <1>0, <1>5 DEF Open, GapInv, ReadInv
<1>6. CASE SeekTail
  <2>1. f \in Inodes /\ seen = {} /\ UNCHANGED <<data, f, seen>>
    BY <1>0, <1>6 DEF SeekTail, ReadInv
  <2>2. Len(data[f]) = written
    BY <1>0, <1>k, <2>1 DEF FileInv
  <2>3. pos' <= written /\ first' = pos' + 1 /\ first' <= pos' + 1
    BY <1>6, <1>n, <2>2 DEF SeekTail, Offset
  <2>4. seen' = {} /\ pos' <= Len(data'[f'])
    BY <2>1, <2>2, <2>3
  <2> QED BY <2>3, <2>4 DEF GapInv
<1>7. CASE PrintTail \/ PrintNew
  <2>1. f \in Inodes /\ Copy /\ pc \in {"print", "copy"} /\ UNCHANGED <<data, f, first>>
    BY <1>0, <1>7 DEF PrintTail, PrintNew, ReadInv
  <2> QED BY <1>0, <1>k, <2>1, CopyGapless
<1>8. CASE Poll
  <2>1. pc = "wait" /\ f \in Inodes /\ UNCHANGED <<data, f, first, seen, last>>
    BY <1>0, <1>8 DEF Poll, ReadInv
  <2>2. path = f /\ pos <= Len(data[f])
    BY <1>0, <1>k, <2>1 DEF FileInv, GapInv
  <2>3. ~(Len(data[f]) < pos)
    BY <1>n, <2>1, <2>2
  <2>4. pos' = pos
    BY <1>8, <2>2, <2>3 DEF Poll, Shrunk
  <2> QED BY <1>k, <2>1, <2>4 DEF GapInv
<1>9. CASE Stop
  BY <1>9, <1>k DEF Stop, GapInv
<1> QED BY <1>1, <1>2, <1>3, <1>4, <1>5, <1>6, <1>7, <1>8, <1>9 DEF Next, LogsStep

\* Of a log nobody rotates, the command prints the last --tail lines and every line
\* since, wherever lines are written between the size, the seek and the read.
THEOREM PrintsAll == Spec => []NoGap
<1>1. Spec => [](Typed /\ Ordered /\ Gapless)
  BY TypedInit, TypedStep, OrderedInit, OrderedStep, GaplessInit, GaplessStep, PTL DEF Spec
<1>2. Typed /\ Ordered /\ Gapless => NoGap
  BY DEF Gapless, GapInv, NoGap
<1> QED BY <1>1, <1>2, PTL
=============================================================================
