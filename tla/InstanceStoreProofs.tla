------------------------ MODULE InstanceStoreProofs ------------------------
(* Theorems about InstanceStore, for every set of names, processes, command  *)
(* lines and initial stores.                                                 *)
EXTENDS InstanceStore, FiniteSetTheorems, WellFoundedInduction, TLAPS

-----------------------------------------------------------------------------
(* NextIndex.                                                              *)

\* A nonempty set of naturals has a least element.
LEMMA LeastNatural ==
    ASSUME NEW S \in SUBSET Nat, S # {}
    PROVE  \E n \in S : \A m \in S : n <= m
<1>1. PICK n \in S : \A m \in S : ~(<<m, n>> \in OpToRel(<, Nat))
  BY NatLessThanWellFounded, WFMin, Zenon
<1>2. ASSUME NEW m \in S PROVE n <= m
  <2>1. <<m, n>> \in Nat \X Nat /\ ~(<<m, n>> \in OpToRel(<, Nat))
    BY <1>1
  <2>2. ~(m < n)
    BY <2>1 DEF OpToRel
  <2> QED BY <2>2
<1> QED BY <1>2

\* Store.NextIndex always finds an index, the lowest one that no instance it
\* was shown has.
LEMMA NextIndexLowest ==
    ASSUME NEW used \in SUBSET Nat, IsFiniteSet(used)
    PROVE  /\ NextIndex(used) \in 0..Cardinality(used) /\ NextIndex(used) \notin used
           /\ \A m \in 0..(NextIndex(used) - 1) : m \in used
<1> DEFINE c == Cardinality(used)
           free == (0..c) \ used
<1>1. c \in Nat
  BY FS_CardinalityType
<1>2. free # {}
  <2>1. SUFFICES ASSUME (0..c) \subseteq used PROVE FALSE
    OBVIOUS
  <2>2. Cardinality(0..c) <= c
    BY <2>1, FS_Subset
  <2>3. Cardinality(0..c) = c + 1
    BY <1>1, FS_Interval
  <2> QED BY <1>1, <2>2, <2>3
<1>3. PICK n \in free : \A m \in free : n <= m
  <2>1. free \in SUBSET Nat
    BY <1>1
  <2> HIDE DEF free
  <2> QED BY <1>2, <2>1, LeastNatural
<1>4. \A m \in 0..(n - 1) : m \in used
  BY <1>1, <1>3
<1>5. \E k \in 0..c : k \notin used /\ \A m \in 0..(k - 1) : m \in used
  BY <1>3, <1>4
<1> QED BY <1>5 DEF NextIndex

LEMMA NextIndexFree ==
    ASSUME NEW used \in SUBSET Nat, IsFiniteSet(used)
    PROVE  NextIndex(used) \in Nat /\ NextIndex(used) \notin used
<1>1. Cardinality(used) \in Nat
  BY FS_CardinalityType
<1> QED BY <1>1, NextIndexLowest

\* The indexes of a finite set of instances are finitely many naturals.
LEMMA IndexesFinite ==
    ASSUME NEW S \in SUBSET Record, IsFiniteSet(S)
    PROVE  /\ {r.index : r \in S} \in SUBSET Nat
           /\ IsFiniteSet({r.index : r \in S})
<1> DEFINE T == {r.index : r \in S}
           f == [r \in S |-> r.index]
<1>1. f \in Surjection(S, T)
  BY DEF Surjection
<1>2. IsFiniteSet(T)
  BY <1>1, FS_Surjection DEF ExistsSurjection
<1> QED BY <1>2 DEF Record

-----------------------------------------------------------------------------
(* Types.                                                                  *)

\* NextIndex needs the instances List has loaded to be finitely many, Load the
\* name its command line gave.
CliInv == /\ cli \in [Procs -> CLI]
          /\ \A p \in Procs : IsFiniteSet(cli[p].seen)
          /\ \A p \in Procs : Busy(p) => cli[p].job \in Job
TypeInv == TypeOK /\ CliInv

\* Normalize and Changed keep the name and the index of an instance.
LEMMA NormalizeKeeps ==
    ASSUME NEW r \in Record
    PROVE  /\ Normalize(r) \in Record
           /\ Normalize(r).name = r.name /\ Normalize(r).index = r.index
BY DEF Normalize, Record, Modes

LEMMA ChangedKeeps ==
    ASSUME NEW r \in Record, NEW j \in Job \cup {NoJob}
    PROVE  /\ Changed(r, j) \in Record
           /\ Changed(r, j).name = r.name /\ Changed(r, j).index = r.index
<1>1. j.port \in Nat \cup {NilPort} /\ j.mode \in Modes \cup {"unset"}
  BY DEF Job, NoJob
<1>2. Changed(r, j) \in Record
  BY <1>1 DEF Changed, Record
<1> QED BY <1>2 DEF Changed, Record

\* `add` gives the new instance an index none of the listed ones has.
LEMMA NewInstanceFresh ==
    ASSUME NEW j \in Job, j.cmd = "add", NEW S \in SUBSET Record, IsFiniteSet(S)
    PROVE  /\ NewInstance(j, S) \in Record
           /\ NewInstance(j, S).name = j.name
           /\ \A r \in S : NewInstance(j, S).index # r.index
<1> DEFINE used == {r.index : r \in S}
<1>1. NextIndex(used) \in Nat /\ NextIndex(used) \notin used
  <2>1. used \in SUBSET Nat /\ IsFiniteSet(used)
    BY IndexesFinite
  <2> HIDE DEF used
  <2> QED BY <2>1, NextIndexFree
<1>2. j.port \in Nat /\ j.name \in Names /\ j.mode \in Modes \cup {"unset"}
  BY DEF Job, NilPort
<1>3. DefaultMode \in Modes
  BY ParamsAssumption
<1> QED BY <1>1, <1>2, <1>3 DEF NewInstance, Record, Modes

LEMMA ZeroIdleTypes == Zero \in Record /\ IdleCLI \in CLI
<1>1. Zero \in Record
  BY DEF Zero, Record
<1> QED BY <1>1 DEF IdleCLI, CLI, Labels

LEMMA LabelTypes == \A l \in {"idle", "exists", "readdir", "read", "load", "act", "open",
                              "write"} : l \in Labels
BY DEF Labels

LEMMA TypeInit == Init => TypeInv
<1> SUFFICES ASSUME Init PROVE TypeInv
  OBVIOUS
<1>1. PICK s \in Seeds : dirs = s.dirs /\ file = s.file /\ rec = s.rec
  BY DEF Init
<1>2. dirs \subseteq Names /\ file \in [Names -> {"absent", "ok"}] /\ rec \in [Names -> Record]
  BY <1>1, SeedsAssumption
<1>3. cli \in [Procs -> CLI]
  BY ZeroIdleTypes DEF Init
<1>4. \A p \in Procs : IsFiniteSet(cli[p].seen) /\ ~Busy(p)
  BY FS_EmptySet DEF Init, IdleCLI, Busy
<1>5. mayCrash \in BOOLEAN
  BY DEF Init
<1> QED BY <1>2, <1>3, <1>4, <1>5 DEF TypeInv, TypeOK, CliInv

\* A process that ends keeps the types of all.
LEMMA ExitType ==
    ASSUME CliInv, NEW p \in Procs, Exit(p)
    PROVE  CliInv'
<1>1. cli' \in [Procs -> CLI]
  BY ZeroIdleTypes DEF CliInv, Exit
<1>2. \A q \in Procs : cli'[q] = IF q = p THEN IdleCLI ELSE cli[q]
  BY DEF CliInv, Exit
<1>3. IdleCLI.seen = {} /\ IdleCLI.pc = "idle"
  BY DEF IdleCLI
<1> QED BY <1>1, <1>2, <1>3, FS_EmptySet DEF CliInv, Busy

\* A step that keeps the listed instances and the command line of every process
\* only has to keep the record's type.
LEMMA KeepType ==
    ASSUME CliInv, cli' \in [Procs -> CLI],
           \A q \in Procs : /\ cli'[q].seen = cli[q].seen /\ cli'[q].job = cli[q].job
                            /\ cli'[q].pc # "idle" => cli[q].pc # "idle"
    PROVE  CliInv'
BY DEF CliInv, Busy

\* Whether commands may be killed does not change.
LEMMA MayCrashKept == [Next]_vars => mayCrash' = mayCrash
BY DEF Next, vars, Step, Begin, AddExists, ReadDir, ReadOne, AddChoose, ListMigrate, ListDone, Load,
       ActSet, ActMark, ActRemove, ActPurge, SaveOpen, SaveWrite, Crash

LEMMA TypeStep == TypeInv /\ [Next]_vars => TypeInv'
<1> SUFFICES ASSUME TypeInv, [Next]_vars PROVE TypeInv'
  OBVIOUS
<1>0. /\ dirs \in SUBSET Names /\ rec \in [Names -> Record]
      /\ file \in [Names -> {"absent", "empty", "corrupt", "ok"}]
      /\ CliInv /\ cli \in [Procs -> CLI]
  BY DEF TypeInv, TypeOK, CliInv
<1>b. mayCrash' \in BOOLEAN
  BY MayCrashKept DEF TypeInv, TypeOK
<1>a. ASSUME UNCHANGED <<dirs, file, rec>>, CliInv' PROVE TypeInv'
  BY <1>0, <1>b, <1>a DEF TypeInv, TypeOK, CliInv
<1>1. CASE UNCHANGED vars
  BY <1>1 DEF vars, TypeInv, TypeOK, CliInv, Busy
<1>2. ASSUME NEW p \in Procs, NEW j \in Jobs, Begin(p, j) PROVE TypeInv'
  <2> DEFINE l == CASE j.cmd = "add" -> "exists" [] j.cmd = "list" -> "readdir" [] OTHER -> "load"
  <2>1. j \in Job /\ l \in Labels
    BY JobsAssumption, LabelTypes
  <2>2. cli' = [cli EXCEPT ![p].job = j, ![p].pc = l]
    BY <1>2 DEF Begin
  <2> HIDE DEF l
  <2>3. cli' \in [Procs -> CLI]
    <3>1. cli[p] \in CLI /\ cli \in [Procs -> CLI]
      BY <1>0
    <3>2. [cli[p] EXCEPT !.job = j, !.pc = l] \in CLI
      BY <2>1, <3>1 DEF CLI
    <3>3. cli' = [cli EXCEPT ![p] = [cli[p] EXCEPT !.job = j, !.pc = l]]
      BY <2>2, <3>1
    <3> QED BY <3>1, <3>2, <3>3
  <2>4. \A q \in Procs : /\ cli'[q].seen = cli[q].seen
                         /\ q # p => cli'[q] = cli[q]
                         /\ q = p => cli'[q].job = j
    BY <1>0, <2>2 DEF CLI
  <2>5. CliInv'
    BY <1>0, <2>1, <2>3, <2>4 DEF CliInv, Busy
  <2> QED BY <1>a, <1>2, <2>5 DEF Begin
<1>3. ASSUME NEW p \in Procs, AddExists(p) PROVE TypeInv'
  <2>1. CASE Exit(p)
    BY <1>0, <1>a, <1>3, <2>1, ExitType DEF AddExists
  <2>2. CASE cli' = [cli EXCEPT ![p].pc = "readdir"]
    <3>1. cli' \in [Procs -> CLI]
      <4>1. [cli[p] EXCEPT !.pc = "readdir"] \in CLI
        BY <1>0, LabelTypes DEF CLI
      <4> QED BY <1>0, <2>2, <4>1
    <3>2. CliInv'
      BY <1>0, <1>3, <2>2, <3>1, KeepType DEF AddExists, CLI
    <3> QED BY <1>a, <1>3, <3>2 DEF AddExists
  <2> QED BY <1>3, <2>1, <2>2 DEF AddExists
<1>4. ASSUME NEW p \in Procs, ReadDir(p) PROVE TypeInv'
  <2>1. cli' = [cli EXCEPT ![p].pc = "read", ![p].todo = dirs] /\ cli[p].pc = "readdir"
    BY <1>4 DEF ReadDir
  <2>2. cli' \in [Procs -> CLI]
    <3>1. [cli[p] EXCEPT !.pc = "read", !.todo = dirs] \in CLI
      BY <1>0, LabelTypes DEF CLI
    <3> QED BY <1>0, <2>1, <3>1
  <2>3. CliInv'
    BY <1>0, <2>1, <2>2, KeepType DEF CLI
  <2> QED BY <1>a, <1>4, <2>3 DEF ReadDir
<1>5. ASSUME NEW p \in Procs, ReadOne(p) PROVE TypeInv'
  <2>1. CASE Exit(p)
    BY <1>0, <1>a, <1>5, <2>1, ExitType DEF ReadOne
  <2>2. CASE ~Exit(p)
    <3>1. PICK n \in cli[p].todo :
             cli' = [cli EXCEPT ![p].todo = @ \ {n},
                                ![p].seen = IF file[n] = "absent" THEN @ ELSE @ \cup {rec[n]}]
      BY <1>5, <2>2 DEF ReadOne
    <3>2. n \in Names /\ rec[n] \in Record
      BY <1>0 DEF CLI
    <3> DEFINE S == IF file[n] = "absent" THEN cli[p].seen ELSE cli[p].seen \cup {rec[n]}
               D == cli[p].todo \ {n}
    <3>3. S \in SUBSET Record /\ D \in SUBSET Names /\ IsFiniteSet(S)
      BY <1>0, <3>2, FS_AddElement DEF CLI, CliInv
    <3>4. cli' = [cli EXCEPT ![p].todo = D, ![p].seen = S]
      BY <3>1
    <3> HIDE DEF S, D
    <3>5. cli' \in [Procs -> CLI]
      <4>1. cli[p] \in CLI /\ cli \in [Procs -> CLI]
        BY <1>0
      <4>2. [cli[p] EXCEPT !.todo = D, !.seen = S] \in CLI
        BY <3>3, <4>1 DEF CLI
      <4>3. cli' = [cli EXCEPT ![p] = [cli[p] EXCEPT !.todo = D, !.seen = S]]
        BY <3>4, <4>1
      <4> QED BY <4>1, <4>2, <4>3
    <3>6. \A q \in Procs : /\ cli'[q].job = cli[q].job /\ cli'[q].pc = cli[q].pc
                           /\ cli'[q].seen = IF q = p THEN S ELSE cli[q].seen
      BY <1>0, <3>4 DEF CLI
    <3>7. CliInv'
      BY <1>0, <3>3, <3>5, <3>6 DEF CliInv, Busy
    <3> QED BY <1>a, <1>5, <3>7 DEF ReadOne
  <2> QED BY <2>1, <2>2
<1>6. ASSUME NEW p \in Procs, AddChoose(p) PROVE TypeInv'
  <2> DEFINE i == NewInstance(cli[p].job, cli[p].seen)
  <2>1. cli[p].job \in Job /\ cli[p].job.cmd = "add" /\ cli[p].seen \in SUBSET Record
    BY <1>0, <1>6 DEF AddChoose, CLI, NoJob
  <2>2. i \in Record
    BY <1>0, <2>1, NewInstanceFresh DEF CliInv
  <2>3. /\ cli' = [cli EXCEPT ![p].pc = "open", ![p].back = "idle", ![p].inst = i]
        /\ cli[p].pc = "read"
    BY <1>6 DEF AddChoose
  <2> HIDE DEF i
  <2>4. cli' \in [Procs -> CLI]
    <3>1. [cli[p] EXCEPT !.pc = "open", !.back = "idle", !.inst = i] \in CLI
      BY <1>0, <2>2, LabelTypes DEF CLI
    <3> QED BY <1>0, <2>3, <3>1
  <2>5. CliInv'
    BY <1>0, <2>3, <2>4, KeepType DEF CLI
  <2> QED BY <1>a, <1>6, <2>5 DEF AddChoose
<1>7. ASSUME NEW p \in Procs, ListMigrate(p) PROVE TypeInv'
  <2>1. PICK r \in cli[p].seen :
           cli' = [cli EXCEPT ![p].pc = "open", ![p].back = "read",
                              ![p].inst = Normalize(r), ![p].seen = @ \ {r}]
    BY <1>7 DEF ListMigrate
  <2> DEFINE i == Normalize(r)
             S == cli[p].seen \ {r}
  <2>2. i \in Record /\ S \in SUBSET Record /\ IsFiniteSet(S)
    <3>1. cli[p].seen \in SUBSET Record
      BY <1>0 DEF CLI
    <3>2. IsFiniteSet(S)
      BY <1>0, FS_Subset DEF CliInv
    <3> QED BY <3>1, <3>2, NormalizeKeeps
  <2>3. /\ cli' = [cli EXCEPT ![p].pc = "open", ![p].back = "read", ![p].inst = i, ![p].seen = S]
        /\ cli[p].pc = "read"
    BY <1>7, <2>1 DEF ListMigrate
  <2> HIDE DEF i, S
  <2>4. cli' \in [Procs -> CLI]
    <3>1. [cli[p] EXCEPT !.pc = "open", !.back = "read", !.inst = i, !.seen = S] \in CLI
      BY <1>0, <2>2, LabelTypes DEF CLI
    <3> QED BY <1>0, <2>3, <3>1
  <2>5. \A q \in Procs : /\ cli'[q].job = cli[q].job
                         /\ cli'[q].pc # "idle" => cli[q].pc # "idle"
                         /\ cli'[q].seen = IF q = p THEN S ELSE cli[q].seen
    BY <1>0, <2>3 DEF CLI
  <2>6. CliInv'
    BY <1>0, <2>2, <2>4, <2>5 DEF CliInv, Busy
  <2> QED BY <1>a, <1>7, <2>6 DEF ListMigrate
<1>8. ASSUME NEW p \in Procs, ListDone(p) PROVE TypeInv'
  BY <1>0, <1>a, <1>8, ExitType DEF ListDone
<1>9. ASSUME NEW p \in Procs, Load(p) PROVE TypeInv'
  <2>1. CASE Exit(p)
    BY <1>0, <1>a, <1>9, <2>1, ExitType DEF Load
  <2>2. CASE ~Exit(p)
    <3> DEFINE i == Normalize(rec[cli[p].job.name])
               l == IF i # rec[cli[p].job.name] THEN "open" ELSE "act"
    <3>1. cli' = [cli EXCEPT ![p].inst = i, ![p].back = "act", ![p].pc = l] /\ cli[p].pc = "load"
      BY <1>9, <2>2 DEF Load
    <3>2. rec[cli[p].job.name] \in Record
      BY <1>0, <3>1 DEF CliInv, Busy, Job
    <3>3. i \in Record /\ l \in Labels
      BY <3>2, NormalizeKeeps, LabelTypes
    <3> HIDE DEF i, l
    <3>4. cli' \in [Procs -> CLI]
      <4>1. [cli[p] EXCEPT !.inst = i, !.back = "act", !.pc = l] \in CLI
        BY <1>0, <3>3 DEF CLI
      <4> QED BY <1>0, <3>1, <4>1
    <3>5. CliInv'
      BY <1>0, <3>1, <3>4, KeepType DEF CLI
    <3> QED BY <1>a, <1>9, <3>5 DEF Load
  <2> QED BY <2>1, <2>2
<1>10. ASSUME NEW p \in Procs, ActSet(p) PROVE TypeInv'
  <2> DEFINE i == Changed(cli[p].inst, cli[p].job)
  <2>1. i \in Record
    BY <1>0, ChangedKeeps DEF CLI
  <2>2. /\ cli' = [cli EXCEPT ![p].inst = i, ![p].pc = "open", ![p].back = "idle"]
        /\ cli[p].pc = "act"
    BY <1>10 DEF ActSet
  <2> HIDE DEF i
  <2>3. cli' \in [Procs -> CLI]
    <3>1. [cli[p] EXCEPT !.inst = i, !.pc = "open", !.back = "idle"] \in CLI
      BY <1>0, <2>1, LabelTypes DEF CLI
    <3> QED BY <1>0, <2>2, <3>1
  <2>4. CliInv'
    BY <1>0, <2>2, <2>3, KeepType DEF CLI
  <2> QED BY <1>a, <1>10, <2>4 DEF ActSet
<1>11. ASSUME NEW p \in Procs, ActMark(p) PROVE TypeInv'
  <2>1. CASE Exit(p)
    BY <1>0, <1>a, <1>11, <2>1, ExitType DEF ActMark
  <2>2. CASE ~Exit(p)
    <3> DEFINE i == [cli[p].inst EXCEPT !.loggedIn = TRUE]
    <3>1. i \in Record
      <4>1. cli[p].inst \in Record
        BY <1>0 DEF CLI
      <4> QED BY <4>1 DEF Record
    <3>2. /\ cli' = [cli EXCEPT ![p].inst = i, ![p].pc = "open", ![p].back = "idle"]
          /\ cli[p].pc = "act"
      BY <1>11, <2>2 DEF ActMark
    <3> HIDE DEF i
    <3>3. cli' \in [Procs -> CLI]
      <4>1. [cli[p] EXCEPT !.inst = i, !.pc = "open", !.back = "idle"] \in CLI
        BY <1>0, <3>1, LabelTypes DEF CLI
      <4> QED BY <1>0, <3>2, <4>1
    <3>4. CliInv'
      BY <1>0, <3>2, <3>3, KeepType DEF CLI
    <3> QED BY <1>a, <1>11, <3>4 DEF ActMark
  <2> QED BY <2>1, <2>2
<1>12. ASSUME NEW p \in Procs, NEW gone, Unlink(gone, p) PROVE CliInv'
  <2>1. \A q \in Procs : cli'[q] = IF q = p THEN IdleCLI
             ELSE [cli[q] EXCEPT !.linked = @ /\ cli[q].inst.name \notin gone]
    BY <1>12 DEF Unlink
  <2>2. ASSUME NEW q \in Procs, q # p
        PROVE  /\ cli'[q] \in CLI /\ cli'[q].seen = cli[q].seen
               /\ cli'[q].job = cli[q].job /\ cli'[q].pc = cli[q].pc
    <3> DEFINE b == cli[q].linked /\ cli[q].inst.name \notin gone
    <3>1. b \in BOOLEAN /\ cli'[q] = [cli[q] EXCEPT !.linked = b]
      BY <2>1, <2>2
    <3> HIDE DEF b
    <3> QED BY <1>0, <3>1 DEF CLI
  <2>3. cli'[p] \in CLI /\ cli'[p].seen = {} /\ cli'[p].pc = "idle"
    <3>1. cli'[p] = IdleCLI
      BY <2>1
    <3>2. IdleCLI.seen = {} /\ IdleCLI.pc = "idle"
      BY DEF IdleCLI
    <3> QED BY <3>1, <3>2, ZeroIdleTypes
  <2>4. cli' \in [Procs -> CLI]
    BY <1>12, <2>2, <2>3 DEF Unlink
  <2> QED BY <1>0, <2>2, <2>3, <2>4, FS_EmptySet DEF CliInv, Busy
<1>13. ASSUME NEW p \in Procs, ActRemove(p) PROVE TypeInv'
  <2>1. CliInv'
    BY <1>12, <1>13 DEF ActRemove
  <2>2. /\ file' \in [Names -> {"absent", "empty", "corrupt", "ok"}]
        /\ rec' \in [Names -> Record] /\ dirs' = dirs
    BY <1>0, <1>13, ZeroIdleTypes DEF ActRemove
  <2> QED BY <1>0, <1>b, <2>1, <2>2 DEF TypeInv, TypeOK, CliInv
<1>14. ASSUME NEW p \in Procs, ActPurge(p) PROVE TypeInv'
  <2>1. CliInv'
    BY <1>12, <1>14 DEF ActPurge
  <2>2. /\ file' \in [Names -> {"absent", "empty", "corrupt", "ok"}]
        /\ rec' \in [Names -> Record] /\ dirs' \in SUBSET Names
    BY <1>0, <1>14, ZeroIdleTypes DEF ActPurge
  <2> QED BY <1>0, <1>b, <2>1, <2>2 DEF TypeInv, TypeOK, CliInv
<1>15. ASSUME NEW p \in Procs, SaveOpen(p) PROVE TypeInv'
  <2>1. cli' = [cli EXCEPT ![p].pc = "write", ![p].linked = TRUE] /\ cli[p].pc = "open"
    BY <1>15 DEF SaveOpen
  <2>2. cli' \in [Procs -> CLI]
    <3>1. [cli[p] EXCEPT !.pc = "write", !.linked = TRUE] \in CLI
      BY <1>0, LabelTypes DEF CLI
    <3> QED BY <1>0, <2>1, <3>1
  <2>3. CliInv'
    BY <1>0, <2>1, <2>2, KeepType DEF CLI
  <2>4. /\ file' \in [Names -> {"absent", "empty", "corrupt", "ok"}]
        /\ rec' \in [Names -> Record] /\ dirs' \in SUBSET Names
    BY <1>0, <1>15, ZeroIdleTypes DEF SaveOpen
  <2> QED BY <1>b, <2>3, <2>4 DEF TypeInv, TypeOK, CliInv
<1>16. ASSUME NEW p \in Procs, SaveWrite(p) PROVE TypeInv'
  <2>1. CliInv'
    <3>1. CASE Exit(p)
      BY <1>0, <3>1, ExitType
    <3>2. CASE cli' = [cli EXCEPT ![p].pc = cli[p].back, ![p].linked = FALSE]
      <4>1. cli[p].back \in Labels /\ cli[p].pc = "write"
        BY <1>0, <1>16, LabelTypes DEF CLI, SaveWrite
      <4>2. cli' \in [Procs -> CLI]
        <5>1. [cli[p] EXCEPT !.pc = cli[p].back, !.linked = FALSE] \in CLI
          BY <1>0, <4>1 DEF CLI
        <5> QED BY <1>0, <3>2, <5>1
      <4> QED BY <1>0, <3>2, <4>1, <4>2, KeepType DEF CLI
    <3> QED BY <1>16, <3>1, <3>2 DEF SaveWrite, SaveReturn
  <2>2. /\ file' \in [Names -> {"absent", "empty", "corrupt", "ok"}]
        /\ rec' \in [Names -> Record] /\ dirs' = dirs
    <3>1. cli[p].inst \in Record
      BY <1>0 DEF CLI
    <3> QED BY <1>0, <1>16, <3>1, ZeroIdleTypes DEF SaveWrite
  <2> QED BY <1>0, <1>b, <2>1, <2>2 DEF TypeInv, TypeOK, CliInv
<1>17. ASSUME NEW p \in Procs, Crash(p) PROVE TypeInv'
  BY <1>0, <1>a, <1>17, ExitType DEF Crash
<1> QED BY <1>1, <1>2, <1>3, <1>4, <1>5, <1>6, <1>7, <1>8, <1>9, <1>10, <1>11, <1>13, <1>14,
           <1>15, <1>16, <1>17 DEF Next, Step

\* Every reachable state has the types of the code's values, however many
\* processes run and wherever they are killed.
THEOREM Types == Spec => []TypeOK
<1>1. TypeInv => TypeOK
  BY DEF TypeInv
<1> QED BY <1>1, TypeInit, TypeStep, PTL DEF Spec

-----------------------------------------------------------------------------
(* One command at a time.                                                  *)

\* An idle process is never in the way.
LEMMA IdleSerialProc == IdleCLI.pc = "idle" /\ SerialProc(IdleCLI) /\ SerialProc(IdleCLI)'
BY DEF IdleCLI, SerialProc, OwnsIndex, HasOpened, SeenIsCurrent, Listing, AddSeesAll, NoJob

LEMMA SerialInit == Init => SerialInv
<1> SUFFICES ASSUME Init PROVE SerialInv
  OBVIOUS
<1>1. PICK s \in Seeds : dirs = s.dirs /\ file = s.file /\ rec = s.rec
  BY DEF Init
<1>2. WellFormed(dirs, file, rec) /\ \A n \in Names : file[n] # "corrupt"
  BY <1>1, SeedsAssumption
<1>3. \A p \in Procs : cli[p] = IdleCLI
  BY DEF Init
<1> QED BY <1>2, <1>3, IdleSerialProc DEF SerialInv, Busy

\* While p works, or may start, every other process is idle.
LEMMA OthersIdle ==
    ASSUME SerialInv, NEW p \in Procs, Busy(p) \/ \A q \in Procs : ~Busy(q)
    PROVE  \A q \in Procs \ {p} : cli[q] = IdleCLI
BY DEF SerialInv, SerialProc, Busy

\* So after a step of p only p and the files need attention.
LEMMA OneProcess ==
    ASSUME NEW p \in Procs, \A q \in Procs \ {p} : cli'[q] = IdleCLI,
           WellFormed(dirs, file, rec)', \A n \in Names : file'[n] # "corrupt",
           SerialProc(cli[p])'
    PROVE  SerialInv'
<1>1. \A q \in Procs : SerialProc(cli[q])'
  BY IdleSerialProc
<1>2. \A q \in Procs : Busy(q)' => q = p
  BY IdleSerialProc DEF Busy
<1> QED BY <1>1, <1>2 DEF SerialInv

LEMMA SerialStep ==
    ASSUME Serial, TypeInv, SerialInv, [Next]_vars
    PROVE  SerialInv'
<1>0. /\ dirs \in SUBSET Names /\ rec \in [Names -> Record]
      /\ file \in [Names -> {"absent", "empty", "corrupt", "ok"}]
      /\ cli \in [Procs -> CLI]
      /\ \A p \in Procs : Busy(p) => cli[p].job \in Job
      /\ NoName \notin Names
  BY NamesAssumption DEF TypeInv, TypeOK, CliInv
<1>1. CASE UNCHANGED vars
  BY <1>1 DEF vars, SerialInv, WellFormed, IndexUnique, Busy, SerialProc, OwnsIndex, HasOpened,
              SeenIsCurrent, Listing, AddSeesAll
<1>a. ASSUME NEW p \in Procs, Busy(p) PROVE \A q \in Procs \ {p} : cli[q] = IdleCLI
  BY <1>a, OthersIdle
<1>b. ASSUME NEW p \in Procs, UNCHANGED <<dirs, file, rec>>,
             \A q \in Procs \ {p} : cli'[q] = IdleCLI, SerialProc(cli[p])'
      PROVE  SerialInv'
  BY <1>b, OneProcess DEF SerialInv, WellFormed, IndexUnique
<1>c. ASSUME NEW p \in Procs, Busy(p), Exit(p), UNCHANGED <<dirs, file, rec>> PROVE SerialInv'
  <2>1. \A q \in Procs : cli'[q] = IdleCLI
    BY <1>0, <1>a, <1>c DEF Exit
  <2> QED BY <1>b, <1>c, <2>1, IdleSerialProc
<1>2. ASSUME NEW p \in Procs, NEW j \in Jobs, Begin(p, j) PROVE SerialInv'
  <2>1. \A q \in Procs : cli[q] = IdleCLI
    BY <1>2, OthersIdle DEF Begin, SerialInv, SerialProc, Busy
  <2> DEFINE l == CASE j.cmd = "add" -> "exists" [] j.cmd = "list" -> "readdir" [] OTHER -> "load"
  <2>2. cli' = [cli EXCEPT ![p].job = j, ![p].pc = l] /\ l \in {"exists", "readdir", "load"}
        /\ (j.cmd = "add" => l = "exists") /\ UNCHANGED <<dirs, file, rec>>
    BY <1>2 DEF Begin
  <2> HIDE DEF l
  <2>3. \A q \in Procs \ {p} : cli'[q] = IdleCLI
    BY <1>0, <2>1, <2>2
  <2>4. cli'[p].pc = l /\ cli'[p].job = j /\ cli'[p].seen = {}
    BY <1>0, <2>1, <2>2 DEF IdleCLI, CLI
  <2>5. SerialProc(cli[p])'
    BY <2>2, <2>4 DEF SerialProc, OwnsIndex, HasOpened, SeenIsCurrent, AddSeesAll
  <2> QED BY <1>b, <2>2, <2>3, <2>5
<1>3. ASSUME NEW p \in Procs, AddExists(p) PROVE SerialInv'
  <2>0. Busy(p) /\ cli[p].pc = "exists" /\ UNCHANGED <<dirs, file, rec>>
    BY <1>3 DEF AddExists, Busy
  <2>1. CASE Exit(p)
    BY <1>c, <2>0, <2>1
  <2>2. CASE ~Exit(p)
    <3>1. cli' = [cli EXCEPT ![p].pc = "readdir"] /\ ~Decodes(file[cli[p].job.name])
      BY <1>3, <2>2 DEF AddExists
    <3>2. file[cli[p].job.name] = "absent"
      BY <1>0, <2>0, <3>1 DEF Decodes, Job, SerialInv
    <3>3. \A q \in Procs \ {p} : cli'[q] = IdleCLI
      BY <1>0, <1>a, <2>0, <3>1
    <3>4. cli'[p].pc = "readdir" /\ cli'[p].job = cli[p].job /\ cli'[p].seen = cli[p].seen
      BY <1>0, <3>1 DEF CLI
    <3>5. SeenIsCurrent(cli[p])
      BY DEF SerialInv, SerialProc
    <3>6. SerialProc(cli[p])'
      BY <2>0, <3>2, <3>4, <3>5
         DEF SerialProc, OwnsIndex, HasOpened, SeenIsCurrent, AddSeesAll, Listing
    <3> QED BY <1>b, <2>0, <3>3, <3>6
  <2> QED BY <2>1, <2>2
<1>4. ASSUME NEW p \in Procs, ReadDir(p) PROVE SerialInv'
  <2>0. Busy(p) /\ cli[p].pc = "readdir" /\ UNCHANGED <<dirs, file, rec>>
    BY <1>4 DEF ReadDir, Busy
  <2>1. cli' = [cli EXCEPT ![p].pc = "read", ![p].todo = dirs]
    BY <1>4 DEF ReadDir
  <2>2. \A q \in Procs \ {p} : cli'[q] = IdleCLI
    BY <1>0, <1>a, <2>0, <2>1
  <2>3. /\ cli'[p].pc = "read" /\ cli'[p].todo = dirs
        /\ cli'[p].job = cli[p].job /\ cli'[p].seen = cli[p].seen
    BY <1>0, <2>1 DEF CLI
  <2>4. SeenIsCurrent(cli[p]) /\ AddSeesAll(cli[p]) /\ \A n \in Names : file[n] = "ok" => n \in dirs
    BY DEF SerialInv, SerialProc, WellFormed
  <2>5. SerialProc(cli[p])'
    BY <2>0, <2>3, <2>4 DEF SerialProc, OwnsIndex, HasOpened, SeenIsCurrent, AddSeesAll, Listing
  <2> QED BY <1>b, <2>0, <2>2, <2>5
<1>5. ASSUME NEW p \in Procs, ReadOne(p) PROVE SerialInv'
  <2>0. Busy(p) /\ cli[p].pc = "read" /\ UNCHANGED <<dirs, file, rec>>
    BY <1>5 DEF ReadOne, Busy
  <2>1. CASE Exit(p)
    BY <1>c, <2>0, <2>1
  <2>2. CASE ~Exit(p)
    <3>1. PICK n \in cli[p].todo :
             cli' = [cli EXCEPT ![p].todo = @ \ {n},
                                ![p].seen = IF file[n] = "absent" THEN @ ELSE @ \cup {rec[n]}]
      BY <1>5, <2>2 DEF ReadOne
    <3>2. n \in Names
      BY <1>0 DEF CLI
    <3>3. \A q \in Procs \ {p} : cli'[q] = IdleCLI
      BY <1>0, <1>a, <2>0, <3>1
    <3>4. /\ cli'[p].pc = "read" /\ cli'[p].job = cli[p].job /\ cli'[p].todo = cli[p].todo \ {n}
          /\ cli'[p].seen = IF file[n] = "absent" THEN cli[p].seen ELSE cli[p].seen \cup {rec[n]}
      BY <1>0, <2>0, <3>1 DEF CLI
    <3>5. SeenIsCurrent(cli[p]) /\ AddSeesAll(cli[p])
      BY DEF SerialInv, SerialProc
    <3>6. rec[n].name \in Names => file[n] = "ok" /\ rec[n].name = n
      BY <1>0, <3>2 DEF SerialInv, WellFormed, Zero
    <3>7. SeenIsCurrent(cli[p])'
      BY <2>0, <3>4, <3>5, <3>6 DEF SeenIsCurrent, Listing
    <3>8. AddSeesAll(cli[p])'
      BY <2>0, <3>4, <3>5 DEF AddSeesAll
    <3>9. SerialProc(cli[p])'
      BY <3>4, <3>7, <3>8 DEF SerialProc, OwnsIndex, HasOpened
    <3> QED BY <1>b, <2>0, <3>3, <3>9
  <2> QED BY <2>1, <2>2
<1>6. ASSUME NEW p \in Procs, AddChoose(p) PROVE SerialInv'
  <2>0. /\ Busy(p) /\ cli[p].pc = "read" /\ cli[p].todo = {} /\ cli[p].job.cmd = "add"
        /\ UNCHANGED <<dirs, file, rec>>
    BY <1>6 DEF AddChoose, Busy
  <2> DEFINE i == NewInstance(cli[p].job, cli[p].seen)
  <2>1. i.name = cli[p].job.name /\ \A r \in cli[p].seen : i.index # r.index
    <3>1. cli[p].job \in Job /\ cli[p].seen \in SUBSET Record /\ IsFiniteSet(cli[p].seen)
      BY <1>0, <2>0 DEF CLI, TypeInv, CliInv
    <3> QED BY <2>0, <3>1, NewInstanceFresh
  <2>2. cli' = [cli EXCEPT ![p].pc = "open", ![p].back = "idle", ![p].inst = i]
    BY <1>6 DEF AddChoose
  <2> HIDE DEF i
  <2>3. \A q \in Procs \ {p} : cli'[q] = IdleCLI
    BY <1>0, <1>a, <2>0, <2>2
  <2>4. /\ cli'[p].pc = "open" /\ cli'[p].back = "idle" /\ cli'[p].inst = i
        /\ cli'[p].job = cli[p].job
    BY <1>0, <2>2 DEF CLI
  <2>5. OwnsIndex(cli[p])'
    <3>1. \A m \in Names : file[m] = "ok" => rec[m] \in cli[p].seen
      BY <2>0 DEF SerialInv, SerialProc, AddSeesAll
    <3> QED BY <2>0, <2>1, <2>4, <3>1 DEF OwnsIndex
  <2>6. SerialProc(cli[p])'
    BY <2>4, <2>5 DEF SerialProc, HasOpened, SeenIsCurrent, AddSeesAll, Listing
  <2> QED BY <1>b, <2>0, <2>3, <2>6
<1>7. ASSUME NEW p \in Procs, ListMigrate(p) PROVE SerialInv'
  <2>0. /\ Busy(p) /\ cli[p].pc = "read" /\ cli[p].job.cmd = "list"
        /\ UNCHANGED <<dirs, file, rec>>
    BY <1>7 DEF ListMigrate, Busy
  <2>1. PICK r \in cli[p].seen :
           cli' = [cli EXCEPT ![p].pc = "open", ![p].back = "read",
                              ![p].inst = Normalize(r), ![p].seen = @ \ {r}]
    BY <1>7 DEF ListMigrate
  <2>2. Normalize(r).name = r.name /\ Normalize(r).index = r.index
    BY <1>0, NormalizeKeeps DEF CLI
  <2>3. \A q \in Procs \ {p} : cli'[q] = IdleCLI
    BY <1>0, <1>a, <2>0, <2>1
  <2>4. /\ cli'[p].pc = "open" /\ cli'[p].back = "read" /\ cli'[p].job = cli[p].job
        /\ cli'[p].inst = Normalize(r) /\ cli'[p].seen = cli[p].seen \ {r}
    BY <1>0, <2>1 DEF CLI
  <2>5. \A s \in cli[p].seen : s.name \in Names => file[s.name] = "ok" /\ rec[s.name] = s
    BY <2>0 DEF SerialInv, SerialProc, SeenIsCurrent, Listing
  <2>6. OwnsIndex(cli[p])'
    BY <2>0, <2>2, <2>4, <2>5 DEF OwnsIndex, SerialInv, WellFormed, IndexUnique
  <2>7. SeenIsCurrent(cli[p])'
    BY <2>0, <2>2, <2>4, <2>5 DEF SeenIsCurrent
  <2>8. SerialProc(cli[p])'
    BY <2>0, <2>4, <2>6, <2>7 DEF SerialProc, HasOpened, AddSeesAll
  <2> QED BY <1>b, <2>0, <2>3, <2>8
<1>8. ASSUME NEW p \in Procs, ListDone(p) PROVE SerialInv'
  BY <1>8, <1>c DEF ListDone, Busy
<1>9. ASSUME NEW p \in Procs, Load(p) PROVE SerialInv'
  <2>0. Busy(p) /\ cli[p].pc = "load" /\ UNCHANGED <<dirs, file, rec>>
    BY <1>9 DEF Load, Busy
  <2>1. CASE Exit(p)
    BY <1>c, <2>0, <2>1
  <2>2. CASE ~Exit(p)
    <3> DEFINE n == cli[p].job.name
               i == Normalize(rec[n])
               l == IF i # rec[n] THEN "open" ELSE "act"
    <3>1. cli' = [cli EXCEPT ![p].inst = i, ![p].back = "act", ![p].pc = l]
      BY <1>9, <2>2 DEF Load
    <3>2. n \in Names /\ rec[n] \in Record
      BY <1>0, <2>0 DEF Job
    <3>3. i.name = rec[n].name /\ i.index = rec[n].index /\ l \in {"open", "act"}
      BY <3>2, NormalizeKeeps
    <3>4. rec[n].name \in Names => file[n] = "ok" /\ rec[n].name = n
      BY <1>0, <3>2 DEF SerialInv, WellFormed, Zero
    <3> HIDE DEF n, i, l
    <3>5. \A q \in Procs \ {p} : cli'[q] = IdleCLI
      BY <1>0, <1>a, <2>0, <3>1
    <3>6. cli'[p].pc = l /\ cli'[p].back = "act" /\ cli'[p].inst = i
      BY <1>0, <3>1 DEF CLI
    <3>7. OwnsIndex(cli[p])'
      BY <2>0, <3>2, <3>3, <3>4, <3>6 DEF OwnsIndex, SerialInv, WellFormed, IndexUnique
    <3>8. SerialProc(cli[p])'
      BY <3>3, <3>6, <3>7 DEF SerialProc, HasOpened, SeenIsCurrent, AddSeesAll, Listing
    <3> QED BY <1>b, <2>0, <3>5, <3>8
  <2> QED BY <2>1, <2>2
<1>d. ASSUME NEW p \in Procs, cli[p].pc = "act", NEW i \in Record,
             i.name = cli[p].inst.name, i.index = cli[p].inst.index,
             UNCHANGED <<dirs, file, rec>>,
             cli' = [cli EXCEPT ![p].inst = i, ![p].pc = "open", ![p].back = "idle"]
      PROVE  SerialInv'
  <2>1. \A q \in Procs \ {p} : cli'[q] = IdleCLI
    BY <1>0, <1>a, <1>d DEF Busy
  <2>2. cli'[p].pc = "open" /\ cli'[p].back = "idle" /\ cli'[p].inst = i
    BY <1>0, <1>d DEF CLI
  <2>3. OwnsIndex(cli[p])'
    BY <1>d, <2>2 DEF OwnsIndex, SerialInv, SerialProc
  <2>4. SerialProc(cli[p])'
    BY <2>2, <2>3 DEF SerialProc, HasOpened, SeenIsCurrent, AddSeesAll, Listing
  <2> QED BY <1>b, <1>d, <2>1, <2>4
<1>10. ASSUME NEW p \in Procs, ActSet(p) PROVE SerialInv'
  <2> DEFINE i == Changed(cli[p].inst, cli[p].job)
  <2>1. i \in Record /\ i.name = cli[p].inst.name /\ i.index = cli[p].inst.index
    BY <1>0, ChangedKeeps DEF CLI
  <2>2. /\ cli[p].pc = "act" /\ UNCHANGED <<dirs, file, rec>>
        /\ cli' = [cli EXCEPT ![p].inst = i, ![p].pc = "open", ![p].back = "idle"]
    BY <1>10 DEF ActSet
  <2> HIDE DEF i
  <2> QED BY <1>d, <2>1, <2>2
<1>11. ASSUME NEW p \in Procs, ActMark(p) PROVE SerialInv'
  <2>1. CASE Exit(p)
    BY <1>c, <1>11, <2>1 DEF ActMark, Busy
  <2>2. CASE ~Exit(p)
    <3> DEFINE i == [cli[p].inst EXCEPT !.loggedIn = TRUE]
    <3>1. i \in Record /\ i.name = cli[p].inst.name /\ i.index = cli[p].inst.index
      <4>1. cli[p].inst \in Record
        BY <1>0 DEF CLI
      <4> QED BY <4>1 DEF Record
    <3>2. /\ cli[p].pc = "act" /\ UNCHANGED <<dirs, file, rec>>
          /\ cli' = [cli EXCEPT ![p].inst = i, ![p].pc = "open", ![p].back = "idle"]
      BY <1>11, <2>2 DEF ActMark
    <3> HIDE DEF i
    <3> QED BY <1>d, <3>1, <3>2
  <2> QED BY <2>1, <2>2
<1>e. ASSUME NEW p \in Procs, Busy(p), NEW gone, Unlink(gone, p),
             \A n \in Names : file'[n] = IF n \in gone THEN "absent" ELSE file[n],
             \A n \in Names : rec'[n] = IF n \in gone THEN Zero ELSE rec[n],
             \A n \in Names : n \in dirs /\ n \notin gone => n \in dirs'
      PROVE  SerialInv'
  <2>1. \A q \in Procs : cli'[q] = IdleCLI
    <3>1. ASSUME NEW q \in Procs \ {p} PROVE cli'[q] = IdleCLI
      <4>1. cli[q] = IdleCLI
        BY <1>a, <1>e
      <4>2. cli'[q] = [IdleCLI EXCEPT !.linked = IdleCLI.linked /\ IdleCLI.inst.name \notin gone]
        BY <1>e, <4>1 DEF Unlink
      <4>3. (IdleCLI.linked /\ IdleCLI.inst.name \notin gone) = FALSE
        BY Zenon DEF IdleCLI
      <4>4. [IdleCLI EXCEPT !.linked = FALSE] = IdleCLI
        <5>1. \A c \in CLI : c.linked = FALSE => [c EXCEPT !.linked = FALSE] = c
          BY DEF CLI
        <5>2. IdleCLI.linked = FALSE
          BY DEF IdleCLI
        <5> QED BY <5>1, <5>2, ZeroIdleTypes
      <4> QED BY <4>2, <4>3, <4>4
    <3> QED BY <1>e, <3>1 DEF Unlink
  <2>2. WellFormed(dirs, file, rec)' /\ \A n \in Names : file'[n] # "corrupt"
    BY <1>e DEF SerialInv, WellFormed, IndexUnique
  <2> QED BY <2>1, <2>2, IdleSerialProc, OneProcess
<1>13. ASSUME NEW p \in Procs, ActRemove(p) PROVE SerialInv'
  BY <1>e, <1>13 DEF ActRemove, Busy
<1>14. ASSUME NEW p \in Procs, ActPurge(p) PROVE SerialInv'
  BY <1>e, <1>14 DEF ActPurge, Busy
<1>15. ASSUME NEW p \in Procs, SaveOpen(p) PROVE SerialInv'
  <2>0. Busy(p) /\ cli[p].pc = "open" /\ cli' = [cli EXCEPT ![p].pc = "write", ![p].linked = TRUE]
    BY <1>15 DEF SaveOpen, Busy
  <2> DEFINE n == cli[p].inst.name
  <2>1. /\ \A m \in Names : file'[m] = IF m = n THEN "empty" ELSE file[m]
        /\ \A m \in Names : rec'[m] = IF m = n THEN Zero ELSE rec[m]
        /\ dirs' = dirs \cup ({n} \cap Names)
    BY <1>15 DEF SaveOpen
  <2>2. \A q \in Procs \ {p} : cli'[q] = IdleCLI
    BY <1>0, <1>a, <2>0
  <2>3. /\ cli'[p].pc = "write" /\ cli'[p].linked /\ cli'[p].inst = cli[p].inst
        /\ cli'[p].back = cli[p].back /\ cli'[p].seen = cli[p].seen /\ cli'[p].job = cli[p].job
    BY <1>0, <2>0 DEF CLI
  <2>4. WellFormed(dirs, file, rec)' /\ \A m \in Names : file'[m] # "corrupt"
    BY <2>1 DEF SerialInv, WellFormed, IndexUnique
  <2>5. OwnsIndex(cli[p]) /\ SeenIsCurrent(cli[p]) /\ AddSeesAll(cli[p])
    BY DEF SerialInv, SerialProc
  <2>6. OwnsIndex(cli[p])' /\ HasOpened(cli[p])'
    <3>1. OwnsIndex(cli[p])'
      BY <2>0, <2>1, <2>3, <2>5 DEF OwnsIndex
    <3>2. HasOpened(cli[p])'
      BY <2>1, <2>3, Zenon DEF HasOpened
    <3> QED BY <3>1, <3>2
  <2>7. SeenIsCurrent(cli[p])'
    BY <2>0, <2>1, <2>3, <2>5 DEF SeenIsCurrent, Listing
  <2>8. SerialProc(cli[p])'
    BY <2>0, <2>3, <2>5, <2>6, <2>7 DEF SerialProc, AddSeesAll
  <2> QED BY <2>2, <2>4, <2>8, OneProcess
<1>16. ASSUME NEW p \in Procs, SaveWrite(p) PROVE SerialInv'
  <2>0. Busy(p) /\ cli[p].pc = "write" /\ UNCHANGED dirs /\ SaveReturn(p)
    BY <1>16 DEF SaveWrite, Busy
  <2> DEFINE i == cli[p].inst
             n == i.name
  <2>1. HasOpened(cli[p]) /\ OwnsIndex(cli[p]) /\ SeenIsCurrent(cli[p]) /\ AddSeesAll(cli[p])
    BY DEF SerialInv, SerialProc
  <2>2. /\ \A m \in Names : file'[m] = IF m = n THEN "ok" ELSE file[m]
        /\ \A m \in Names : rec'[m] = IF m = n THEN i ELSE rec[m]
    <3>1. CASE n \notin Names
      BY <1>16, <3>1 DEF SaveWrite
    <3>2. CASE n \in Names
      <4>1. cli[p].linked /\ file[n] = "empty"
        BY <2>0, <2>1, <3>2 DEF HasOpened
      <4>2. file' = [file EXCEPT ![n] = "ok"] /\ rec' = [rec EXCEPT ![n] = i]
        BY <1>16, <3>2, <4>1 DEF SaveWrite
      <4> QED BY <1>0, <4>2
    <3> QED BY <3>1, <3>2
  <2>3. WellFormed(dirs, file, rec)' /\ \A m \in Names : file'[m] # "corrupt"
    <3>1. n \in Names => file[n] = "empty" /\ n \in dirs
      BY <2>0, <2>1 DEF HasOpened, SerialInv, WellFormed
    <3>2. IndexUnique(file', rec')
      BY <2>0, <2>1, <2>2 DEF OwnsIndex, SerialInv, WellFormed, IndexUnique
    <3> QED BY <2>0, <2>2, <3>1, <3>2 DEF SerialInv, WellFormed
  <2>4. CASE Exit(p)
    <3>1. \A q \in Procs : cli'[q] = IdleCLI
      BY <1>0, <1>a, <2>0, <2>4 DEF Exit
    <3> QED BY <2>3, <3>1, IdleSerialProc, OneProcess
  <2>5. CASE ~Exit(p)
    <3>1. cli[p].back # "idle" /\ cli' = [cli EXCEPT ![p].pc = cli[p].back, ![p].linked = FALSE]
      BY <2>0, <2>5 DEF SaveReturn
    <3>2. \A q \in Procs \ {p} : cli'[q] = IdleCLI
      BY <1>0, <1>a, <2>0, <3>1
    <3>3. /\ cli'[p].pc = cli[p].back /\ cli'[p].pc \in {"act", "read"}
          /\ cli'[p].inst = cli[p].inst /\ cli'[p].seen = cli[p].seen /\ cli'[p].job = cli[p].job
      BY <1>0, <3>1 DEF CLI
    <3>4. OwnsIndex(cli[p])' /\ HasOpened(cli[p])'
      BY <2>0, <2>1, <2>2, <3>3 DEF OwnsIndex, HasOpened
    <3>5. SeenIsCurrent(cli[p])'
      BY <2>0, <2>1, <2>2, <3>3 DEF SeenIsCurrent, Listing
    <3>6. AddSeesAll(cli[p])'
      BY <2>0, <2>1, <3>3 DEF AddSeesAll
    <3>7. SerialProc(cli[p])'
      BY <3>3, <3>4, <3>5, <3>6 DEF SerialProc
    <3> QED BY <2>3, <3>2, <3>7, OneProcess
  <2> QED BY <2>4, <2>5
<1>17. ASSUME NEW p \in Procs, Crash(p) PROVE SerialInv'
  BY <1>c, <1>17 DEF Crash
<1> QED BY <1>1, <1>2, <1>3, <1>4, <1>5, <1>6, <1>7, <1>8, <1>9, <1>10, <1>11, <1>13, <1>14,
           <1>15, <1>16, <1>17 DEF Next, Step

\* One command at a time, killed anywhere or failing anywhere: the store keeps
\* its inductive invariant ...
THEOREM SerialStore == ASSUME Serial PROVE Spec => []SerialInv
<1>1. TypeInv /\ SerialInv /\ [Next]_vars => SerialInv'
  BY SerialStep
<1> QED BY <1>1, TypeInit, TypeStep, SerialInit, PTL DEF Spec

\* ... so no two instances ever have the same index ...
THEOREM Unique == ASSUME Serial PROVE Spec => []UniqueIndex
<1>1. SerialInv => UniqueIndex
  BY DEF SerialInv, WellFormed, UniqueIndex
<1> QED BY <1>1, SerialStore, PTL

\* ... and no two instances without an override the same WireGuard port.
THEOREM PortsDistinct == ASSUME Serial PROVE Spec => []DerivedPortsDistinct
<1>1. ASSUME TypeOK, UniqueIndex PROVE DerivedPortsDistinct
  <2> SUFFICES ASSUME NEW m \in Names, NEW n \in Names, m # n, file[m] = "ok", file[n] = "ok",
                      rec[m].port = 0, rec[n].port = 0
               PROVE  WGPort(rec[m]) # WGPort(rec[n])
    BY DEF DerivedPortsDistinct, Collide, Decodes
  <2>1. rec[m] \in Record /\ rec[n] \in Record
    BY <1>1 DEF TypeOK
  <2>2. rec[m].index \in Nat /\ rec[n].index \in Nat
    BY <2>1 DEF Record
  <2>3. rec[m].index # rec[n].index
    BY <1>1 DEF UniqueIndex, IndexUnique
  <2>4. WGPort(rec[m]) = BasePort + rec[m].index /\ WGPort(rec[n]) = BasePort + rec[n].index
    BY DEF WGPort
  <2>5. BasePort \in Nat
    BY ParamsAssumption
  <2> QED BY <2>2, <2>3, <2>4, <2>5
<1> QED BY <1>1, Types, Unique, PTL

\* Whatever runs at once and whatever is killed: a file that parses is the one
\* of the instance its directory is named after.
THEOREM NamesMatch == Spec => []NameMatchesDir
<1>1. Init => NameMatchesDir
  BY SeedsAssumption DEF Init, NameMatchesDir, WellFormed
<1>2. TypeInv /\ NameMatchesDir /\ [Next]_vars => NameMatchesDir'
  <2> SUFFICES ASSUME TypeInv, NameMatchesDir, [Next]_vars PROVE NameMatchesDir'
    OBVIOUS
  <2> USE DEF NameMatchesDir
  <2>1. file \in [Names -> {"absent", "empty", "corrupt", "ok"}] /\ rec \in [Names -> Record]
    BY DEF TypeInv, TypeOK
  <2>2. CASE UNCHANGED <<dirs, file, rec>>
    BY <2>2
  <2>3. ASSUME NEW p \in Procs, ActRemove(p) \/ ActPurge(p) \/ SaveOpen(p) PROVE NameMatchesDir'
    BY <2>3 DEF ActRemove, ActPurge, SaveOpen
  <2>4. ASSUME NEW p \in Procs, SaveWrite(p) PROVE NameMatchesDir'
    <3> DEFINE i == cli[p].inst
    <3>1. CASE UNCHANGED <<file, rec>>
      BY <3>1
    <3>2. CASE ~UNCHANGED <<file, rec>>
      <4>1. i.name \in Names
        BY <2>4, <3>2 DEF SaveWrite
      <4>2. PICK g \in BOOLEAN :
               /\ file' = [file EXCEPT ![i.name] = IF g THEN "corrupt" ELSE "ok"]
               /\ rec' = [rec EXCEPT ![i.name] = IF g THEN Zero ELSE i]
        BY <2>4, <3>2 DEF SaveWrite
      <4> QED BY <2>1, <4>1, <4>2
    <3> QED BY <3>1, <3>2
  <2> QED BY <2>2, <2>3, <2>4 DEF Next, Step, vars, Begin, AddExists, ReadDir, ReadOne, AddChoose,
          ListMigrate, ListDone, Load, ActSet, ActMark, Crash
<1> QED BY <1>1, <1>2, TypeInit, TypeStep, PTL DEF Spec

-----------------------------------------------------------------------------
(* The store is a registry, as long as no command is killed.               *)

\* What the refinement mapping shows of a record, and of the store.
View(i) == LET j == Normalize(i)
           IN [index |-> j.index, port |-> j.port, mode |-> j.mode, loggedIn |-> j.loggedIn]
Reg == [n \in Names |-> IF mayCrash \/ file[n] = "absent" THEN NotRegistered ELSE Visible(n)]
OnDisk(n) == IF file[n] = "absent" THEN NotRegistered ELSE View(rec[n])

\* The lowest index that no file uses.
Lowest(k) == /\ k \in 0..Cardinality(Names)
             /\ \A m \in Names : file[m] = "ok" => rec[m].index # k
             /\ \A j \in 0..(k - 1) : \E m \in Names : file[m] = "ok" /\ rec[m].index = j

\* What a command is about to write is a new instance with the lowest index, or
\* the one in the file with other settings, or with its login.
Proper(i) ==
    LET n == i.name
    IN \/ file[n] = "absent" /\ Lowest(i.index) /\ i.loggedIn = FALSE
       \/ /\ file[n] = "ok" /\ i.index = rec[n].index
          /\ \/ i.loggedIn = rec[n].loggedIn
             \/ i = [Normalize(rec[n]) EXCEPT !.loggedIn = TRUE]

\* No command ever has the zero Instance in hand: the instances it has listed or
\* loaded are those of files.
RegProc(c) ==
    /\ Listing(c) => \A r \in c.seen : r.name \in Names
    /\ c.pc = "act" => /\ c.inst.name \in Names /\ file[c.inst.name] = "ok"
                       /\ c.inst = Normalize(rec[c.inst.name])
    /\ c.pc \in {"open", "write"} => c.inst.name \in Names /\ c.inst.mode \in Modes
    /\ c.pc = "open" => Proper(c.inst)

\* Only the file that is being written is empty.
NoTorn == \A n \in Names : file[n] = "empty" =>
             \E p \in Procs : cli[p].pc = "write" /\ cli[p].inst.name = n
RegInv == NoTorn /\ \A p \in Procs : RegProc(cli[p])
StoreInv == ~mayCrash /\ TypeInv /\ SerialInv /\ RegInv

\* Between writes the registry is what is on disk, during a write the instance written is
\* in it already.
Viewed ==
    /\ (\A q \in Procs : cli[q].pc # "write") => Reg = [n \in Names |-> OnDisk(n)]
    /\ \A p \in Procs : cli[p].pc = "write" =>
          Reg = [n \in Names |-> IF n = cli[p].inst.name THEN View(cli[p].inst) ELSE OnDisk(n)]

LEMMA Views == StoreInv => Viewed
<1> SUFFICES ASSUME StoreInv PROVE Viewed
  OBVIOUS
<1>1. ASSUME NEW n \in Names PROVE Visible(n) = View(Contents(n))
  BY DEF Visible, View
<1>2. ASSUME \A q \in Procs : cli[q].pc # "write" PROVE Reg = [n \in Names |-> OnDisk(n)]
  <2>1. ASSUME NEW n \in Names PROVE Contents(n) = rec[n]
    BY <1>2 DEF Contents, Writing
  <2> QED BY <1>1, <2>1 DEF Reg, OnDisk, StoreInv
<1>3. ASSUME NEW p \in Procs, cli[p].pc = "write"
      PROVE  Reg = [n \in Names |-> IF n = cli[p].inst.name THEN View(cli[p].inst) ELSE OnDisk(n)]
  <2>1. \A q \in Procs : cli[q].pc = "write" => q = p
    BY <1>3 DEF StoreInv, SerialInv, Busy
  <2>2. ASSUME NEW n \in Names
        PROVE  Contents(n) = IF n = cli[p].inst.name THEN cli[p].inst ELSE rec[n]
    <3>1. Writing(n) = IF n = cli[p].inst.name THEN {p} ELSE {}
      BY <1>3, <2>1 DEF Writing
    <3> QED BY <3>1 DEF Contents
  <2>3. cli[p].inst.name \in Names => file[cli[p].inst.name] # "absent"
    BY <1>3 DEF StoreInv, SerialInv, SerialProc, HasOpened
  <2> QED BY <1>1, <2>2, <2>3 DEF Reg, OnDisk, StoreInv
<1> QED BY <1>2, <1>3 DEF Viewed

LEMMA ViewsNext == StoreInv' => Viewed'
BY Views, PTL

LEMMA ViewIs ==
    ASSUME NEW r \in Record
    PROVE  /\ View(r) = [index |-> r.index, port |-> r.port, mode |-> Normalize(r).mode,
                         loggedIn |-> r.loggedIn]
           /\ View(r).index = r.index /\ View(r).port = r.port
           /\ View(r).mode = Normalize(r).mode /\ View(r).loggedIn = r.loggedIn
           /\ r.mode \in Modes => Normalize(r) = r
           /\ View(r).index \in Nat /\ View(r) # NotRegistered
           /\ Normalize(r).mode \in Modes
           /\ View(Normalize(r)) = View(r) /\ Normalize(Normalize(r)) = Normalize(r)
           /\ Normalize(r).loggedIn = r.loggedIn /\ Normalize(r).port = r.port
<1>1. r.index \in Nat /\ r.mode \in Modes \cup {"unset"}
  BY DEF Record
<1>2. /\ Normalize(r).index = r.index /\ Normalize(r).port = r.port
      /\ Normalize(r).loggedIn = r.loggedIn /\ Normalize(r).mode \in Modes
      /\ Normalize(r).mode # "unset"
  BY DEF Record, Normalize, Modes
<1>3. Normalize(Normalize(r)) = Normalize(r) /\ (r.mode \in Modes => Normalize(r) = r)
  BY <1>2 DEF Normalize, Modes
<1>4. View(r) = [index |-> r.index, port |-> r.port, mode |-> Normalize(r).mode,
                 loggedIn |-> r.loggedIn]
  BY <1>2 DEF View
<1>5. View(r).index = r.index /\ View(r).port = r.port /\ View(r).mode = Normalize(r).mode
      /\ View(r).loggedIn = r.loggedIn
  BY <1>4
<1>6. NotRegistered.index = -1
  BY DEF NotRegistered
<1>7. View(Normalize(r)) = View(r)
  BY <1>3 DEF View
<1>8. View(r) # NotRegistered
  BY <1>1, <1>5, <1>6
<1> QED BY <1>1, <1>2, <1>3, <1>4, <1>5, <1>7, <1>8

LEMMA AbstractInit == Init /\ StoreInv => Abstract!Init
<1> SUFFICES ASSUME Init, StoreInv PROVE Abstract!Init
  OBVIOUS
<1>1. \A q \in Procs : cli[q].pc # "write"
  BY DEF Init, IdleCLI
<1>2. Reg = [n \in Names |-> OnDisk(n)]
  BY <1>1, Views DEF Viewed
<1>3. ASSUME NEW m \in Names, NEW n \in Names, Reg[m] # NotRegistered, Reg[n] # NotRegistered,
             Reg[m].index = Reg[n].index
      PROVE  m = n
  <2>1. file[m] = "ok" /\ file[n] = "ok" /\ Reg[m] = View(rec[m]) /\ Reg[n] = View(rec[n])
    BY <1>2, <1>3, SeedsAssumption DEF Init, OnDisk
  <2>2. rec[m] \in Record /\ rec[n] \in Record
    BY DEF StoreInv, TypeInv, TypeOK
  <2>3. rec[m].index = rec[n].index
    BY <1>3, <2>1, <2>2, ViewIs
  <2> QED BY <2>1, <2>3 DEF StoreInv, SerialInv, WellFormed, IndexUnique
<1> QED BY <1>3 DEF Abstract!Init, Abstract!Registered, Reg

-----------------------------------------------------------------------------
(* RegInv.                                                                 *)

LEMMA IdleReg == RegProc(IdleCLI) /\ RegProc(IdleCLI)'
BY DEF RegProc, Listing, IdleCLI

LEMMA RegInit == Init => RegInv
<1> SUFFICES ASSUME Init PROVE RegInv
  OBVIOUS
<1>1. NoTorn
  BY SeedsAssumption DEF Init, NoTorn
<1>2. \A p \in Procs : cli[p] = IdleCLI
  BY DEF Init
<1> QED BY <1>1, <1>2, IdleReg DEF RegInv

\* When no command is at a write, every file is whole or absent.
LEMMA Whole ==
    ASSUME SerialInv, RegInv, TypeOK, \A q \in Procs : cli[q].pc # "write", NEW n \in Names
    PROVE  /\ file[n] \in {"absent", "ok"} /\ rec[n] \in Record
           /\ file[n] = "ok" => rec[n].name = n
BY DEF SerialInv, RegInv, NoTorn, TypeOK, WellFormed

\* `add` has seen every index that is used and no other: it takes the lowest.
LEMMA ChoosesLowest ==
    ASSUME TypeInv, SerialInv, RegInv, NEW p \in Procs, cli[p].pc = "read", cli[p].todo = {},
           cli[p].job.cmd = "add"
    PROVE  Lowest(NextIndex({r.index : r \in cli[p].seen}))
<1> DEFINE S == cli[p].seen
           used == {r.index : r \in S}
           k == NextIndex(used)
<1>1. S \in SUBSET Record /\ IsFiniteSet(S)
  BY DEF TypeInv, CliInv, CLI
<1>2. used \in SUBSET Nat /\ IsFiniteSet(used)
  BY <1>1, IndexesFinite
<1>3. ASSUME NEW m \in Names, file[m] = "ok" PROVE rec[m].index \in used
  BY <1>3 DEF SerialInv, SerialProc, AddSeesAll
<1>4. ASSUME NEW j \in used PROVE \E m \in Names : file[m] = "ok" /\ rec[m].index = j
  <2>1. PICK r \in S : r.index = j
    OBVIOUS
  <2>2. r.name \in Names
    BY DEF RegInv, RegProc, Listing
  <2>3. file[r.name] = "ok" /\ rec[r.name] = r
    BY <2>2 DEF SerialInv, SerialProc, SeenIsCurrent, Listing
  <2> QED BY <2>1, <2>2, <2>3
<1>5. Cardinality(used) \in Nat /\ Cardinality(Names) \in Nat /\ Cardinality(used) <= Cardinality(Names)
  <2> DEFINE F == {m \in Names : file[m] = "ok"}
             f == [m \in F |-> rec[m].index]
  <2>1. IsFiniteSet(F) /\ Cardinality(F) <= Cardinality(Names)
    BY NamesAssumption, FS_Subset
  <2>2. f \in Surjection(F, used)
    BY <1>3, <1>4 DEF Surjection
  <2>3. Cardinality(used) <= Cardinality(F)
    BY <2>1, <2>2, FS_Surjection DEF ExistsSurjection
  <2>4. Cardinality(used) \in Nat /\ Cardinality(F) \in Nat /\ Cardinality(Names) \in Nat
    BY <1>2, <2>1, NamesAssumption, FS_CardinalityType
  <2> QED BY <2>1, <2>3, <2>4
<1> HIDE DEF used
<1>6. /\ k \in 0..Cardinality(used) /\ k \notin used /\ \A m \in 0..(k - 1) : m \in used
  BY <1>2, NextIndexLowest
<1>7. k \in 0..Cardinality(Names)
  BY <1>5, <1>6
<1>8. \A m \in Names : file[m] = "ok" => rec[m].index # k
  BY <1>3, <1>6
<1>9. \A j \in 0..(k - 1) : \E m \in Names : file[m] = "ok" /\ rec[m].index = j
  BY <1>4, <1>6
<1>10. Lowest(k)
  BY <1>7, <1>8, <1>9 DEF Lowest
<1> QED BY <1>10 DEF used

\* After a step of p that writes no file only p needs attention.
LEMMA QuietReg ==
    ASSUME TypeInv, SerialInv, RegInv, NEW p \in Procs, cli[p].pc # "write",
           \A q \in Procs \ {p} : cli[q] = IdleCLI /\ cli'[q] = IdleCLI,
           UNCHANGED <<file, rec>>, RegProc(cli[p])'
    PROVE  RegInv'
<1>1. \A q \in Procs : cli[q].pc # "write"
  BY DEF IdleCLI
<1>2. NoTorn'
  BY <1>1 DEF RegInv, NoTorn
<1>3. \A q \in Procs : RegProc(cli[q])'
  BY IdleReg DEF RegProc, Listing, IdleCLI
<1> QED BY <1>2, <1>3 DEF RegInv

\* The one writer completes the file it has truncated.
LEMMA WriteIs ==
    ASSUME TypeInv, SerialInv, NEW p \in Procs, SaveWrite(p), cli[p].inst.name \in Names
    PROVE  /\ file' = [file EXCEPT ![cli[p].inst.name] = "ok"]
           /\ rec' = [rec EXCEPT ![cli[p].inst.name] = cli[p].inst]
<1>1. cli[p].linked /\ file[cli[p].inst.name] = "empty"
  BY DEF SaveWrite, SerialInv, SerialProc, HasOpened
<1> QED BY <1>1 DEF SaveWrite

LEMMA RegStep ==
    ASSUME Serial, ~mayCrash, TypeInv, SerialInv, RegInv, [Next]_vars
    PROVE  RegInv'
<1>0. /\ rec \in [Names -> Record] /\ TypeOK
      /\ file \in [Names -> {"absent", "empty", "corrupt", "ok"}]
      /\ cli \in [Procs -> CLI]
      /\ \A p \in Procs : Busy(p) => cli[p].job \in Job
      /\ NoName \notin Names
  BY NamesAssumption DEF TypeInv, TypeOK, CliInv
<1>1. CASE UNCHANGED vars
  BY <1>1 DEF vars, RegInv, NoTorn, RegProc, Proper, Lowest, Listing
<1>a. ASSUME NEW p \in Procs, Busy(p) PROVE \A q \in Procs \ {p} : cli[q] = IdleCLI
  BY <1>a, OthersIdle
<1>b. ASSUME NEW p \in Procs, Busy(p), cli[p].pc # "write", UNCHANGED <<file, rec>>,
             \A q \in Procs \ {p} : cli'[q] = cli[q], RegProc(cli[p])'
      PROVE  RegInv'
  BY <1>a, <1>b, QuietReg
<1>c. ASSUME NEW p \in Procs, Busy(p), cli[p].pc # "write", Exit(p), UNCHANGED <<file, rec>>
      PROVE  RegInv'
  <2>1. cli'[p] = IdleCLI /\ \A q \in Procs \ {p} : cli'[q] = cli[q]
    BY <1>0, <1>c DEF Exit
  <2>2. RegProc(cli[p])'
    BY <2>1 DEF RegProc, Listing, IdleCLI
  <2> QED BY <1>b, <1>c, <2>1, <2>2
<1>d. ASSUME NEW p \in Procs, Busy(p), cli[p].pc # "write", NEW n \in Names
      PROVE  /\ file[n] \in {"absent", "ok"} /\ rec[n] \in Record
             /\ file[n] = "ok" => rec[n].name = n
  <2>1. \A q \in Procs : cli[q].pc # "write"
    BY <1>a, <1>d DEF IdleCLI
  <2> QED BY <1>0, <2>1, Whole
<1>2. ASSUME NEW p \in Procs, NEW j \in Jobs, Begin(p, j) PROVE RegInv'
  <2>1. \A q \in Procs : cli[q] = IdleCLI
    BY <1>2, OthersIdle DEF Begin, SerialInv, SerialProc, Busy
  <2> DEFINE l == CASE j.cmd = "add" -> "exists" [] j.cmd = "list" -> "readdir" [] OTHER -> "load"
  <2>2. cli' = [cli EXCEPT ![p].job = j, ![p].pc = l] /\ l \in {"exists", "readdir", "load"}
        /\ UNCHANGED <<file, rec>>
    BY <1>2 DEF Begin
  <2> HIDE DEF l
  <2>3. \A q \in Procs \ {p} : cli'[q] = IdleCLI
    BY <1>0, <2>1, <2>2
  <2>4. cli'[p].pc = l /\ cli'[p].seen = {}
    BY <1>0, <2>1, <2>2 DEF IdleCLI, CLI
  <2>5. RegProc(cli[p])'
    BY <2>2, <2>4 DEF RegProc
  <2>6. cli[p].pc # "write"
    BY <2>1 DEF IdleCLI
  <2> QED BY <2>1, <2>2, <2>3, <2>5, <2>6, QuietReg
<1>3. ASSUME NEW p \in Procs, AddExists(p) \/ ReadDir(p) PROVE RegInv'
  <2>0. Busy(p) /\ cli[p].pc \in {"exists", "readdir"} /\ UNCHANGED <<file, rec>>
    BY <1>3 DEF AddExists, ReadDir, Busy
  <2>1. CASE Exit(p)
    BY <1>c, <2>0, <2>1
  <2>2. CASE ~Exit(p)
    <3>1. \/ cli' = [cli EXCEPT ![p].pc = "readdir"]
          \/ cli' = [cli EXCEPT ![p].pc = "read", ![p].todo = dirs]
      BY <1>3, <2>2 DEF AddExists, ReadDir
    <3>2. /\ cli'[p].pc \in {"readdir", "read"} /\ cli'[p].seen = cli[p].seen
          /\ \A q \in Procs \ {p} : cli'[q] = cli[q]
      BY <1>0, <3>1 DEF CLI
    <3>3. RegProc(cli[p])'
      BY <2>0, <3>2 DEF RegInv, RegProc, Listing
    <3> QED BY <1>b, <2>0, <3>2, <3>3
  <2> QED BY <2>1, <2>2
<1>5. ASSUME NEW p \in Procs, ReadOne(p) PROVE RegInv'
  <2>0. Busy(p) /\ cli[p].pc = "read" /\ UNCHANGED <<file, rec>>
    BY <1>5 DEF ReadOne, Busy
  <2>1. CASE Exit(p)
    BY <1>c, <2>0, <2>1
  <2>2. CASE ~Exit(p)
    <3>1. PICK n \in cli[p].todo :
             cli' = [cli EXCEPT ![p].todo = @ \ {n},
                                ![p].seen = IF file[n] = "absent" THEN @ ELSE @ \cup {rec[n]}]
      BY <1>5, <2>2 DEF ReadOne
    <3>2. n \in Names
      BY <1>0 DEF CLI
    <3>3. /\ cli'[p].pc = "read" /\ \A q \in Procs \ {p} : cli'[q] = cli[q]
          /\ cli'[p].seen = IF file[n] = "absent" THEN cli[p].seen ELSE cli[p].seen \cup {rec[n]}
      BY <1>0, <2>0, <3>1 DEF CLI
    <3>4. file[n] # "absent" => rec[n].name \in Names
      BY <1>d, <2>0, <3>2
    <3>5. \A r \in cli[p].seen : r.name \in Names
      BY <2>0 DEF RegInv, RegProc, Listing
    <3>6. RegProc(cli[p])'
      BY <3>3, <3>4, <3>5 DEF RegProc
    <3> QED BY <1>b, <2>0, <3>3, <3>6
  <2> QED BY <2>1, <2>2
<1>6. ASSUME NEW p \in Procs, AddChoose(p) PROVE RegInv'
  <2>0. /\ Busy(p) /\ cli[p].pc = "read" /\ cli[p].todo = {} /\ cli[p].job.cmd = "add"
        /\ UNCHANGED <<file, rec>>
    BY <1>6 DEF AddChoose, Busy
  <2> DEFINE i == NewInstance(cli[p].job, cli[p].seen)
  <2>1. cli[p].job \in Job /\ cli[p].job.name \in Names /\ cli[p].job.mode \in Modes \cup {"unset"}
    BY <1>0, <2>0 DEF Job
  <2>2. /\ i.name \in Names /\ i.name = cli[p].job.name /\ i.mode \in Modes /\ i.loggedIn = FALSE
        /\ i.index = NextIndex({r.index : r \in cli[p].seen})
    BY <2>1, ParamsAssumption DEF NewInstance
  <2>3. cli' = [cli EXCEPT ![p].pc = "open", ![p].back = "idle", ![p].inst = i]
    BY <1>6 DEF AddChoose
  <2>4. Lowest(i.index)
    BY <2>0, <2>2, ChoosesLowest
  <2> HIDE DEF i
  <2>5. /\ cli'[p].pc = "open" /\ cli'[p].back = "idle" /\ cli'[p].inst = i
        /\ \A q \in Procs \ {p} : cli'[q] = cli[q]
    BY <1>0, <2>3 DEF CLI
  <2>6. file[i.name] = "absent"
    BY <2>0, <2>2 DEF SerialInv, SerialProc, AddSeesAll
  <2>7. Lowest(cli[p].inst.index)'
    BY <2>0, <2>4, <2>5 DEF Lowest
  <2>8. RegProc(cli[p])'
    BY <2>0, <2>2, <2>5, <2>6, <2>7 DEF RegProc, Listing, Proper
  <2> QED BY <1>b, <2>0, <2>5, <2>8
<1>7. ASSUME NEW p \in Procs, ListMigrate(p) PROVE RegInv'
  <2>0. Busy(p) /\ cli[p].pc = "read" /\ UNCHANGED <<file, rec>>
    BY <1>7 DEF ListMigrate, Busy
  <2>1. PICK r \in cli[p].seen :
           cli' = [cli EXCEPT ![p].pc = "open", ![p].back = "read",
                              ![p].inst = Normalize(r), ![p].seen = @ \ {r}]
    BY <1>7 DEF ListMigrate
  <2>2. /\ r \in Record /\ r.name \in Names /\ file[r.name] = "ok" /\ rec[r.name] = r
    BY <1>0, <2>0 DEF CLI, RegInv, RegProc, SerialInv, SerialProc, SeenIsCurrent, Listing
  <2> DEFINE i == Normalize(r)
  <2>3. i.name = r.name /\ i.index = r.index /\ i.mode \in Modes /\ i.loggedIn = r.loggedIn
    BY <2>2, NormalizeKeeps, ViewIs
  <2>4. /\ cli'[p].pc = "open" /\ cli'[p].back = "read" /\ cli'[p].inst = i
        /\ cli'[p].seen = cli[p].seen \ {r} /\ \A q \in Procs \ {p} : cli'[q] = cli[q]
    BY <1>0, <2>1 DEF CLI
  <2> HIDE DEF i
  <2>5. \A x \in cli[p].seen : x.name \in Names
    BY <2>0 DEF RegInv, RegProc, Listing
  <2>6. RegProc(cli[p])'
    BY <2>0, <2>2, <2>3, <2>4, <2>5 DEF RegProc, Proper
  <2> QED BY <1>b, <2>0, <2>4, <2>6
<1>8. ASSUME NEW p \in Procs, ListDone(p) PROVE RegInv'
  BY <1>8, <1>c DEF ListDone, Busy
<1>9. ASSUME NEW p \in Procs, Load(p) PROVE RegInv'
  <2>0. Busy(p) /\ cli[p].pc = "load" /\ UNCHANGED <<file, rec>>
    BY <1>9 DEF Load, Busy
  <2>1. CASE Exit(p)
    BY <1>c, <2>0, <2>1
  <2>2. CASE ~Exit(p)
    <3> DEFINE n == cli[p].job.name
               i == Normalize(rec[n])
               l == IF i # rec[n] THEN "open" ELSE "act"
    <3>1. cli' = [cli EXCEPT ![p].inst = i, ![p].back = "act", ![p].pc = l] /\ Decodes(file[n])
      BY <1>9, <2>2 DEF Load
    <3>2. n \in Names
      BY <1>0, <2>0 DEF Job
    <3>3. file[n] = "ok" /\ rec[n] \in Record /\ rec[n].name = n
      BY <1>d, <2>0, <3>1, <3>2 DEF Decodes
    <3>4. /\ i.name = n /\ i.index = rec[n].index /\ i.mode \in Modes
          /\ i.loggedIn = rec[n].loggedIn /\ i = Normalize(rec[n]) /\ l \in {"open", "act"}
      BY <3>3, NormalizeKeeps, ViewIs
    <3> HIDE DEF n, i, l
    <3>5. /\ cli'[p].pc = l /\ cli'[p].back = "act" /\ cli'[p].inst = i
          /\ \A q \in Procs \ {p} : cli'[q] = cli[q]
      BY <1>0, <3>1 DEF CLI
    <3>6. RegProc(cli[p])'
      BY <2>0, <3>2, <3>3, <3>4, <3>5 DEF RegProc, Proper, Listing
    <3> QED BY <1>b, <2>0, <3>5, <3>6
  <2> QED BY <2>1, <2>2
<1>10. ASSUME NEW p \in Procs, ActSet(p) PROVE RegInv'
  <2>0. Busy(p) /\ cli[p].pc = "act" /\ UNCHANGED <<file, rec>>
    BY <1>10 DEF ActSet, Busy
  <2> DEFINE c == cli[p].inst
             i == Changed(c, cli[p].job)
             n == c.name
  <2>1. n \in Names /\ file[n] = "ok" /\ c = Normalize(rec[n]) /\ rec[n] \in Record /\ c \in Record
    BY <1>0, <2>0 DEF RegInv, RegProc, CLI
  <2>2. c.index = rec[n].index /\ c.mode \in Modes /\ c.loggedIn = rec[n].loggedIn
    BY <2>1, NormalizeKeeps, ViewIs
  <2>3. cli[p].job.mode \in Modes \cup {"unset"}
    BY <1>0, <2>0 DEF Job
  <2>4. i.name = n /\ i.index = c.index /\ i.loggedIn = c.loggedIn /\ i.mode \in Modes
    BY <2>1, <2>2, <2>3 DEF Changed, Record
  <2>5. cli' = [cli EXCEPT ![p].inst = i, ![p].pc = "open", ![p].back = "idle"]
    BY <1>10 DEF ActSet
  <2> HIDE DEF c, i, n
  <2>6. /\ cli'[p].pc = "open" /\ cli'[p].back = "idle" /\ cli'[p].inst = i
        /\ \A q \in Procs \ {p} : cli'[q] = cli[q]
    BY <1>0, <2>5 DEF CLI
  <2>7. RegProc(cli[p])'
    BY <2>0, <2>1, <2>2, <2>4, <2>6 DEF RegProc, Proper, Listing
  <2> QED BY <1>b, <2>0, <2>6, <2>7
<1>11. ASSUME NEW p \in Procs, ActMark(p) PROVE RegInv'
  <2>0. Busy(p) /\ cli[p].pc = "act" /\ UNCHANGED <<file, rec>>
    BY <1>11 DEF ActMark, Busy
  <2>1. CASE Exit(p)
    BY <1>c, <2>0, <2>1
  <2>2. CASE ~Exit(p)
    <3> DEFINE c == cli[p].inst
               i == [c EXCEPT !.loggedIn = TRUE]
               n == c.name
    <3>1. n \in Names /\ file[n] = "ok" /\ c = Normalize(rec[n]) /\ rec[n] \in Record /\ c \in Record
      BY <1>0, <2>0 DEF RegInv, RegProc, CLI
    <3>2. c.index = rec[n].index /\ c.mode \in Modes
      BY <3>1, NormalizeKeeps, ViewIs
    <3>3. i.name = n /\ i.index = c.index /\ i.mode = c.mode
      BY <3>1 DEF Record
    <3>4. cli' = [cli EXCEPT ![p].inst = i, ![p].pc = "open", ![p].back = "idle"]
      BY <1>11, <2>2 DEF ActMark
    <3>5. i = [Normalize(rec[n]) EXCEPT !.loggedIn = TRUE]
      BY <3>1
    <3> HIDE DEF c, i, n
    <3>6. /\ cli'[p].pc = "open" /\ cli'[p].back = "idle" /\ cli'[p].inst = i
          /\ \A q \in Procs \ {p} : cli'[q] = cli[q]
      BY <1>0, <3>4 DEF CLI
    <3>7. RegProc(cli[p])'
      BY <2>0, <3>1, <3>2, <3>3, <3>5, <3>6 DEF RegProc, Proper, Listing
    <3> QED BY <1>b, <2>0, <3>6, <3>7
  <2> QED BY <2>1, <2>2
<1>e. ASSUME NEW p \in Procs, Busy(p), cli[p].pc # "write", NEW gone, Unlink(gone, p),
             \A n \in Names : file'[n] = IF n \in gone THEN "absent" ELSE file[n]
      PROVE  RegInv'
  <2>1. ASSUME NEW q \in Procs PROVE cli'[q].pc = "idle"
    <3>1. CASE q = p
      BY <1>e, <3>1 DEF Unlink, IdleCLI
    <3>2. CASE q # p
      <4>1. cli[q].pc = "idle" /\ cli[q] \in CLI
        BY <1>0, <1>a, <1>e, <3>2 DEF IdleCLI
      <4>2. cli'[q] = [cli[q] EXCEPT !.linked = cli[q].linked /\ cli[q].inst.name \notin gone]
        BY <1>e, <3>2 DEF Unlink
      <4> QED BY <4>1, <4>2 DEF CLI
    <3> QED BY <3>1, <3>2
  <2>2. NoTorn'
    BY <1>d, <1>e DEF NoTorn
  <2>3. \A q \in Procs : RegProc(cli[q])'
    BY <2>1 DEF RegProc, Listing
  <2> QED BY <2>2, <2>3 DEF RegInv
<1>13. ASSUME NEW p \in Procs, ActRemove(p) PROVE RegInv'
  <2>1. Busy(p) /\ cli[p].pc # "write"
    BY <1>13 DEF ActRemove, Busy
  <2> QED BY <1>e, <1>13, <2>1 DEF ActRemove
<1>14. ASSUME NEW p \in Procs, ActPurge(p) PROVE RegInv'
  <2>1. Busy(p) /\ cli[p].pc # "write"
    BY <1>14 DEF ActPurge, Busy
  <2> QED BY <1>e, <1>14, <2>1 DEF ActPurge
<1>f. ASSUME NEW p \in Procs, \A q \in Procs \ {p} : cli'[q] = IdleCLI, RegProc(cli[p])', NoTorn'
      PROVE  RegInv'
  <2>1. \A q \in Procs : RegProc(cli[q])'
    BY <1>f DEF RegProc, Listing, IdleCLI
  <2> QED BY <1>f, <2>1 DEF RegInv
<1>15. ASSUME NEW p \in Procs, SaveOpen(p) PROVE RegInv'
  <2>0. Busy(p) /\ cli[p].pc = "open" /\ cli' = [cli EXCEPT ![p].pc = "write", ![p].linked = TRUE]
    BY <1>15 DEF SaveOpen, Busy
  <2> DEFINE n == cli[p].inst.name
  <2>1. \A m \in Names : file'[m] = IF m = n THEN "empty" ELSE file[m]
    BY <1>15 DEF SaveOpen
  <2>2. \A q \in Procs \ {p} : cli'[q] = IdleCLI
    BY <1>0, <1>a, <2>0
  <2>3. /\ cli'[p].pc = "write" /\ cli'[p].inst = cli[p].inst
        /\ cli'[p].back = cli[p].back /\ cli'[p].seen = cli[p].seen
    BY <1>0, <2>0 DEF CLI
  <2>4. RegProc(cli[p])'
    BY <2>0, <2>3 DEF RegInv, RegProc, Listing
  <2>5. NoTorn'
    <3>1. \A m \in Names : file[m] # "empty"
      BY <1>d, <2>0
    <3> QED BY <2>1, <2>3, <3>1 DEF NoTorn
  <2> QED BY <1>f, <2>2, <2>4, <2>5
<1>16. ASSUME NEW p \in Procs, SaveWrite(p) PROVE RegInv'
  <2>0. Busy(p) /\ cli[p].pc = "write" /\ SaveReturn(p)
    BY <1>16 DEF SaveWrite, Busy
  <2> DEFINE i == cli[p].inst
             n == i.name
  <2>1. n \in Names /\ i.mode \in Modes /\ i \in Record
    BY <1>0, <2>0 DEF RegInv, RegProc, CLI
  <2>2. file' = [file EXCEPT ![n] = "ok"] /\ rec' = [rec EXCEPT ![n] = i]
    BY <2>0, <2>1, <1>16, WriteIs
  <2>3. NoTorn'
    <3>1. ASSUME NEW m \in Names, file[m] = "empty" PROVE m = n
      <4>1. PICK q \in Procs : cli[q].pc = "write" /\ cli[q].inst.name = m
        BY <3>1 DEF RegInv, NoTorn
      <4>2. q = p
        BY <1>a, <2>0, <4>1 DEF IdleCLI
      <4> QED BY <4>1, <4>2
    <3>2. \A m \in Names : file'[m] # "empty"
      BY <1>0, <2>1, <2>2, <3>1
    <3> QED BY <3>2 DEF NoTorn
  <2>4. CASE Exit(p)
    <3>1. \A q \in Procs : cli'[q] = IdleCLI
      BY <1>0, <1>a, <2>0, <2>4 DEF Exit
    <3>2. RegProc(cli[p])'
      BY <3>1 DEF RegProc, Listing, IdleCLI
    <3> QED BY <1>f, <2>3, <3>1, <3>2
  <2>5. CASE ~Exit(p)
    <3>1. cli[p].back # "idle" /\ cli' = [cli EXCEPT ![p].pc = cli[p].back, ![p].linked = FALSE]
      BY <2>0, <2>5 DEF SaveReturn
    <3>2. \A q \in Procs \ {p} : cli'[q] = IdleCLI
      BY <1>0, <1>a, <2>0, <3>1
    <3>3. /\ cli'[p].pc = cli[p].back /\ cli'[p].pc \in {"act", "read"}
          /\ cli'[p].inst = i /\ cli'[p].seen = cli[p].seen
      BY <1>0, <3>1 DEF CLI
    <3>4. file'[n] = "ok" /\ rec'[n] = i /\ i = Normalize(i)
      BY <1>0, <2>1, <2>2, ViewIs
    <3>5. cli[p].back = "read" => \A r \in cli[p].seen : r.name \in Names
      BY <2>0 DEF RegInv, RegProc, Listing
    <3> HIDE DEF i
    <3>6. RegProc(cli[p])'
      BY <2>1, <3>3, <3>4, <3>5 DEF RegProc, Listing
    <3> QED BY <1>f, <2>3, <3>2, <3>6
  <2> QED BY <2>4, <2>5
<1>17. ASSUME NEW p \in Procs, Crash(p) PROVE FALSE
  BY <1>17 DEF Crash
<1> QED BY <1>1, <1>2, <1>3, <1>5, <1>6, <1>7, <1>8, <1>9, <1>10, <1>11, <1>13, <1>14,
           <1>15, <1>16, <1>17 DEF Next, Step

-----------------------------------------------------------------------------
(* The steps of the store are steps of the registry.                       *)

\* A step that writes no file and opens none is invisible.
LEMMA QuietView ==
    ASSUME StoreInv, StoreInv', UNCHANGED <<file, rec>>,
           \A q \in Procs : cli[q].pc # "write" /\ cli'[q].pc # "write"
    PROVE  Reg' = Reg
<1>1. Reg = [n \in Names |-> OnDisk(n)] /\ Reg' = [n \in Names |-> OnDisk(n)']
  BY Views, ViewsNext DEF Viewed
<1>2. ASSUME NEW n \in Names PROVE OnDisk(n)' = OnDisk(n)
  BY DEF OnDisk
<1> QED BY <1>1, <1>2

\* Names the actions of the registry, with the mapping in place.
LEMMA RegisterIs ==
    ASSUME StoreInv, NEW n \in Names, NEW i, i \in Record, i.mode \in Modes, i.loggedIn = FALSE,
           file[n] = "absent", Lowest(i.index), \A q \in Procs : cli[q].pc # "write",
           Reg' = [Reg EXCEPT ![n] = View(i)]
    PROVE  Abstract!Register(n)
<1>1. Reg = [m \in Names |-> OnDisk(m)]
  BY Views DEF Viewed
<1>2. ASSUME NEW m \in Names
      PROVE  /\ file[m] = "ok" => Reg[m] # NotRegistered /\ Reg[m].index = rec[m].index
             /\ Reg[m] # NotRegistered => file[m] = "ok"
  <2>1. /\ file[m] \in {"absent", "ok"} /\ rec[m] \in Record
    BY Whole DEF StoreInv, TypeInv
  <2> QED BY <1>1, <2>1, ViewIs DEF OnDisk
<1>3. View(i) = [index |-> i.index, port |-> i.port, mode |-> i.mode, loggedIn |-> FALSE]
      /\ View(i) # NotRegistered
  BY ViewIs
<1>4. Reg[n] = NotRegistered /\ Reg'[n] = View(i) /\ View(i).port = i.port
  BY <1>1, <1>3 DEF OnDisk
<1>5. n \in Abstract!Registered' \ Abstract!Registered
  BY <1>3, <1>4 DEF Abstract!Registered, Reg
<1>6. Abstract!Used = {Reg[m].index : m \in {k \in Names : Reg[k] # NotRegistered}}
  BY DEF Abstract!Used, Abstract!Registered, Reg
<1>7. i.index \notin Abstract!Used
  BY <1>2, <1>6 DEF Lowest
<1>8. \A j \in 0..(i.index - 1) : j \in Abstract!Used
  BY <1>2, <1>6 DEF Lowest
<1>9. i.index \in 0..Cardinality(Names)
  BY DEF Lowest
<1>10. Reg' = [Reg EXCEPT ![n] = [index |-> i.index, port |-> Reg'[n].port, mode |-> i.mode,
                                  loggedIn |-> FALSE]]
  BY <1>3, <1>4
<1>0. Abstract!Cardinality(Names) = Cardinality(Names)
  BY DEF Abstract!Cardinality, Cardinality
<1>11. \E k \in 0..Cardinality(Names), mode \in Modes :
          /\ k \notin Abstract!Used /\ \A j \in 0..(k - 1) : j \in Abstract!Used
          /\ Reg' = [Reg EXCEPT ![n] = [index |-> k, port |-> Reg'[n].port, mode |-> mode,
                                       loggedIn |-> FALSE]]
  BY <1>7, <1>8, <1>9, <1>10
<1> QED BY <1>0, <1>5, <1>11 DEF Abstract!Register, Reg

LEMMA ConfigureIs ==
    ASSUME NEW n \in Names, NEW r \in Record, NEW i \in Record, Reg[n] = View(r),
           i.index = r.index, i.loggedIn = r.loggedIn, Reg' = [Reg EXCEPT ![n] = View(i)]
    PROVE  Abstract!Configure(n)
<1>1. Reg'[n] = View(i) /\ View(i) # NotRegistered /\ View(r) # NotRegistered
  BY ViewIs DEF Reg
<1>2. n \in Abstract!Registered \cap Abstract!Registered'
  BY <1>1 DEF Abstract!Registered, Reg
<1>3. View(i) = [View(r) EXCEPT !.port = View(i).port, !.mode = View(i).mode]
  <2> DEFINE S == [index : Nat, port : Nat, mode : Modes, loggedIn : BOOLEAN]
             e == [View(r) EXCEPT !.port = View(i).port, !.mode = View(i).mode]
  <2>1. View(r) \in S /\ View(i) \in S
    <3>1. ASSUME NEW x \in Record PROVE View(x) \in S
      <4>1. View(x) = [index |-> x.index, port |-> x.port, mode |-> Normalize(x).mode,
                       loggedIn |-> x.loggedIn]
        BY ViewIs
      <4>2. x.index \in Nat /\ x.port \in Nat /\ Normalize(x).mode \in Modes /\ x.loggedIn \in BOOLEAN
        BY ViewIs DEF Record
      <4> QED BY <4>1, <4>2
    <3> QED BY <3>1
  <2>2. View(r).index = View(i).index /\ View(r).loggedIn = View(i).loggedIn
    BY ViewIs
  <2>3. /\ e \in S /\ e.index = View(r).index /\ e.port = View(i).port
        /\ e.mode = View(i).mode /\ e.loggedIn = View(r).loggedIn
    BY <2>1
  <2>4. \A x, y \in S : x.index = y.index /\ x.port = y.port /\ x.mode = y.mode
                        /\ x.loggedIn = y.loggedIn => x = y
    OBVIOUS
  <2> HIDE DEF S, e
  <2>5. e = View(i)
    BY <2>1, <2>2, <2>3, <2>4
  <2> QED BY <2>5 DEF e
<1>4. Reg' = [Reg EXCEPT ![n].port = Reg'[n].port, ![n].mode = Reg'[n].mode]
  BY <1>1, <1>3 DEF Reg
<1> QED BY <1>2, <1>4 DEF Abstract!Configure, Reg

LEMMA RecordLoginIs ==
    ASSUME NEW n \in Names, NEW r \in Record, Reg[n] = View(r),
           Reg' = [Reg EXCEPT ![n] = View([Normalize(r) EXCEPT !.loggedIn = TRUE])]
    PROVE  Abstract!RecordLogin(n)
<1> DEFINE i == [Normalize(r) EXCEPT !.loggedIn = TRUE]
<1>1. Normalize(r) \in Record
  BY NormalizeKeeps
<1>2. i \in Record /\ i.index = Normalize(r).index /\ i.port = Normalize(r).port
      /\ i.mode = Normalize(r).mode /\ i.loggedIn = TRUE
  BY <1>1 DEF Record
<1>3. i.index = r.index /\ i.port = r.port /\ i.mode \in Modes
  BY <1>2, NormalizeKeeps, ViewIs
<1> HIDE DEF i
<1>4. View(i) = [View(r) EXCEPT !.loggedIn = TRUE]
  BY <1>2, <1>3, ViewIs
<1>5. n \in Abstract!Registered
  BY ViewIs DEF Abstract!Registered, Reg
<1>6. Reg' = [Reg EXCEPT ![n].loggedIn = TRUE]
  BY <1>4 DEF i, Reg
<1> QED BY <1>5, <1>6 DEF Abstract!RecordLogin, Reg

LEMMA UnregisterIs ==
    ASSUME NEW n \in Names, NEW r \in Record, Reg[n] = View(r), Reg' = [Reg EXCEPT ![n] = NotRegistered]
    PROVE  Abstract!Unregister(n)
<1>1. n \in Abstract!Registered
  BY ViewIs DEF Abstract!Registered, Reg
<1> QED BY <1>1 DEF Abstract!Unregister, Reg

LEMMA AbstractStep ==
    ASSUME Serial, StoreInv, StoreInv', [Next]_vars
    PROVE  Abstract!Next \/ Reg' = Reg
<1>0. /\ rec \in [Names -> Record] /\ cli \in [Procs -> CLI] /\ TypeInv /\ SerialInv /\ RegInv
      /\ file \in [Names -> {"absent", "empty", "corrupt", "ok"}]
  BY DEF StoreInv, TypeInv, TypeOK
<1>1. CASE UNCHANGED vars
  BY <1>1 DEF vars, Reg, Visible, Contents, Writing
<1>a. ASSUME NEW p \in Procs, Busy(p), cli[p].pc # "write" PROVE \A q \in Procs : cli[q].pc # "write"
  BY <1>0, <1>a, OthersIdle DEF IdleCLI
<1>2. ASSUME NEW p \in Procs, NEW j \in Jobs, Begin(p, j) PROVE Reg' = Reg
  <2>1. \A q \in Procs : cli[q] = IdleCLI /\ cli[q].pc = "idle"
    BY <1>0, <1>2, OthersIdle DEF Begin, SerialInv, SerialProc, Busy
  <2> DEFINE l == CASE j.cmd = "add" -> "exists" [] j.cmd = "list" -> "readdir" [] OTHER -> "load"
  <2>2. cli' = [cli EXCEPT ![p].job = j, ![p].pc = l] /\ l \in {"exists", "readdir", "load"}
        /\ UNCHANGED <<file, rec>>
    BY <1>2 DEF Begin
  <2> HIDE DEF l
  <2>3. \A q \in Procs : cli'[q].pc # "write"
    BY <1>0, <2>1, <2>2 DEF CLI
  <2> QED BY <2>1, <2>2, <2>3, QuietView
\* No step but SaveOpen gets to a write.
<1>3. ASSUME NEW p \in Procs,
             \/ AddExists(p) \/ ReadDir(p) \/ ReadOne(p) \/ AddChoose(p) \/ ListMigrate(p)
             \/ ListDone(p) \/ Load(p) \/ ActSet(p) \/ ActMark(p)
      PROVE  Reg' = Reg
  <2>1. Busy(p) /\ cli[p].pc # "write" /\ UNCHANGED <<file, rec>>
    BY <1>3 DEF AddExists, ReadDir, ReadOne, AddChoose, ListMigrate, ListDone, Load, ActSet,
                ActMark, Busy
  <2>2. \A q \in Procs : cli[q].pc # "write"
    BY <1>a, <2>1
  <2>3. \A q \in Procs \ {p} : cli'[q] = cli[q]
    BY <1>0, <1>3 DEF AddExists, ReadDir, ReadOne, AddChoose, ListMigrate, ListDone, Load, ActSet,
                ActMark, Exit
  <2>4. cli'[p].pc # "write"
    <3>1. cli[p] \in CLI
      BY <1>0
    <3>2. CASE Exit(p)
      BY <1>0, <3>2 DEF Exit, IdleCLI
    <3>3. CASE AddExists(p)
      BY <1>0, <3>1, <3>2, <3>3 DEF AddExists, CLI
    <3>4. CASE ReadDir(p) \/ AddChoose(p) \/ ListDone(p)
      BY <1>0, <3>1, <3>2, <3>4 DEF ReadDir, AddChoose, ListDone, CLI
    <3>5. CASE ReadOne(p) /\ ~Exit(p)
      <4>1. PICK n \in cli[p].todo :
              cli' = [cli EXCEPT ![p].todo = @ \ {n},
                                 ![p].seen = IF file[n] = "absent" THEN @ ELSE @ \cup {rec[n]}]
        BY <3>5 DEF ReadOne
      <4>2. cli'[p].pc = cli[p].pc
        BY <1>0, <3>1, <4>1 DEF CLI
      <4> QED BY <2>1, <4>2
    <3>6. CASE ListMigrate(p)
      <4>1. PICK r \in cli[p].seen :
              cli' = [cli EXCEPT ![p].pc = "open", ![p].back = "read",
                                 ![p].inst = Normalize(r), ![p].seen = @ \ {r}]
        BY <3>6 DEF ListMigrate
      <4>2. cli'[p].pc = "open"
        BY <1>0, <3>1, <4>1 DEF CLI
      <4> QED BY <4>2
    <3>7. CASE Load(p)
      BY <1>0, <3>1, <3>2, <3>7 DEF Load, CLI
    <3>8. CASE ActSet(p) \/ ActMark(p)
      BY <1>0, <3>1, <3>2, <3>8 DEF ActSet, ActMark, CLI
    <3> QED BY <1>3, <3>2, <3>3, <3>4, <3>5, <3>6, <3>7, <3>8
  <2> QED BY <2>1, <2>2, <2>3, <2>4, QuietView
<1>4. ASSUME NEW p \in Procs, cli[p].pc = "act", NEW n \in Names, n = cli[p].inst.name,
             Unlink({n}, p), \A m \in Names : file'[m] = IF m \in {n} THEN "absent" ELSE file[m],
             \A m \in Names : rec'[m] = IF m \in {n} THEN Zero ELSE rec[m]
      PROVE  Abstract!Unregister(n)
  <2>1. \A q \in Procs : cli[q].pc # "write"
    BY <1>a, <1>4 DEF Busy
  <2>2. \A q \in Procs : cli'[q].pc # "write"
    <3>1. ASSUME NEW q \in Procs, q # p PROVE cli'[q].pc # "write"
      <4>1. cli'[q] = [cli[q] EXCEPT !.linked = cli[q].linked /\ cli[q].inst.name \notin {n}]
        BY <1>4, <3>1 DEF Unlink
      <4>2. cli[q] \in CLI
        BY <1>0
      <4> QED BY <2>1, <4>1, <4>2 DEF CLI
    <3>2. cli'[p].pc # "write"
      BY <1>4 DEF Unlink, IdleCLI
    <3> QED BY <3>1, <3>2
  <2>3. Reg = [m \in Names |-> OnDisk(m)] /\ Reg' = [m \in Names |-> OnDisk(m)']
    BY <2>1, <2>2, Views, ViewsNext DEF Viewed
  <2>4. \A m \in Names : OnDisk(m)' = IF m = n THEN NotRegistered ELSE OnDisk(m)
    BY <1>4 DEF OnDisk
  <2>5. Reg' = [Reg EXCEPT ![n] = NotRegistered]
    BY <2>3, <2>4
  <2>6. file[n] = "ok" /\ rec[n] \in Record
    BY <1>0, <1>4 DEF RegInv, RegProc
  <2>7. Reg[n] = View(rec[n])
    BY <2>3, <2>6 DEF OnDisk
  <2> QED BY <2>5, <2>6, <2>7, UnregisterIs
<1>5. ASSUME NEW p \in Procs, ActRemove(p) \/ ActPurge(p) PROVE Abstract!Next
  <2>1. cli[p].pc = "act" /\ cli[p].inst.name \in Names
    BY <1>0, <1>5 DEF ActRemove, ActPurge, RegInv, RegProc
  <2>2. {cli[p].inst.name} \cap Names = {cli[p].inst.name} /\ PurgedBy(cli[p].inst) = {cli[p].inst.name}
    BY <2>1, NamesAssumption DEF PurgedBy
  <2>3. /\ \A m \in Names : file'[m] = IF m \in {cli[p].inst.name} THEN "absent" ELSE file[m]
        /\ \A m \in Names : rec'[m] = IF m \in {cli[p].inst.name} THEN Zero ELSE rec[m]
        /\ Unlink({cli[p].inst.name}, p)
    BY <1>5, <2>2 DEF ActRemove, ActPurge
  <2>4. PICK n \in Names : n = cli[p].inst.name
    BY <2>1
  <2>5. Abstract!Unregister(n)
    BY <1>4, <2>1, <2>3, <2>4
  <2> QED BY <2>5 DEF Abstract!Next
\* The first half of Save changes the registry, the second half nothing.
<1>6. ASSUME NEW p \in Procs, SaveOpen(p) PROVE Abstract!Next \/ Reg' = Reg
  <2>0. Busy(p) /\ cli[p].pc = "open" /\ cli' = [cli EXCEPT ![p].pc = "write", ![p].linked = TRUE]
    BY <1>6 DEF SaveOpen, Busy
  <2>a. PICK i \in Record : i = cli[p].inst
    BY <1>0 DEF CLI
  <2>b. PICK n \in Names : n = i.name
    BY <1>0, <2>0, <2>a DEF RegInv, RegProc
  <2>1. cli'[p].pc = "write" /\ cli'[p].inst = i
    BY <1>0, <2>0, <2>a DEF CLI
  <2>2. i.mode \in Modes /\ Proper(i)
    BY <1>0, <2>0, <2>a DEF RegInv, RegProc
  <2>3. /\ \A m \in Names : file'[m] = IF m = n THEN "empty" ELSE file[m]
        /\ \A m \in Names : rec'[m] = IF m = n THEN Zero ELSE rec[m]
    BY <1>6, <2>a, <2>b DEF SaveOpen
  <2>4. \A q \in Procs : cli[q].pc # "write"
    BY <1>a, <2>0
  <2>5. Reg = [m \in Names |-> OnDisk(m)]
    BY <2>4, Views DEF Viewed
  <2>6. Reg' = [m \in Names |-> IF m = n THEN View(i) ELSE OnDisk(m)']
    <3>1. Reg' = [m \in Names |-> IF m = cli'[p].inst.name THEN View(cli'[p].inst) ELSE OnDisk(m)']
      BY <2>1, ViewsNext DEF Viewed, View
    <3> QED BY <2>1, <2>b, <3>1
  <2>7. \A m \in Names : m # n => OnDisk(m)' = OnDisk(m)
    BY <2>3 DEF OnDisk
  <2>8. Reg' = [Reg EXCEPT ![n] = View(i)]
    BY <2>5, <2>6, <2>7
  <2>9. CASE file[n] = "absent" /\ Lowest(i.index) /\ i.loggedIn = FALSE
    <3>1. Abstract!Register(n)
      BY <2>2, <2>4, <2>8, <2>9, RegisterIs
    <3> QED BY <3>1 DEF Abstract!Next
  <2>10. CASE file[n] = "ok" /\ i.index = rec[n].index
    <3>1. Reg[n] = View(rec[n]) /\ rec[n] \in Record
      BY <1>0, <2>5, <2>10 DEF OnDisk
    <3>2. CASE i.loggedIn = rec[n].loggedIn
      <4>1. Abstract!Configure(n)
        BY <2>8, <2>10, <3>1, <3>2, ConfigureIs
      <4> QED BY <4>1 DEF Abstract!Next
    <3>3. CASE i = [Normalize(rec[n]) EXCEPT !.loggedIn = TRUE]
      <4>1. Abstract!RecordLogin(n)
        BY <2>8, <3>1, <3>3, RecordLoginIs
      <4> QED BY <4>1 DEF Abstract!Next
    <3> QED BY <2>2, <2>b, <2>10, <3>2, <3>3 DEF Proper
  <2> QED BY <2>2, <2>b, <2>9, <2>10 DEF Proper
<1>7. ASSUME NEW p \in Procs, SaveWrite(p) PROVE Reg' = Reg
  <2> DEFINE i == cli[p].inst
             n == i.name
  <2>0. Busy(p) /\ cli[p].pc = "write" /\ SaveReturn(p)
    BY <1>7 DEF SaveWrite, Busy
  <2>1. n \in Names
    BY <1>0, <2>0 DEF RegInv, RegProc
  <2>2. file' = [file EXCEPT ![n] = "ok"] /\ rec' = [rec EXCEPT ![n] = i]
    BY <1>0, <1>7, <2>1, WriteIs
  <2>3. \A q \in Procs : cli'[q].pc # "write"
    <3>1. \A q \in Procs \ {p} : cli[q].pc # "write"
      BY <1>0, <2>0, OthersIdle DEF IdleCLI
    <3>2. CASE Exit(p)
      BY <1>0, <3>1, <3>2 DEF Exit, IdleCLI
    <3>3. CASE ~Exit(p)
      <4>1. cli' = [cli EXCEPT ![p].pc = cli[p].back, ![p].linked = FALSE] /\ cli[p] \in CLI
        BY <1>0, <2>0, <3>3 DEF SaveReturn
      <4>2. cli'[p].pc = cli[p].back /\ cli[p].back # "write"
        BY <1>0, <4>1 DEF CLI
      <4> QED BY <1>0, <3>1, <4>1, <4>2
    <3> QED BY <3>2, <3>3
  <2>4. Reg = [m \in Names |-> IF m = n THEN View(i) ELSE OnDisk(m)]
    BY <2>0, Views DEF Viewed
  <2>5. Reg' = [m \in Names |-> OnDisk(m)']
    BY <2>3, ViewsNext DEF Viewed
  <2> HIDE DEF i
  <2>6. \A m \in Names : OnDisk(m)' = IF m = n THEN View(i) ELSE OnDisk(m)
    BY <1>0, <2>1, <2>2 DEF OnDisk
  <2> QED BY <2>4, <2>5, <2>6
<1>8. ASSUME NEW p \in Procs, Crash(p) PROVE FALSE
  BY <1>8 DEF Crash, StoreInv
<1> QED BY <1>1, <1>2, <1>3, <1>5, <1>6, <1>7, <1>8 DEF Next, Step

\* With one command at a time and none killed, truncated files, migrations and index
\* allocation are invisible: the store implements the atomic registry.
THEOREM Refines == ASSUME Serial PROVE Spec => IsRegistry
<1>1. StoreInv /\ [Next]_vars => StoreInv'
  BY TypeStep, SerialStep, RegStep, MayCrashKept DEF StoreInv
<1>2. Init => mayCrash \/ StoreInv
  BY TypeInit, SerialInit, RegInit DEF StoreInv
<1>3. Init => Abstract!Init
  <2>1. CASE mayCrash
    BY <2>1 DEF Abstract!Init, Abstract!Registered
  <2> QED BY <1>2, <2>1, AbstractInit
<1>4. StoreInv /\ StoreInv' /\ [Next]_vars => [Abstract!Next]_Reg
  BY AbstractStep
<1>5. mayCrash /\ [Next]_vars => mayCrash' /\ [Abstract!Next]_Reg
  BY MayCrashKept DEF Reg
<1> QED BY <1>1, <1>2, <1>3, <1>4, <1>5, PTL DEF Spec, IsRegistry, Abstract!Spec, Reg

=============================================================================
