-------------------------- MODULE SelfUpdateProofs --------------------------
(* Theorems about SelfUpdate, for every number of upgrades, releases and     *)
(* versions.                                                                 *)
EXTENDS SelfUpdate, SequenceTheorems, TLAPS

-----------------------------------------------------------------------------
(* The comparison of versions.                                             *)

\* The least element of a set of positions.
LEMMA MinOf3 ==
    ASSUME NEW S \in SUBSET (1..3), S # {}
    PROVE  Min(S) \in S /\ \A i \in S : Min(S) <= i
<1>1. \E m \in S : \A i \in S : m <= i
  <2>1. CASE 1 \in S
    BY <2>1
  <2>2. CASE 1 \notin S /\ 2 \in S
    BY <2>2
  <2>3. CASE 1 \notin S /\ 2 \notin S
    <3>1. \A i \in S : i = 3
      BY <2>3
    <3>2. 3 \in S
      BY <3>1
    <3> QED BY <3>1, <3>2
  <2> QED BY <2>1, <2>2, <2>3
<1> QED BY <1>1 DEF Min

\* cmp decides the lexicographic order of x.y.z.
LEMMA CmpDecides ==
    ASSUME NEW a \in Seq(Nat), NEW b \in Seq(Nat), Len(a) = 3, Len(b) = 3
    PROVE  LET Above == \E i \in 1..3 : a[i] > b[i] /\ \A j \in 1..3 : j < i => a[j] = b[j]
           IN  /\ cmp(a, b) \in {-1, 0, 1}
               /\ cmp(b, a) < 0 => Above
               /\ cmp(b, a) >= 0 => ~Above
<1> DEFINE D == {i \in 1..3 : b[i] # a[i]}
           m == Min(D)
<1>1. \A i \in 1..3 : a[i] \in Nat /\ b[i] \in Nat
  <2>1. \A i \in 1..Len(a) : a[i] \in Nat
    BY ElementOfSeq
  <2>2. \A i \in 1..Len(b) : b[i] \in Nat
    BY ElementOfSeq
  <2> QED BY <2>1, <2>2
<1>2. cmp(a, b) \in {-1, 0, 1}
  BY DEF cmp
<1>3. cmp(b, a) = IF D = {} THEN 0 ELSE IF b[m] < a[m] THEN -1 ELSE 1
  BY DEF cmp
<1>4. ASSUME D # {}
      PROVE  m \in 1..3 /\ b[m] # a[m] /\ \A j \in 1..3 : j < m => a[j] = b[j]
  <2>1. m \in D /\ \A i \in D : m <= i
    BY <1>4, MinOf3
  <2> HIDE DEF m
  <2> QED BY <2>1
<1> HIDE DEF m
<1>5. ASSUME cmp(b, a) < 0
      PROVE  \E i \in 1..3 : a[i] > b[i] /\ \A j \in 1..3 : j < i => a[j] = b[j]
  <2>1. D # {} /\ b[m] < a[m]
    BY <1>3, <1>5
  <2> QED BY <1>1, <1>4, <2>1
<1>6. ASSUME cmp(b, a) >= 0, NEW i \in 1..3, a[i] > b[i],
             \A j \in 1..3 : j < i => a[j] = b[j]
      PROVE  FALSE
  <2>1. i \in D
    BY <1>1, <1>6
  <2>2. ~(b[m] < a[m])
    BY <1>3, <1>6, <2>1
  <2>3. m = i
    BY <1>1, <1>4, <1>6, <2>1
  <2> QED BY <1>1, <1>6, <2>2, <2>3
<1> QED BY <1>2, <1>5, <1>6

\* What upgrade takes for an upgrade is one, and what it takes for none is none
\* apart from a suffix.
LEMMA CompareDecides ==
    ASSUME NEW v \in Version, NEW w \in Version, Comparable(v, w)
    PROVE  /\ ~(Compare(v, w) >= 0) => Newer(w, v)
           /\ Compare(v, w) >= 0 /\ ~v.suffix => ~Newer(w, v)
<1> DEFINE a == w.parts
           b == v.parts
<1>1. a \in Seq(Nat) /\ b \in Seq(Nat) /\ Len(a) = 3 /\ Len(b) = 3
  BY DEF Version, Comparable, Parses
<1>2. Compare(v, w) = cmp(b, a)
  BY DEF Compare, parse
<1> DEFINE Above == \E i \in 1..3 : a[i] > b[i] /\ \A j \in 1..3 : j < i => a[j] = b[j]
<1>3. cmp(b, a) \in {-1, 0, 1}
  BY <1>1, CmpDecides
<1>4. (cmp(b, a) < 0 => Above) /\ (cmp(b, a) >= 0 => ~Above)
  BY <1>1, CmpDecides
<1>5. Newer(w, v) <=> Above \/ (a = b /\ v.suffix /\ ~w.suffix)
  BY DEF Newer
<1> HIDE DEF Above, a, b
<1> QED BY <1>2, <1>3, <1>4, <1>5

\* cmp is antisymmetric.
LEMMA CmpSwap ==
    ASSUME NEW a \in Seq(Nat), NEW b \in Seq(Nat), Len(a) = 3, Len(b) = 3
    PROVE  cmp(a, b) <= 0 <=> cmp(b, a) >= 0
<1> DEFINE D == {i \in 1..3 : a[i] # b[i]}
           m == Min(D)
<1>1. {i \in 1..3 : b[i] # a[i]} = D
  OBVIOUS
<1>2. cmp(a, b) = IF D = {} THEN 0 ELSE IF a[m] < b[m] THEN -1 ELSE 1
  BY DEF cmp
<1>3. cmp(b, a) = IF D = {} THEN 0 ELSE IF b[m] < a[m] THEN -1 ELSE 1
  BY <1>1 DEF cmp
<1>4. ASSUME D # {} PROVE m \in 1..3 /\ a[m] # b[m]
  BY <1>4, MinOf3
<1> HIDE DEF m
<1>5. ASSUME D # {} PROVE a[m] \in Nat /\ b[m] \in Nat
  BY <1>4, <1>5, ElementOfSeq
<1> HIDE DEF D
<1> QED BY <1>2, <1>3, <1>4, <1>5

\* doctor's warning about an untested netbird: the versions it keeps silent about
\* are those of the tested range, 0.77.0 and 0.77.1 with whatever suffix.
THEOREM TestedRange ==
    ASSUME NEW v \in Version, Parses(v)
    PROVE  InTestedRange(v) <=> v.parts[1] = 0 /\ v.parts[2] = 77 /\ v.parts[3] \in {0, 1}
<1> DEFINE c == v.parts
           lo == <<0, 77, 0>>
           hi == <<0, 77, 1>>
           Above(a, b) == \E i \in 1..3 : a[i] > b[i] /\ \A j \in 1..3 : j < i => a[j] = b[j]
<1>1. c \in Seq(Nat) /\ Len(c) = 3 /\ lo \in Seq(Nat) /\ Len(lo) = 3 /\ hi \in Seq(Nat) /\ Len(hi) = 3
  BY DEF Version, Parses
<1>2. c[1] \in Nat /\ c[2] \in Nat /\ c[3] \in Nat
  BY <1>1, ElementOfSeq
<1>3. InTestedRange(v) <=> cmp(c, lo) >= 0 /\ cmp(c, hi) <= 0
  BY DEF InTestedRange, parse, TestedMin, TestedMax
<1>4. cmp(c, lo) >= 0 <=> ~Above(lo, c)
  <2>1. cmp(c, lo) \in {-1, 0, 1} /\ (cmp(c, lo) < 0 => Above(lo, c)) /\ (cmp(c, lo) >= 0 => ~Above(lo, c))
    BY <1>1, CmpDecides
  <2> HIDE DEF Above, c, lo
  <2> QED BY <2>1
<1>5. cmp(c, hi) <= 0 <=> ~Above(c, hi)
  <2>1. cmp(hi, c) \in {-1, 0, 1} /\ (cmp(hi, c) < 0 => Above(c, hi)) /\ (cmp(hi, c) >= 0 => ~Above(c, hi))
    BY <1>1, CmpDecides
  <2>2. cmp(c, hi) <= 0 <=> cmp(hi, c) >= 0
    BY <1>1, CmpSwap
  <2> HIDE DEF Above, c, hi
  <2> QED BY <2>1, <2>2
<1>6. Above(lo, c) <=> \/ 0 > c[1]
                       \/ 77 > c[2] /\ 0 = c[1]
                       \/ 0 > c[3] /\ 0 = c[1] /\ 77 = c[2]
  OBVIOUS
<1>7. Above(c, hi) <=> \/ c[1] > 0
                       \/ c[2] > 77 /\ c[1] = 0
                       \/ c[3] > 1 /\ c[1] = 0 /\ c[2] = 77
  OBVIOUS
<1> HIDE DEF Above, c, lo, hi
<1>8. InTestedRange(v) <=> c[1] = 0 /\ c[2] = 77 /\ c[3] \in {0, 1}
  BY <1>2, <1>3, <1>4, <1>5, <1>6, <1>7
<1> QED BY <1>8 DEF c

-----------------------------------------------------------------------------
(* The invariant.                                                          *)

LEMMA IdleType == /\ Idle \in Update /\ Chosen(Idle) /\ Idle.pc = "idle"
                  /\ Unlinked \in Content /\ ~Unlinked.whole
<1>1. Idle \in Update
  BY DEF Idle, Update, Labels, Versions
<1>2. Unlinked \in Content
  BY DEF Unlinked, Content, Versions, Archives
<1> QED BY <1>1, <1>2 DEF Idle, Chosen, Unlinked

\* One process changes.
LEMMA PutUpdate ==
    ASSUME upd \in [Procs -> Update], NEW p \in Procs, NEW u \in Update,
           upd' = [upd EXCEPT ![p] = u]
    PROVE  /\ upd' \in [Procs -> Update] /\ upd'[p] = u
           /\ \A q \in Procs : q # p => upd'[q] = upd[q]
OBVIOUS

LEMMA InitInv == Init => TypeOK /\ UpgradeInv
<1> SUFFICES ASSUME Init PROVE TypeOK /\ UpgradeInv
  OBVIOUS
<1>1. PICK v \in Starts, b \in Good, i \in Inodes :
        /\ inode = [j \in Inodes |-> IF j = i THEN [ver |-> v, build |-> b, whole |-> TRUE]
                                     ELSE Unlinked]
        /\ bin = i
  BY DEF Init
<1>2. [ver |-> v, build |-> b, whole |-> TRUE] \in Content
  BY DEF Content, Versions, Archives, Builds
<1>3. inode \in [Inodes -> Content] /\ bin \in Inodes
  BY <1>1, <1>2, IdleType
<1>4. inode[bin].whole /\ \A j \in Inodes : inode[j].whole => inode[j].build \in Good
  BY <1>1, IdleType
<1>5. upd \in [Procs -> Update] /\ \A p \in Procs : upd[p] = Idle
  BY IdleType DEF Init
<1>6. site \in [Releases -> Assets]
  <2>1. PICK c \in Good : site = [w \in Releases |-> [archive |-> c, sums |-> c]]
    BY DEF Init
  <2> QED BY <2>1 DEF Assets, Archives, Builds
<1>7. TypeOK
  <2>1. latest \in Releases /\ overlap \in BOOLEAN
    BY DEF Init
  <2>2. changes \in 0..MaxChanges
    BY NamesAssumption DEF Init
  <2>3. last \in Outcomes /\ new \in Inodes \cup {NoInode}
    BY DEF Init, Outcomes
  <2> QED BY <1>3, <1>5, <1>6, <2>1, <2>2, <2>3 DEF TypeOK
<1>8. new = NoInode /\ new # bin
  BY <1>3, NamesAssumption DEF Init
<1>9. \A p \in Procs : Chosen(upd[p]) /\ OwnsNew(upd[p]) /\ upd[p].pc = "idle"
  BY <1>5, IdleType DEF OwnsNew
<1> QED BY <1>4, <1>7, <1>8, <1>9 DEF UpgradeInv

\* A step of p that leaves the files alone.
LEMMA KeepInv ==
    ASSUME TypeOK, UpgradeInv, NEW p \in Procs, NEW u \in Update,
           upd' = [upd EXCEPT ![p] = u],
           UNCHANGED <<releases, inode, bin, new, overlap>>, last' \in Outcomes,
           Chosen(u),
           ~overlap /\ u.pc # "idle" => \A q \in Procs : q # p => upd[q].pc = "idle",
           ~overlap => OwnsNew(u)
    PROVE  TypeOK' /\ UpgradeInv'
<1>1. /\ upd' \in [Procs -> Update] /\ upd'[p] = u
      /\ \A q \in Procs : q # p => upd'[q] = upd[q]
  BY PutUpdate DEF TypeOK
<1>2. TypeOK'
  BY <1>1 DEF TypeOK, releases
<1>3. \A q \in Procs : Chosen(upd'[q])
  BY <1>1 DEF UpgradeInv
<1>4. ASSUME ~overlap, NEW q \in Procs PROVE OwnsNew(upd[q])'
  BY <1>1, <1>4 DEF UpgradeInv, OwnsNew
<1>5. ASSUME ~overlap, NEW q \in Procs, NEW r \in Procs,
             upd'[q].pc # "idle", upd'[r].pc # "idle"
      PROVE  q = r
  BY <1>1, <1>5 DEF UpgradeInv
<1>6. overlap' = overlap /\ bin' = bin /\ new' = new /\ inode' = inode
  OBVIOUS
<1> QED BY <1>2, <1>3, <1>4, <1>5, <1>6 DEF UpgradeInv, Chosen

LEMMA ReturnInv ==
    ASSUME TypeOK, UpgradeInv, NEW p \in Procs, NEW how \in Outcomes, Return(p, how),
           UNCHANGED <<releases, inode, bin, new, overlap>>
    PROVE  TypeOK' /\ UpgradeInv'
<1>1. upd' = [upd EXCEPT ![p] = Idle] /\ last' = how
  BY DEF Return
<1>2. OwnsNew(Idle)
  BY IdleType DEF OwnsNew
<1> QED BY <1>1, <1>2, IdleType, KeepInv

LEMMA StepInv == TypeOK /\ UpgradeInv /\ [Next]_vars => TypeOK' /\ UpgradeInv'
<1> SUFFICES ASSUME TypeOK, UpgradeInv, [Next]_vars PROVE TypeOK' /\ UpgradeInv'
  OBVIOUS
<1>0. /\ upd \in [Procs -> Update] /\ inode \in [Inodes -> Content] /\ bin \in Inodes
      /\ new \in Inodes \cup {NoInode} /\ latest \in Releases /\ site \in [Releases -> Assets]
  BY DEF TypeOK
<1>r. {"error", "current", "available", "installed", "killed"} \subseteq Outcomes
  BY DEF Outcomes
<1>1. CASE UNCHANGED vars
  BY <1>1 DEF vars, TypeOK, UpgradeInv, OwnsNew, Chosen
<1>2. ASSUME NEW v \in Releases, Announce(v) PROVE TypeOK' /\ UpgradeInv'
  <2>1. changes' \in 0..MaxChanges
    BY <1>2, NamesAssumption DEF Announce, TypeOK
  <2> QED BY <1>2, <2>1 DEF Announce, TypeOK, UpgradeInv, OwnsNew, Chosen
<1>3. ASSUME NEW v \in Releases, NEW a \in Assets, Upload(v, a) PROVE TypeOK' /\ UpgradeInv'
  <2>1. changes' \in 0..MaxChanges
    BY <1>3, NamesAssumption DEF Upload, TypeOK
  <2>2. site' \in [Releases -> Assets]
    BY <1>0, <1>3 DEF Upload
  <2> QED BY <1>3, <2>1, <2>2 DEF Upload, TypeOK, UpgradeInv, OwnsNew, Chosen
<1>4. ASSUME NEW p \in Procs, NEW f \in BOOLEAN, NEW c \in BOOLEAN, Begin(p, f, c)
      PROVE  TypeOK' /\ UpgradeInv'
  <2> DEFINE u == [Idle EXCEPT !.pc = "latest", !.cur = inode[bin].ver,
                               !.force = f, !.check = c]
  <2>1. inode[bin].ver \in Versions
    BY <1>0 DEF Content
  <2>2. u \in Update
    BY <2>1 DEF Idle, Update, Labels, Versions
  <2>3. Chosen(u) /\ OwnsNew(u)
    BY DEF Idle, Chosen, OwnsNew
  <2>4. /\ upd' = [upd EXCEPT ![p] = u] /\ UNCHANGED <<releases, inode, bin, new, overlap, last>>
        /\ ~overlap => \A q \in Procs : upd[q].pc = "idle"
    BY <1>4 DEF Begin
  <2>5. last' \in Outcomes
    BY <2>4 DEF TypeOK
  <2> HIDE DEF u
  <2> QED BY <2>2, <2>3, <2>4, <2>5, KeepInv
<1>5. ASSUME NEW p \in Procs, LatestRelease(p) PROVE TypeOK' /\ UpgradeInv'
  <2>0. UNCHANGED <<releases, inode, bin, new, overlap>> /\ upd[p].pc = "latest"
    BY <1>5 DEF LatestRelease
  <2>1. ASSUME NEW how \in Outcomes, Return(p, how) PROVE TypeOK' /\ UpgradeInv'
    BY <2>0, <2>1, ReturnInv
  <2>2. ASSUME ~(upd[p].cur = Dev /\ ~upd[p].force),
               ~UpToDate(upd[p].cur, latest, upd[p].force),
               upd' = [upd EXCEPT ![p].pc = "sums", ![p].rel = latest], UNCHANGED last
        PROVE  TypeOK' /\ UpgradeInv'
    <3> DEFINE u == [upd[p] EXCEPT !.pc = "sums", !.rel = latest]
    <3>1. u \in Update
      BY <1>0 DEF Update, Labels, Versions
    <3>2. upd' = [upd EXCEPT ![p] = u]
      BY <1>0, <2>2
    <3>3. /\ u.pc = "sums" /\ u.rel = latest /\ u.cur = upd[p].cur /\ u.force = upd[p].force
          /\ u.force \in BOOLEAN
      BY <1>0 DEF Update
    <3>4. ASSUME ~u.force, Comparable(u.cur, latest) PROVE Newer(latest, u.cur)
      <4>1. u.cur # Dev
        BY <2>2, <3>3, <3>4
      <4>2. ~(Compare(u.cur, latest) >= 0)
        BY <2>2, <3>3, <3>4, <4>1 DEF UpToDate
      <4>3. u.cur \in Version /\ latest \in Version
        <5>1. u.cur \in Versions
          BY <3>1 DEF Update
        <5> QED BY <1>0, <4>1, <5>1, NamesAssumption DEF Versions
      <4> QED BY <3>4, <4>2, <4>3, CompareDecides
    <3>5. Chosen(u)
      BY <1>0, <3>3, <3>4 DEF Chosen
    <3>6. ~overlap => OwnsNew(u) /\ \A q \in Procs : q # p => upd[q].pc = "idle"
      BY <2>0, <3>3 DEF UpgradeInv, OwnsNew
    <3>7. last' \in Outcomes
      BY <2>2 DEF TypeOK
    <3> HIDE DEF u
    <3> QED BY <2>0, <3>1, <3>2, <3>5, <3>6, <3>7, KeepInv
  <2> QED BY <1>5, <1>r, <2>1, <2>2 DEF LatestRelease
<1>6. ASSUME NEW p \in Procs, FetchSums(p) PROVE TypeOK' /\ UpgradeInv'
  <2>0. UNCHANGED <<releases, inode, bin, new, overlap>> /\ upd[p].pc = "sums"
    BY <1>6 DEF FetchSums
  <2>1. CASE Return(p, "error")
    BY <1>r, <2>0, <2>1, ReturnInv
  <2>2. CASE /\ site[upd[p].rel].sums # Absent /\ UNCHANGED last
             /\ upd' = [upd EXCEPT ![p].pc = "archive", ![p].want = site[upd[p].rel].sums]
    <3> DEFINE w == site[upd[p].rel].sums
               u == [upd[p] EXCEPT !.pc = "archive", !.want = w]
    <3>1. w \in Builds \cup {Absent}
      <4>1. upd[p].rel \in Releases
        BY <2>0 DEF UpgradeInv, Chosen
      <4> QED BY <1>0, <4>1 DEF Assets
    <3> HIDE DEF w
    <3>2. u \in Update
      BY <1>0, <3>1 DEF Update, Labels
    <3>3. upd' = [upd EXCEPT ![p] = u]
      BY <1>0, <2>2 DEF w
    <3>4. /\ u.pc = "archive" /\ u.rel = upd[p].rel /\ u.cur = upd[p].cur
          /\ u.force = upd[p].force
      BY <1>0 DEF Update
    <3>5. Chosen(u)
      BY <2>0, <3>4 DEF UpgradeInv, Chosen
    <3>6. ~overlap => OwnsNew(u) /\ \A q \in Procs : q # p => upd[q].pc = "idle"
      BY <2>0, <3>4 DEF UpgradeInv, OwnsNew
    <3>7. last' \in Outcomes
      BY <2>2 DEF TypeOK
    <3> HIDE DEF u
    <3> QED BY <2>0, <3>2, <3>3, <3>5, <3>6, <3>7, KeepInv
  <2> QED BY <1>6, <2>1, <2>2 DEF FetchSums
<1>7. ASSUME NEW p \in Procs, FetchArchive(p) PROVE TypeOK' /\ UpgradeInv'
  <2>0. UNCHANGED <<releases, inode, bin, new, overlap>> /\ upd[p].pc = "archive"
    BY <1>7 DEF FetchArchive
  <2>1. CASE Return(p, "error")
    BY <1>r, <2>0, <2>1, ReturnInv
  <2>2. ASSUME NEW got \in {site[upd[p].rel].archive, Damaged} \ {Absent},
               Verified(upd[p].want, got), got \notin Empty, UNCHANGED last,
               upd' = [upd EXCEPT ![p].pc = "open", ![p].got = got, ![p].want = Absent]
        PROVE  TypeOK' /\ UpgradeInv'
    <3> DEFINE u == [upd[p] EXCEPT !.pc = "open", !.got = got, !.want = Absent]
    <3>1. got \in Good
      <4>1. upd[p].want \in Builds \cup {Absent}
        BY <1>0 DEF Update
      <4> QED BY <2>2, <4>1 DEF Verified, Builds
    <3>2. u \in Update
      <4>1. got \in Archives
        BY <3>1 DEF Archives, Builds
      <4>2. "open" \in Labels
        BY DEF Labels
      <4> QED BY <1>0, <4>1, <4>2 DEF Update
    <3>3. upd' = [upd EXCEPT ![p] = u]
      BY <1>0, <2>2
    <3>4. /\ u.pc = "open" /\ u.rel = upd[p].rel /\ u.cur = upd[p].cur
          /\ u.force = upd[p].force /\ u.got = got
      BY <1>0 DEF Update
    <3>5. Chosen(u)
      BY <2>0, <3>1, <3>4 DEF UpgradeInv, Chosen
    <3>6. ~overlap => OwnsNew(u) /\ \A q \in Procs : q # p => upd[q].pc = "idle"
      BY <2>0, <3>4 DEF UpgradeInv, OwnsNew
    <3>7. last' \in Outcomes
      BY <2>2 DEF TypeOK
    <3> HIDE DEF u
    <3> QED BY <2>0, <3>2, <3>3, <3>5, <3>6, <3>7, KeepInv
  <2> QED BY <1>7, <2>1, <2>2 DEF FetchArchive
<1>b. ASSUME NEW p \in Procs, upd[p].pc \in {"open", "write", "rename"}
      PROVE  /\ Binary(p) \in Content /\ Binary(p).build \in Good
             /\ Binary(p).ver = upd[p].rel /\ Binary(p).whole
             /\ \A w \in BOOLEAN : /\ [Binary(p) EXCEPT !.whole = w] \in Content
                                   /\ [Binary(p) EXCEPT !.whole = w].whole = w
                                   /\ [Binary(p) EXCEPT !.whole = w].build \in Good
                                   /\ [Binary(p) EXCEPT !.whole = w].ver = upd[p].rel
  <2>1. upd[p].got \in Good
    BY <1>b DEF UpgradeInv, Chosen
  <2>2. upd[p].rel \in Versions
    BY <1>0 DEF Update
  <2> QED BY <2>1, <2>2 DEF Binary, Content, Archives, Builds
<1>8. ASSUME NEW p \in Procs, WriteFileOpen(p) PROVE TypeOK' /\ UpgradeInv'
  <2>0. UNCHANGED <<releases, bin, overlap>> /\ upd[p].pc = "open"
    BY <1>8 DEF WriteFileOpen
  <2>1. CASE Return(p, "error") /\ UNCHANGED <<inode, new>>
    BY <1>r, <2>0, <2>1, ReturnInv
  <2>2. ASSUME NEW i \in IF new = NoInode THEN Unused ELSE {new},
               new' = i, UNCHANGED last,
               inode' = [inode EXCEPT ![i] = [Binary(p) EXCEPT !.whole = FALSE]],
               upd' = [upd EXCEPT ![p].pc = "write", ![p].fd = i]
        PROVE  TypeOK' /\ UpgradeInv'
    <3> DEFINE u == [upd[p] EXCEPT !.pc = "write", !.fd = i]
               c == [Binary(p) EXCEPT !.whole = FALSE]
    <3>1. i \in Inodes /\ (new # bin => i # bin)
      BY <1>0, <2>2 DEF Unused
    <3>2. c \in Content /\ ~c.whole
      BY <1>b, <2>0
    <3>3. u \in Update
      BY <1>0, <3>1 DEF Update, Labels
    <3>4. /\ u.pc = "write" /\ u.rel = upd[p].rel /\ u.cur = upd[p].cur
          /\ u.force = upd[p].force /\ u.got = upd[p].got /\ u.fd = i
      BY <1>0 DEF Update
    <3>5. upd' = [upd EXCEPT ![p] = u]
      BY <1>0, <2>2
    <3> HIDE DEF u, c
    <3>6. /\ upd' \in [Procs -> Update] /\ upd'[p] = u
          /\ \A q \in Procs : q # p => upd'[q] = upd[q]
      BY <1>0, <3>3, <3>5, PutUpdate
    <3>7. /\ inode' \in [Inodes -> Content] /\ inode'[i] = c
          /\ \A j \in Inodes : j # i => inode'[j] = inode[j]
      BY <1>0, <2>2, <3>1, <3>2 DEF c
    <3>8. TypeOK'
      BY <2>0, <2>2, <3>1, <3>6, <3>7 DEF TypeOK, releases
    <3>9. \A q \in Procs : Chosen(upd'[q])
      BY <2>0, <3>4, <3>6 DEF UpgradeInv, Chosen
    <3>10. \A j \in Inodes : inode'[j].whole => inode'[j].build \in Good
      BY <3>2, <3>7 DEF UpgradeInv
    <3>11. ASSUME ~overlap
           PROVE  /\ \A q, r \in Procs : upd'[q].pc # "idle" /\ upd'[r].pc # "idle" => q = r
                  /\ inode'[bin].whole /\ new' # bin
                  /\ \A q \in Procs : OwnsNew(upd[q])'
      <4>1. new # bin /\ i # bin /\ inode'[bin] = inode[bin] /\ inode[bin].whole
        BY <1>0, <3>1, <3>7, <3>11 DEF UpgradeInv
      <4>2. \A q \in Procs : q # p => upd'[q].pc = "idle"
        BY <2>0, <3>6, <3>11 DEF UpgradeInv
      <4>3. u.cur = inode[bin].ver
        BY <2>0, <3>4, <3>11 DEF UpgradeInv, OwnsNew
      <4>4. OwnsNew(upd[p])'
        BY <2>0, <2>2, <3>1, <3>2, <3>4, <3>6, <3>7, <4>1, <4>3, NamesAssumption DEF OwnsNew
      <4>5. \A q \in Procs : q # p => OwnsNew(upd[q])'
        BY <4>2 DEF OwnsNew
      <4> QED BY <2>2, <4>1, <4>2, <4>4, <4>5
    <3> QED BY <2>0, <3>8, <3>9, <3>10, <3>11 DEF UpgradeInv, Chosen
  <2> QED BY <1>8, <2>1, <2>2 DEF WriteFileOpen
<1>9. ASSUME NEW p \in Procs, WriteFileWrite(p) PROVE TypeOK' /\ UpgradeInv'
  <2>0. UNCHANGED <<releases, bin, new, overlap>> /\ upd[p].pc = "write"
    BY <1>9 DEF WriteFileWrite
  <2>1. PICK w \in BOOLEAN :
          /\ inode' = [inode EXCEPT ![upd[p].fd] = [Binary(p) EXCEPT !.whole = w]]
          /\ \/ /\ upd' = [upd EXCEPT ![p].pc = "rename", ![p].fd = NoInode]
                /\ UNCHANGED last /\ (w \/ inode[upd[p].fd].whole)
             \/ Return(p, "error")
    BY <1>9 DEF WriteFileWrite
  <2> DEFINE c == [Binary(p) EXCEPT !.whole = w]
             f == upd[p].fd
  <2>2. c \in Content /\ c.build \in Good /\ c.ver = upd[p].rel /\ c.whole = w
    BY <1>b, <2>0
  <2> HIDE DEF c
  <2>3. /\ inode' \in [Inodes -> Content]
        /\ \A j \in Inodes : inode'[j] = IF j = f THEN c ELSE inode[j]
    BY <1>0, <2>1, <2>2 DEF c
  <2>4. \A j \in Inodes : inode'[j].whole => inode'[j].build \in Good
    BY <2>2, <2>3 DEF UpgradeInv
  <2>5. ~overlap => /\ f = new /\ new # bin /\ new # NoInode /\ ~inode[new].whole
                    /\ inode[bin].whole /\ upd[p].cur = inode[bin].ver
                    /\ \A q \in Procs : q # p => upd[q].pc = "idle"
    BY <2>0 DEF UpgradeInv, OwnsNew
  <2>6. ~overlap => inode'[bin] = inode[bin] /\ inode'[new] = c
    BY <1>0, <2>3, <2>5
  <2>7. PICK u \in Update :
          /\ upd' = [upd EXCEPT ![p] = u] /\ Chosen(u) /\ last' \in Outcomes
          /\ u.pc = "idle" \/ (u.pc = "rename" /\ u.rel = upd[p].rel /\ u.cur = upd[p].cur
                               /\ (w \/ inode[f].whole))
    <3>1. CASE Return(p, "error")
      BY <1>r, <3>1, IdleType DEF Return
    <3>2. CASE /\ upd' = [upd EXCEPT ![p].pc = "rename", ![p].fd = NoInode]
               /\ UNCHANGED last /\ (w \/ inode[upd[p].fd].whole)
      <4> DEFINE u == [upd[p] EXCEPT !.pc = "rename", !.fd = NoInode]
      <4>1. u \in Update
        BY <1>0 DEF Update, Labels
      <4>2. upd' = [upd EXCEPT ![p] = u]
        BY <1>0, <3>2
      <4>3. /\ u.pc = "rename" /\ u.rel = upd[p].rel /\ u.cur = upd[p].cur
            /\ u.force = upd[p].force /\ u.got = upd[p].got
        BY <1>0 DEF Update
      <4>4. Chosen(u)
        BY <2>0, <4>3 DEF UpgradeInv, Chosen
      <4>5. last' \in Outcomes
        BY <3>2 DEF TypeOK
      <4> HIDE DEF u
      <4> QED BY <3>2, <4>1, <4>2, <4>3, <4>4, <4>5
    <3> QED BY <2>1, <3>1, <3>2
  <2>8. /\ upd' \in [Procs -> Update] /\ upd'[p] = u
        /\ \A q \in Procs : q # p => upd'[q] = upd[q]
    BY <1>0, <2>7, PutUpdate
  <2>9. TypeOK'
    BY <2>0, <2>3, <2>7, <2>8 DEF TypeOK, releases
  <2>10. \A q \in Procs : Chosen(upd'[q])
    BY <2>7, <2>8 DEF UpgradeInv
  <2>11. ASSUME ~overlap
         PROVE  /\ \A q, r \in Procs : upd'[q].pc # "idle" /\ upd'[r].pc # "idle" => q = r
                /\ inode'[bin].whole /\ \A q \in Procs : OwnsNew(upd[q])'
    <3>1. \A q \in Procs : q # p => upd'[q].pc = "idle"
      BY <2>5, <2>8, <2>11
    <3>2. OwnsNew(upd[p])'
      BY <2>0, <2>2, <2>5, <2>6, <2>7, <2>8, <2>11 DEF OwnsNew
    <3>3. \A q \in Procs : q # p => OwnsNew(upd[q])'
      BY <3>1 DEF OwnsNew
    <3> QED BY <2>5, <2>6, <2>11, <3>1, <3>2, <3>3
  <2> QED BY <2>0, <2>4, <2>5, <2>9, <2>10, <2>11 DEF UpgradeInv, Chosen
<1>10. ASSUME NEW p \in Procs, Rename(p) PROVE TypeOK' /\ UpgradeInv'
  <2>0. UNCHANGED <<releases, overlap>> /\ upd[p].pc = "rename"
    BY <1>10 DEF Rename
  <2>1. CASE Goto(p, "remove") /\ UNCHANGED <<inode, bin, new>>
    <3> DEFINE u == [upd[p] EXCEPT !.pc = "remove"]
    <3>1. u \in Update
      BY <1>0 DEF Update, Labels
    <3>2. upd' = [upd EXCEPT ![p] = u] /\ last' = last
      BY <1>0, <2>1 DEF Goto
    <3>3. /\ u.pc = "remove" /\ u.rel = upd[p].rel /\ u.cur = upd[p].cur
          /\ u.force = upd[p].force
      BY <1>0 DEF Update
    <3>4. Chosen(u)
      BY <2>0, <3>3 DEF UpgradeInv, Chosen
    <3>5. ~overlap => OwnsNew(u) /\ \A q \in Procs : q # p => upd[q].pc = "idle"
      BY <2>0, <3>3 DEF UpgradeInv, OwnsNew
    <3>6. last' \in Outcomes
      BY <3>2 DEF TypeOK
    <3> HIDE DEF u
    <3> QED BY <2>0, <2>1, <3>1, <3>2, <3>4, <3>5, <3>6, KeepInv
  <2>2. CASE /\ new # NoInode /\ bin' = new /\ new' = NoInode
             /\ inode' = [inode EXCEPT ![bin] = Unlinked] /\ Goto(p, "report")
    <3> DEFINE u == [upd[p] EXCEPT !.pc = "report"]
    <3>1. u \in Update
      BY <1>0 DEF Update, Labels
    <3>2. upd' = [upd EXCEPT ![p] = u] /\ last' = last
      BY <1>0, <2>2 DEF Goto
    <3>3. u.pc = "report" /\ u.rel = upd[p].rel
      BY <1>0 DEF Update
    <3>4. Chosen(u)
      BY <3>3 DEF Chosen
    <3> HIDE DEF u
    <3>5. /\ upd' \in [Procs -> Update] /\ upd'[p] = u
          /\ \A q \in Procs : q # p => upd'[q] = upd[q]
      BY <1>0, <3>1, <3>2, PutUpdate
    <3>6. /\ inode' \in [Inodes -> Content] /\ bin' \in Inodes
          /\ \A j \in Inodes : inode'[j] = IF j = bin THEN Unlinked ELSE inode[j]
      BY <1>0, <2>2, IdleType
    <3>7. TypeOK'
      BY <2>0, <2>2, <3>2, <3>5, <3>6 DEF TypeOK, releases
    <3>8. \A q \in Procs : Chosen(upd'[q])
      BY <3>4, <3>5 DEF UpgradeInv
    <3>9. \A j \in Inodes : inode'[j].whole => inode'[j].build \in Good
      BY <3>6, IdleType DEF UpgradeInv
    <3>10. ASSUME ~overlap
           PROVE  /\ \A q \in Procs : q # p => upd'[q].pc = "idle"
                  /\ inode'[bin'].whole /\ new' # bin' /\ inode'[bin'].ver = u.rel
      <4>1. /\ new # bin /\ inode[new].whole /\ inode[new].ver = upd[p].rel
            /\ \A q \in Procs : q # p => upd[q].pc = "idle"
        BY <2>0, <3>10 DEF UpgradeInv, OwnsNew
      <4> QED BY <2>2, <3>3, <3>5, <3>6, <4>1
    <3>11. ~overlap => \A q \in Procs : OwnsNew(upd[q])'
      BY <3>3, <3>5, <3>10 DEF OwnsNew
    <3> QED BY <2>0, <3>7, <3>8, <3>9, <3>10, <3>11 DEF UpgradeInv, Chosen
  <2> QED BY <1>10, <2>1, <2>2 DEF Rename
<1>11. ASSUME NEW p \in Procs, Remove(p) PROVE TypeOK' /\ UpgradeInv'
  <2>0. UNCHANGED <<releases, bin, overlap>> /\ upd[p].pc = "remove" /\ Return(p, "error")
    BY <1>11 DEF Remove
  <2>1. CASE UNCHANGED <<new, inode>>
    BY <1>r, <2>0, <2>1, ReturnInv
  <2>2. CASE new # NoInode /\ new' = NoInode /\ inode' = [inode EXCEPT ![new] = Unlinked]
    <3>1. upd' = [upd EXCEPT ![p] = Idle] /\ last' \in Outcomes
      BY <1>r, <2>0 DEF Return
    <3>2. /\ upd' \in [Procs -> Update] /\ upd'[p] = Idle
          /\ \A q \in Procs : q # p => upd'[q] = upd[q]
      BY <1>0, <3>1, IdleType, PutUpdate
    <3>3. /\ inode' \in [Inodes -> Content]
          /\ \A j \in Inodes : inode'[j] = IF j = new THEN Unlinked ELSE inode[j]
      BY <1>0, <2>2, IdleType
    <3>4. TypeOK'
      BY <2>0, <2>2, <3>1, <3>2, <3>3 DEF TypeOK, releases
    <3>5. \A q \in Procs : Chosen(upd'[q])
      BY <3>2, IdleType DEF UpgradeInv
    <3>6. \A j \in Inodes : inode'[j].whole => inode'[j].build \in Good
      BY <3>3, IdleType DEF UpgradeInv
    <3>7. ASSUME ~overlap
          PROVE  /\ \A q \in Procs : upd'[q].pc = "idle"
                 /\ inode'[bin].whole /\ new' # bin
      <4>1. new # bin /\ inode[bin].whole /\ \A q \in Procs : q # p => upd[q].pc = "idle"
        BY <2>0, <3>7 DEF UpgradeInv
      <4> QED BY <1>0, <2>2, <3>2, <3>3, <4>1, IdleType, NamesAssumption
    <3>8. ~overlap => \A q \in Procs : OwnsNew(upd[q])'
      BY <3>7 DEF OwnsNew
    <3> QED BY <2>0, <3>4, <3>5, <3>6, <3>7, <3>8 DEF UpgradeInv, Chosen
  <2> QED BY <1>11, <2>1, <2>2 DEF Remove
<1>12. ASSUME NEW p \in Procs, Kill(p) PROVE TypeOK' /\ UpgradeInv'
  BY <1>r, <1>12, ReturnInv DEF Kill
<1>13. ASSUME NEW p \in Procs, Report(p) PROVE TypeOK' /\ UpgradeInv'
  BY <1>r, <1>13, ReturnInv DEF Report
<1> QED BY <1>1, <1>2, <1>3, <1>4, <1>5, <1>6, <1>7, <1>8, <1>9, <1>10, <1>11, <1>12,
           <1>13
        DEF Next, Step

-----------------------------------------------------------------------------
(* The theorems.                                                           *)

\* Every behaviour keeps the types and the invariant.
THEOREM UpgradeInvariant == Spec => [](TypeOK /\ UpgradeInv)
BY InitInv, StepInv, PTL DEF Spec

\* The type invariant, however many upgrades run, fail and are killed.
THEOREM UpgradeTypes == Spec => []TypeOK
BY UpgradeInvariant, PTL

\* Apply's rename is atomic: one upgrade at a time never leaves a partial binary
\* at binPath, wherever it is killed or fails.
THEOREM BinaryWhole == Spec => []BinaryIsWhole
<1>1. UpgradeInv => BinaryIsWhole
  BY DEF UpgradeInv, BinaryIsWhole
<1> QED BY <1>1, UpgradeInvariant, PTL

\* Apply's checksum holds however many upgrades share the .new file.
THEOREM BinaryVerified == Spec => []BinaryIsVerified
<1>1. TypeOK /\ UpgradeInv => BinaryIsVerified
  BY DEF TypeOK, UpgradeInv, BinaryIsVerified
<1> QED BY <1>1, UpgradeInvariant, PTL

\* upgrade without --force never installs an older version, nor the same again.
THEOREM Forward == Spec => OnlyForward
<1> DEFINE A == ~overlap /\ bin' # bin =>
                  \E p \in Procs : /\ upd[p].pc = "rename" /\ upd'[p].pc = "report"
                                   /\ \/ upd[p].force
                                      \/ ~Comparable(inode[bin].ver, inode[new].ver)
                                      \/ Newer(inode[new].ver, inode[bin].ver)
<1>1. TypeOK /\ UpgradeInv /\ [Next]_vars => [A]_vars
  <2> SUFFICES ASSUME TypeOK, UpgradeInv, Next, ~overlap, bin' # bin
               PROVE  \E p \in Procs : /\ upd[p].pc = "rename" /\ upd'[p].pc = "report"
                                       /\ \/ upd[p].force
                                          \/ ~Comparable(inode[bin].ver, inode[new].ver)
                                          \/ Newer(inode[new].ver, inode[bin].ver)
    BY DEF vars
  <2>1. PICK p \in Procs : Rename(p)
    BY DEF Next, Step, Announce, Upload, Begin, LatestRelease, FetchSums, FetchArchive,
           WriteFileOpen, WriteFileWrite, Remove, Report, Kill
  <2>2. upd[p].pc = "rename" /\ Goto(p, "report")
    BY <2>1 DEF Rename
  <2>3. upd'[p].pc = "report"
    BY <2>2 DEF Goto, TypeOK, Update
  <2>4. upd[p].cur = inode[bin].ver /\ upd[p].rel = inode[new].ver
    BY <2>2 DEF UpgradeInv, OwnsNew
  <2>5. upd[p].force \/ ~Comparable(upd[p].cur, upd[p].rel) \/ Newer(upd[p].rel, upd[p].cur)
    BY <2>2 DEF UpgradeInv, Chosen
  <2> QED BY <2>2, <2>3, <2>4, <2>5
<1> QED BY <1>1, UpgradeInvariant, PTL DEF Spec, OnlyForward

\* A command ends by a step of its own.
LEMMA EndsItself ==
    ASSUME upd \in [Procs -> Update], Next, NEW p \in Procs,
           upd[p].pc # "idle", upd'[p].pc = "idle"
    PROVE  Step(p) \/ Kill(p)
<1>1. /\ \A v \in Releases : ~Announce(v)
      /\ \A v \in Releases, a \in Assets : ~Upload(v, a)
  BY DEF Announce, Upload
<1>2. ASSUME NEW q \in Procs, NEW f \in BOOLEAN, NEW c \in BOOLEAN, Begin(q, f, c) PROVE FALSE
  <2>1. upd[q].pc = "idle" /\ \A r \in Procs : r # q => upd'[r] = upd[r]
    BY <1>2 DEF Begin
  <2>2. q = p
    BY <2>1
  <2> QED BY <2>1, <2>2
<1>3. PICK q \in Procs : Step(q) \/ Kill(q)
  BY <1>1, <1>2 DEF Next
<1>4. ASSUME q # p PROVE upd'[p] = upd[p]
  <2>1. CASE LatestRelease(q) \/ FetchSums(q) \/ FetchArchive(q)
    BY <1>4, <2>1 DEF LatestRelease, FetchSums, FetchArchive, Return
  <2>2. CASE WriteFileOpen(q) \/ WriteFileWrite(q)
    BY <1>4, <2>2 DEF WriteFileOpen, WriteFileWrite, Return
  <2>3. CASE Rename(q) \/ Remove(q) \/ Report(q) \/ Kill(q)
    BY <1>4, <2>3 DEF Rename, Remove, Report, Kill, Goto, Return
  <2> QED BY <1>3, <2>1, <2>2, <2>3 DEF Step
<1> QED BY <1>3, <1>4

\* Only LatestRelease, Report and a kill can end a command with something else
\* than an error.
LEMMA EndsHow ==
    ASSUME upd \in [Procs -> Update], NEW p \in Procs,
           upd[p].pc # "idle", upd'[p].pc = "idle",
           \/ FetchSums(p) \/ FetchArchive(p) \/ WriteFileOpen(p) \/ WriteFileWrite(p)
           \/ Remove(p)
    PROVE  last' = "error"
<1>1. CASE FetchSums(p)
  BY <1>1 DEF FetchSums, Return, Update
<1>2. CASE FetchArchive(p)
  <2>1. CASE Return(p, "error")
    BY <2>1 DEF Return
  <2>2. ASSUME NEW got, upd' = [upd EXCEPT ![p].pc = "open", ![p].got = got, ![p].want = Absent]
        PROVE  FALSE
    BY <2>2 DEF Update
  <2> QED BY <1>2, <2>1, <2>2 DEF FetchArchive
<1>3. CASE WriteFileOpen(p)
  <2>1. CASE Return(p, "error")
    BY <2>1 DEF Return
  <2>2. ASSUME NEW i, upd' = [upd EXCEPT ![p].pc = "write", ![p].fd = i]
        PROVE  FALSE
    BY <2>2 DEF Update
  <2> QED BY <1>3, <2>1, <2>2 DEF WriteFileOpen
<1>4. CASE WriteFileWrite(p)
  <2>1. CASE Return(p, "error")
    BY <2>1 DEF Return
  <2>2. CASE upd' = [upd EXCEPT ![p].pc = "rename", ![p].fd = NoInode]
    BY <2>2 DEF Update
  <2> QED BY <1>4, <2>1, <2>2 DEF WriteFileWrite
<1>5. CASE Remove(p)
  BY <1>5 DEF Remove, Return
<1> QED BY <1>1, <1>2, <1>3, <1>4, <1>5

\* What upgrade reports is what is installed, and a kill leaves the old binary or
\* the new one.
THEOREM Reports == Spec => ReportIsTrue
<1> DEFINE A == ~overlap => \A p \in Procs, how \in Outcomes :
                   Ends(p, how) => inode'[bin'].ver \in LeftAs(upd[p], how)
<1>1. TypeOK /\ UpgradeInv /\ [Next]_vars => [A]_vars
  <2> SUFFICES ASSUME TypeOK, UpgradeInv, Next, ~overlap,
                      NEW p \in Procs, NEW how \in Outcomes, Ends(p, how)
               PROVE  inode'[bin'].ver \in LeftAs(upd[p], how)
    BY DEF vars
  <2>0. upd[p].pc # "idle" /\ upd'[p].pc = "idle" /\ last' = how /\ upd \in [Procs -> Update]
    BY DEF Ends, TypeOK
  <2>1. /\ upd[p].pc # "report" => upd[p].cur = inode[bin].ver
        /\ upd[p].pc = "report" => upd[p].rel = inode[bin].ver
        /\ new # bin
    BY <2>0 DEF UpgradeInv, OwnsNew
  <2>2. ~Rename(p)
    <3>1. ASSUME Goto(p, "report") \/ Goto(p, "remove") PROVE upd'[p].pc # "idle"
      BY <2>0, <3>1 DEF Goto, Update
    <3> QED BY <2>0, <3>1 DEF Rename
  <2>3. \/ LatestRelease(p) \/ FetchSums(p) \/ FetchArchive(p) \/ WriteFileOpen(p)
        \/ WriteFileWrite(p) \/ Remove(p) \/ Report(p) \/ Kill(p)
    BY <2>0, <2>2, EndsItself DEF Step
  <2>4. bin' = bin
    BY <2>3 DEF LatestRelease, FetchSums, FetchArchive, WriteFileOpen, WriteFileWrite, Remove,
                Report, Kill
  <2>5. inode'[bin] = inode[bin]
    <3>1. CASE WriteFileWrite(p)
      <4>1. upd[p].fd = new /\ new # bin
        BY <2>1, <3>1 DEF WriteFileWrite, UpgradeInv, OwnsNew
      <4> QED BY <3>1, <4>1 DEF WriteFileWrite, TypeOK
    <3>2. CASE Remove(p)
      BY <2>1, <3>2 DEF Remove, TypeOK
    <3>3. CASE WriteFileOpen(p)
      BY <2>1, <3>3 DEF WriteFileOpen, TypeOK, Unused
    <3> QED BY <2>3, <3>1, <3>2, <3>3
            DEF Report, Kill, LatestRelease, FetchSums, FetchArchive
  <2>6. CASE Report(p)
    BY <2>0, <2>1, <2>4, <2>5, <2>6 DEF Report, Return, LeftAs
  <2>7. CASE Kill(p)
    BY <2>0, <2>1, <2>4, <2>5, <2>7 DEF Kill, Return, LeftAs
  <2>8. CASE ~Report(p) /\ ~Kill(p)
    <3>1. upd[p].pc # "report"
      BY <2>3, <2>8 DEF LatestRelease, FetchSums, FetchArchive, WriteFileOpen, WriteFileWrite,
                        Remove
    <3>2. how # "installed" /\ how # "killed"
      <4>1. CASE LatestRelease(p)
        BY <2>0, <4>1 DEF LatestRelease, Return, Update
      <4>2. CASE ~LatestRelease(p)
        BY <2>0, <2>3, <2>8, <4>2, EndsHow
      <4> QED BY <4>1, <4>2
    <3> QED BY <2>1, <2>4, <2>5, <3>1, <3>2 DEF LeftAs
  <2> QED BY <2>6, <2>7, <2>8
<1> QED BY <1>1, UpgradeInvariant, PTL DEF Spec, ReportIsTrue

\* "already up to date" is never said while there is a newer release.
THEOREM Current == Spec => CurrentIsNewest
<1> DEFINE A == \A p \in Procs : Ends(p, "current") =>
                    upd[p].cur.suffix \/ ~Newer(latest, upd[p].cur)
<1>1. TypeOK /\ UpgradeInv /\ [Next]_vars => [A]_vars
  <2> SUFFICES ASSUME TypeOK, Next, NEW p \in Procs, Ends(p, "current")
               PROVE  upd[p].cur.suffix \/ ~Newer(latest, upd[p].cur)
    BY DEF vars
  <2>0. upd[p].pc # "idle" /\ upd'[p].pc = "idle" /\ last' = "current" /\ upd \in [Procs -> Update]
    BY DEF Ends, TypeOK
  <2>1. CASE LatestRelease(p)
    <3>1. UpToDate(upd[p].cur, latest, upd[p].force)
      BY <2>0, <2>1 DEF LatestRelease, Return, Update
    <3>2. Comparable(upd[p].cur, latest) /\ Compare(upd[p].cur, latest) >= 0 /\ upd[p].cur # Dev
      BY <3>1 DEF UpToDate
    <3>3. upd[p].cur \in Versions
      BY <2>0 DEF Update
    <3>4. upd[p].cur \in Version /\ latest \in Version
      BY <3>2, <3>3, NamesAssumption DEF Versions, TypeOK
    <3> QED BY <3>2, <3>4, CompareDecides
  <2>2. CASE ~LatestRelease(p)
    <3>1. CASE Rename(p)
      <4>1. ASSUME Goto(p, "report") \/ Goto(p, "remove") PROVE upd'[p].pc # "idle"
        BY <2>0, <4>1 DEF Goto, Update
      <4> QED BY <2>0, <3>1, <4>1 DEF Rename
    <3>2. CASE Report(p) \/ Kill(p)
      BY <2>0, <3>2 DEF Report, Kill, Return
    <3>3. CASE ~Rename(p) /\ ~Report(p) /\ ~Kill(p)
      BY <2>0, <2>2, <3>3, EndsItself, EndsHow DEF Step
    <3> QED BY <3>1, <3>2, <3>3
  <2> QED BY <2>1, <2>2
<1> QED BY <1>1, UpgradeInvariant, PTL DEF Spec, CurrentIsNewest
=============================================================================
