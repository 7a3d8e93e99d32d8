------------------------------ MODULE Versions ------------------------------
(***************************************************************************)
(* internal/version: the comparison of version strings.  A version string  *)
(* is the numbers between its dots and whether a "-" or "+" suffix follows *)
(* them; a leading "v" and blanks do not count.                            *)
(***************************************************************************)
EXTENDS Integers, Sequences, FiniteSetsExt

Version == [parts : Seq(Nat), suffix : BOOLEAN]

\* Version of a build from source: the string "dev", which is not x.y.z.
Dev == [parts |-> <<>>, suffix |-> FALSE]

\* parse returns an error unless there are three numbers.  The suffix is cut off.
parse(v) == v.parts
Parses(v) == Len(v.parts) = 3

\* Mutant: compares the last number that differs.
cmpLast(a, b) ==
    LET differ == {i \in 1..3 : a[i] # b[i]}
    IN  IF differ = {} THEN 0
        ELSE IF a[Max(differ)] < b[Max(differ)] THEN -1 ELSE 1

\* cmp: the first number that differs decides.
cmp(a, b) ==
    LET differ == {i \in 1..3 : a[i] # b[i]}
    IN  IF differ = {} THEN 0
        ELSE IF a[Min(differ)] < b[Min(differ)] THEN -1 ELSE 1

\* Compare returns no error, and what it returns then.
Comparable(v, w) == Parses(v) /\ Parses(w)
Compare(v, w) == cmp(parse(v), parse(w))

TestedMin == [parts |-> <<0, 77, 0>>, suffix |-> FALSE]
TestedMax == [parts |-> <<0, 77, 1>>, suffix |-> FALSE]

\* InTestedRange, for a version that parses.
InTestedRange(v) == /\ cmp(parse(v), parse(TestedMin)) >= 0
                    /\ cmp(parse(v), parse(TestedMax)) <= 0

\* What the order of versions is: lexicographic, and, as semver has it, a version
\* with a suffix before the one without.
Newer(v, w) ==
    \/ \E i \in 1..3 : /\ v.parts[i] > w.parts[i]
                       /\ \A j \in 1..3 : j < i => v.parts[j] = w.parts[j]
    \/ v.parts = w.parts /\ w.suffix /\ ~v.suffix
=============================================================================
