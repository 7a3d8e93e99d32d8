---------------------------- MODULE MCSelfUpdate ----------------------------
EXTENDS SelfUpdate, TLC

V(a, b, c) == [parts |-> <<a, b, c>>, suffix |-> FALSE]

\* Two versions that strings would order the other way round.
MCReleases == {V(0, 9, 1), V(0, 10, 0)}
\* A pre-release, a version that is not x.y.z, and a build from source.
MCStarts == {[V(0, 10, 0) EXCEPT !.suffix = TRUE], [parts |-> <<1, 0>>, suffix |-> FALSE], Dev}

Symmetry == Permutations(Inodes) \cup Permutations(Procs)
=============================================================================
