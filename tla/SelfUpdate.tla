----------------------------- MODULE SelfUpdate -----------------------------
(***************************************************************************)
(* `multibird upgrade` (cmd/multibird, internal/selfupdate): ask GitHub    *)
(* for the latest release, fetch checksums.txt and the archive, verify,    *)
(* write the binary to <binPath>.new and rename it over binPath.  Every    *)
(* upgrade is a process of its own: it may be killed, its calls may fail,  *)
(* the releases may change while it runs, and another upgrade may use the  *)
(* same .new file.  Files are inodes, because a process that has the .new  *)
(* file open keeps writing to it wherever it has been renamed to.          *)
(***************************************************************************)
EXTENDS Versions

CONSTANTS
    Procs,          \* `multibird upgrade` processes
    Inodes,         \* files in binPath's directory
    NoInode,        \* the directory has no such entry
    Releases,       \* the versions GitHub has releases of
    Starts,         \* the versions the installed binary may have at first
    Good,           \* archives with the platform's multibird in them
    Empty,          \* archives without it
    Damaged,        \* an archive, or a download of one, that is not what was built
    Absent,         \* an asset the release does not have, a line checksums.txt lacks
    MaxChanges      \* how often the releases change

ASSUME NamesAssumption == /\ NoInode \notin Inodes
                          /\ Releases \cup Starts \subseteq Version
                          /\ Absent \notin Good \cup Empty \cup {Damaged}
                          /\ Damaged \notin Good \cup Empty
                          /\ Good \cap Empty = {}
                          /\ MaxChanges \in Nat

Builds == Good \cup Empty
Archives == Builds \cup {Damaged}
Labels == {"idle", "latest", "sums", "archive", "open", "write", "rename", "remove", "report"}

\* What is in a file: the binary of one release, all of it or not.
Versions == Releases \cup Starts \cup {Dev}
Content == [ver : Versions, build : Archives, whole : BOOLEAN]
\* A file without a name: its content no longer matters.
Unlinked == [ver |-> Dev, build |-> Damaged, whole |-> FALSE]

VARIABLES
    site,       \* site[v]: the assets of release v, by what they hold
    latest,     \* the release GitHub calls the latest
    changes,    \* how often the releases have changed
    inode,      \* inode[i]: the content of file i
    bin, new,   \* the files that binPath and binPath.new name
    upd,        \* upd[p]: the progress of process p
    last,       \* the upgrade that returned last, and how
    overlap     \* whether upgrades may run at the same time

vars == <<site, latest, changes, inode, bin, new, upd, last, overlap>>
releases == <<site, latest, changes>>

Assets == [archive : Archives \cup {Absent}, sums : Builds \cup {Absent}]
Update == [pc : Labels, force : BOOLEAN, check : BOOLEAN, cur : Versions, rel : Versions,
           want : Builds \cup {Absent}, got : Archives \cup {Absent},
           fd : Inodes \cup {NoInode}]
Idle == [pc |-> "idle", force |-> FALSE, check |-> FALSE, cur |-> Dev, rel |-> Dev,
         want |-> Absent, got |-> Absent, fd |-> NoInode]
Outcomes == {"none", "killed", "error", "current", "available", "installed"}

Init ==
    /\ \E b \in Good : site = [v \in Releases |-> [archive |-> b, sums |-> b]]
    /\ latest \in Releases
    /\ changes = 0
    /\ \E v \in Starts, b \in Good, i \in Inodes :
         /\ inode = [j \in Inodes |-> IF j = i THEN [ver |-> v, build |-> b, whole |-> TRUE]
                                       ELSE Unlinked]
         /\ bin = i
    /\ new = NoInode
    /\ upd = [p \in Procs |-> Idle]
    /\ last = "none"
    /\ overlap \in BOOLEAN

-----------------------------------------------------------------------------
(* GitHub.                                                                 *)

\* A release becomes the latest one: a new one, or an old one because the newest
\* was withdrawn.
Announce(v) ==
    /\ changes < MaxChanges /\ changes' = changes + 1
    /\ latest' = v
    /\ UNCHANGED <<site, inode, bin, new, upd, last, overlap>>

\* An asset of a release is uploaded, replaced or deleted.  Archive and
\* checksums.txt are two uploads; checksums.txt is made from what was built.
Upload(v, a) ==
    /\ changes < MaxChanges /\ changes' = changes + 1
    /\ a.archive = site[v].archive \/ a.sums = site[v].sums
    /\ site' = [site EXCEPT ![v] = a]
    /\ UNCHANGED <<latest, inode, bin, new, upd, last, overlap>>

-----------------------------------------------------------------------------
(* The command.                                                            *)

Goto(p, l) == upd' = [upd EXCEPT ![p].pc = l] /\ UNCHANGED last

Return(p, how) ==
    /\ upd' = [upd EXCEPT ![p] = Idle]
    /\ last' = how

\* The command starts from binPath, so it knows the version of what is there.
Begin(p, force, check) ==
    /\ upd[p].pc = "idle"
    /\ overlap \/ \A q \in Procs : upd[q].pc = "idle"
    /\ inode[bin].whole
    /\ upd' = [upd EXCEPT ![p] = [Idle EXCEPT !.pc = "latest", !.cur = inode[bin].ver,
                                             !.force = force, !.check = check]]
    /\ UNCHANGED <<releases, inode, bin, new, last, overlap>>

\* Mutant: any other version than the running one is an upgrade.
RefuseIfSame(cur, rel, force) == cur = rel /\ ~force

\* A released binary is replaced by a newer one only, unless --force says so or
\* the versions cannot be compared.
UpToDate(cur, rel, force) ==
    /\ cur # Dev
    /\ Comparable(cur, rel) /\ Compare(cur, rel) >= 0
    /\ ~force

\* LatestRelease, what upgrade makes of its answer, and the checks of Apply that
\* need the list of assets only.
LatestRelease(p) ==
    /\ upd[p].pc = "latest"
    /\ \/ Return(p, "error")
       \/ LET cur     == upd[p].cur
              source  == cur = Dev /\ ~upd[p].force
              current == UpToDate(cur, latest, upd[p].force)
              listed  == Absent \notin {site[latest].archive, site[latest].sums}
          IN  \/ source /\ Return(p, "error")
              \/ current /\ Return(p, "current")
              \/ ~source /\ ~current /\ upd[p].check /\ Return(p, "available")
              \/ ~source /\ ~current /\ ~upd[p].check /\ ~listed /\ Return(p, "error")
              \/ /\ ~source /\ ~current /\ ~upd[p].check /\ listed
                 /\ upd' = [upd EXCEPT ![p].pc = "sums", ![p].rel = latest]
                 /\ UNCHANGED last
    /\ UNCHANGED <<releases, inode, bin, new, overlap>>

\* checksums.txt: the download may fail, and the line for the archive be missing.
FetchSums(p) ==
    /\ upd[p].pc = "sums"
    /\ \/ Return(p, "error")
       \/ /\ site[upd[p].rel].sums # Absent
          /\ upd' = [upd EXCEPT ![p].pc = "archive", ![p].want = site[upd[p].rel].sums]
          /\ UNCHANGED last
    /\ UNCHANGED <<releases, inode, bin, new, overlap>>

\* Mutant: nobody compares the digests.
VerifiedAlways(want, got) == TRUE

\* The digest of what was fetched is the one checksums.txt has.
Verified(want, got) == got = want

\* The archive: the download may fail or be damaged; it is verified, and the
\* binary extracted from it in memory.
FetchArchive(p) ==
    /\ upd[p].pc = "archive"
    /\ \/ Return(p, "error")
       \/ \E got \in {site[upd[p].rel].archive, Damaged} \ {Absent} :
            /\ Verified(upd[p].want, got) /\ got \notin Empty
            /\ upd' = [upd EXCEPT ![p].pc = "open", ![p].got = got, ![p].want = Absent]
            /\ UNCHANGED last
    /\ UNCHANGED <<releases, inode, bin, new, overlap>>

\* The inodes no directory entry and no process holds.
Unused == {i \in Inodes : i \notin {bin, new} /\ \A q \in Procs : upd[q].fd # i}

Binary(p) == [ver |-> upd[p].rel, build |-> upd[p].got, whole |-> TRUE]

\* os.WriteFile of <binPath>.new opens with O_CREATE and O_TRUNC and not O_EXCL:
\* a file somebody left there, or still writes, is emptied and used.
WriteFileOpen(p) ==
    /\ upd[p].pc = "open"
    /\ \/ Return(p, "error") /\ UNCHANGED <<inode, new>>
       \/ \E i \in IF new = NoInode THEN Unused ELSE {new} :
            /\ new' = i
            /\ inode' = [inode EXCEPT ![i] = [Binary(p) EXCEPT !.whole = FALSE]]
            /\ upd' = [upd EXCEPT ![p].pc = "write", ![p].fd = i]
            /\ UNCHANGED last
    /\ UNCHANGED <<releases, bin, overlap>>

\* Mutant: a write that failed goes on to the rename.
WriteFileWriteOn(p) ==
    /\ upd[p].pc = "write"
    /\ \E w \in BOOLEAN : inode' = [inode EXCEPT ![upd[p].fd] = [Binary(p) EXCEPT !.whole = w]]
    /\ Goto(p, "rename")
    /\ UNCHANGED <<releases, bin, new, overlap>>

\* ... then writes and closes.  The write may fail half way (the file stays).  If
\* another process has written to the file in the meantime the result may be the
\* start of one binary and the end of the other.
WriteFileWrite(p) ==
    /\ upd[p].pc = "write"
    /\ \/ \E w \in BOOLEAN :
            /\ w \/ inode[upd[p].fd].whole
            /\ inode' = [inode EXCEPT ![upd[p].fd] = [Binary(p) EXCEPT !.whole = w]]
            /\ upd' = [upd EXCEPT ![p].pc = "rename", ![p].fd = NoInode]
            /\ UNCHANGED last
       \/ /\ inode' = [inode EXCEPT ![upd[p].fd] = [Binary(p) EXCEPT !.whole = FALSE]]
          /\ Return(p, "error")
    /\ UNCHANGED <<releases, bin, new, overlap>>

\* Mutant: an error of the rename is not looked at.
RenameUnchecked(p) ==
    /\ upd[p].pc = "rename"
    /\ \/ /\ new # NoInode /\ bin' = new /\ new' = NoInode
          /\ inode' = [inode EXCEPT ![bin] = Unlinked]
       \/ UNCHANGED <<inode, bin, new>>
    /\ Goto(p, "report")
    /\ UNCHANGED <<releases, overlap>>

\* os.Rename: the file binPath named is no longer linked.  Without a .new file,
\* or without permission, it fails.
Rename(p) ==
    /\ upd[p].pc = "rename"
    /\ \/ /\ new # NoInode
          /\ bin' = new /\ new' = NoInode
          /\ inode' = [inode EXCEPT ![bin] = Unlinked]
          /\ Goto(p, "report")
       \/ Goto(p, "remove") /\ UNCHANGED <<inode, bin, new>>
    /\ UNCHANGED <<releases, overlap>>

\* os.Remove of the .new file, whosever it is by now; its error is ignored.
Remove(p) ==
    /\ upd[p].pc = "remove"
    /\ \/ new # NoInode /\ new' = NoInode /\ inode' = [inode EXCEPT ![new] = Unlinked]
       \/ UNCHANGED <<new, inode>>
    /\ Return(p, "error")
    /\ UNCHANGED <<releases, bin, overlap>>

\* Apply has returned: "upgraded ... -> ..." is printed.
Report(p) ==
    /\ upd[p].pc = "report"
    /\ Return(p, "installed")
    /\ UNCHANGED <<releases, inode, bin, new, overlap>>

\* The process is killed.
Kill(p) ==
    /\ upd[p].pc # "idle"
    /\ Return(p, "killed")
    /\ UNCHANGED <<releases, inode, bin, new, overlap>>

Step(p) == \/ LatestRelease(p) \/ FetchSums(p) \/ FetchArchive(p)
           \/ WriteFileOpen(p) \/ WriteFileWrite(p) \/ Rename(p) \/ Remove(p)
           \/ Report(p)

Next == \/ \E v \in Releases : Announce(v)
        \/ \E v \in Releases, a \in Assets : Upload(v, a)
        \/ \E p \in Procs, force, check \in BOOLEAN : Begin(p, force, check)
        \/ \E p \in Procs : Step(p) \/ Kill(p)

Spec == Init /\ [][Next]_vars

-----------------------------------------------------------------------------
(* Properties.                                                             *)

TypeOK ==
    /\ site \in [Releases -> Assets] /\ latest \in Releases /\ changes \in 0..MaxChanges
    /\ inode \in [Inodes -> Content] /\ bin \in Inodes /\ new \in Inodes \cup {NoInode}
    /\ upd \in [Procs -> Update]
    /\ last \in Outcomes
    /\ overlap \in BOOLEAN

\* selfupdate.go: "atomically replaces binPath": with one upgrade at a time the
\* file at binPath is a complete binary at every moment, wherever upgrades are
\* killed, their writes fail or the releases change under them.  (Two upgrades
\* break it: one renames the .new file that the other has just emptied.)
BinaryIsWhole == ~overlap => inode[bin].whole

\* "refusing to install unverifiable binary": however many upgrades run, a
\* complete file at binPath is one that was built and released, never a damaged
\* archive's and never one checksums.txt did not list.
BinaryIsVerified == inode[bin].whole => inode[bin].build \in Good

\* Without --force an upgrade never installs an older or the same version over
\* the one it finds at the moment of the rename, if both can be compared.
OnlyForward ==
    [][~overlap /\ bin' # bin =>
         \E p \in Procs : /\ upd[p].pc = "rename" /\ upd'[p].pc = "report"
                          /\ \/ upd[p].force
                             \/ ~Comparable(inode[bin].ver, inode[new].ver)
                             \/ Newer(inode[new].ver, inode[bin].ver)]_vars

\* The command of p ends with outcome how in this step.
Ends(p, how) == upd[p].pc # "idle" /\ upd'[p].pc = "idle" /\ last' = how

\* The versions that may be at binPath when a command of u ends with outcome how.
LeftAs(u, how) == CASE how = "installed" -> {u.rel}
                    [] how = "killed"    -> {u.cur, u.rel}
                    [] OTHER             -> {u.cur}

\* What the command prints is true: after "upgraded" binPath is the release it
\* named, after an error or "already up to date" the binary the command was
\* started from; a killed command leaves one of these two and no third version.
ReportIsTrue ==
    [][~overlap => \A p \in Procs, how \in Outcomes :
          Ends(p, how) => inode'[bin'].ver \in LeftAs(upd[p], how)]_vars

\* "already up to date" is never said while the latest release is newer; only a
\* version with a suffix (0.3.0-rc1) is taken for the release itself.
CurrentIsNewest ==
    [][\A p \in Procs : Ends(p, "current") =>
          upd[p].cur.suffix \/ ~Newer(latest, upd[p].cur)]_vars

\* The inductive invariant behind these.  A command that got past the comparison
\* may install what it chose, and past the verification has a good archive; with
\* one command at a time the .new file is its own, empty until it has been
\* written and whole from then on.
Chosen(u) ==
    /\ u.pc \in {"sums", "archive", "open", "write", "rename", "remove"} =>
           /\ u.rel \in Releases
           /\ u.force \/ ~Comparable(u.cur, u.rel) \/ Newer(u.rel, u.cur)
    /\ u.pc \in {"open", "write", "rename"} => u.got \in Good

OwnsNew(u) ==
    /\ u.pc \notin {"idle", "report"} => u.cur = inode[bin].ver
    /\ u.pc = "report" => u.rel = inode[bin].ver
    /\ u.pc = "write" => u.fd = new /\ new # NoInode /\ ~inode[new].whole
    /\ u.pc = "rename" => new # NoInode /\ inode[new].whole /\ inode[new].ver = u.rel

UpgradeInv ==
    /\ \A i \in Inodes : inode[i].whole => inode[i].build \in Good
    /\ \A p \in Procs : Chosen(upd[p])
    /\ ~overlap => /\ \A p, q \in Procs : upd[p].pc # "idle" /\ upd[q].pc # "idle" => p = q
                   /\ inode[bin].whole /\ new # bin
                   /\ \A p \in Procs : OwnsNew(upd[p])
=============================================================================
