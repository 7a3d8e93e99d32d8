--------------------------- MODULE MCInstanceStore ---------------------------
(* Small instances of InstanceStore for TLC.                                *)
EXTENDS InstanceStore, TLC

CONSTANTS a, b, c   \* three instance names

MCNames == {a, b, c}

MCJobs ==
    [cmd : {"add"}, name : Names, port : {0}, mode : {"unset", "disabled"}]
    \cup [cmd : {"list"}, name : {a}, port : {NilPort}, mode : {"unset"}]
    \cup [cmd : {"set"}, name : Names, port : {0, 7}, mode : {"unset"}]
    \cup [cmd : {"set"}, name : Names, port : {NilPort}, mode : {"native"}]
    \cup [cmd : {"mark", "remove", "purge"}, name : Names, port : {NilPort}, mode : {"unset"}]

\* The command lines of StorePurge.
MCFewJobs ==
    {j \in MCJobs : \/ j.cmd \in {"add", "list", "purge", "remove"} /\ j.mode = "unset"
                    \/ j.cmd = "set" /\ j.port = 7}

Fresh == [dirs |-> {}, file |-> [n \in Names |-> "absent"], rec |-> [n \in Names |-> Zero]]

\* Files an old version left, one of each kind of pre-dns_mode setting.
Old == [dirs |-> {a, b},
        file |-> [n \in Names |-> IF n = c THEN "absent" ELSE "ok"],
        rec |-> [n \in Names |->
                   IF n = c THEN Zero
                   ELSE [Zero EXCEPT !.name = n, !.index = IF n = a THEN 1 ELSE 0,
                                     !.legacy = (n = a)]]]

MCSeeds == {Fresh, Old}
=============================================================================
