------------------------------ MODULE Registry ------------------------------
(***************************************************************************)
(* What the instance store promises its callers, as one atomic map from    *)
(* instance names to settings: registering takes the lowest free index,    *)
(* the index belongs to the instance until it is unregistered, a change of *)
(* settings or a login touches nothing else, and reading the registry (the *)
(* migration of old files included) changes nothing.                       *)
(***************************************************************************)
EXTENDS Integers, FiniteSets

CONSTANTS Names, Modes, NotRegistered

VARIABLE reg    \* reg[n]: the settings of n, or NotRegistered

Registered == {n \in Names : reg[n] # NotRegistered}

Used == {reg[n].index : n \in Registered}

Init == \A m, n \in Registered : reg[m].index = reg[n].index => m = n

\* add: a free name gets the lowest free index; the settings are the caller's.
Register(n) ==
    /\ n \in Registered' \ Registered
    /\ \E i \in 0..Cardinality(Names), mode \in Modes :
          /\ i \notin Used /\ \A j \in 0..(i - 1) : j \in Used
          /\ reg' = [reg EXCEPT ![n] = [index |-> i, port |-> reg'[n].port, mode |-> mode,
                                        loggedIn |-> FALSE]]

\* set: the port and the DNS mode, and nothing else.
Configure(n) ==
    /\ n \in Registered \cap Registered'
    /\ reg' = [reg EXCEPT ![n].port = reg'[n].port, ![n].mode = reg'[n].mode]

\* The first successful login of an instance is remembered.
RecordLogin(n) ==
    /\ n \in Registered
    /\ reg' = [reg EXCEPT ![n].loggedIn = TRUE]

Unregister(n) ==
    /\ n \in Registered
    /\ reg' = [reg EXCEPT ![n] = NotRegistered]

Next == \E n \in Names : Register(n) \/ Configure(n) \/ RecordLogin(n) \/ Unregister(n)

Spec == Init /\ [][Next]_reg
=============================================================================
