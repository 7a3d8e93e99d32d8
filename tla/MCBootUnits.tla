---------------------------- MODULE MCBootUnits ----------------------------
EXTENDS BootUnits

Home == <<"home">>
DnswatchHome == <<"dnswatch", "home">>

\* One name alone, and two names that share a unit path under systemd.
MCNameSets == {{Home}, {Home, DnswatchHome}}
MCMayBe == [n \in {Home, DnswatchHome} |-> IF n = Home THEN InstStates ELSE {"native"}]
=============================================================================
