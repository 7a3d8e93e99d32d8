----------------------------- MODULE MCLifecycle -----------------------------
(* Small instances of Lifecycle for TLC: two ports, the modes that differ    *)
(* most ("disabled" is "native" with dnsOff, and never has keys).            *)
EXTENDS Lifecycle, TLC

MCPorts == {51900, 51901}
MCStockPort == 51820

Lines(cmds) == [cmd : cmds, mode : {"native"}, port : {51900}]

\* `add` and `set` with different settings, the other commands.
AddSet == [cmd : {"add"}, mode : {"multibird", "native"}, port : {51900}]
          \cup [cmd : {"set"}, mode : {"multibird", "native"}, port : MCPorts]
AllJobs == AddSet \cup Lines(Commands \ {"add", "set", "watch"})

\* The command lines of the two-process runs.
Multibird == [cmd : {"add"}, mode : {"multibird"}, port : {51900}]
ProgressJobs == Multibird \cup Lines({"up", "watch", "set", "status", "down", "nuke"})

AllFaults == Labels \cup {"crash", "daemon"}
\* Everything goes wrong; keys can be removed and daemons do not die by
\* themselves; and no command is cut off, either.
SerialFaults == {AllFaults,
                 AllFaults \ (KeySteps \cup {"daemon"}),
                 AllFaults \ (KeySteps \cup {"daemon", "crash"})}
ProgressFaults == {{}, {"daemon"}}

\* Nothing fails, and an up next to a remove.
NoFaults == {{}}
RemoveJobs == Multibird \cup Lines({"up", "remove"})
=============================================================================
