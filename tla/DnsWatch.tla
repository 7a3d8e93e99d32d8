------------------------------ MODULE DnsWatch ------------------------------
(***************************************************************************)
(* `multibird dns sync --watch` for one instance: watchOne, watchConnected *)
(* and the DNSSync they call (internal/ops/dns.go), with the goroutine that*)
(* receives the daemon's events, the bounded channel between the two, the  *)
(* debounce timer and the fallback poll.  Around them the daemon, whose    *)
(* mesh changes its DNS state (a version number here), emits events and    *)
(* comes and goes.                                                         *)
(***************************************************************************)
EXTENDS Naturals, Sequences

CONSTANTS
    Cap,            \* capacity of the events channel (8 in the code)
    FeedCap,        \* bound: events on their way in the gRPC stream
    MaxNet,         \* bound: changes of the mesh's DNS state
    Unusable,       \* the states of the mesh nothing is derived from
    MaxRestarts,    \* bound: times the daemon goes down
    FlakySets,      \* which calls may fail: one of these sets of apply, remove, status
    MaxFailures     \* bound: failing calls

ASSUME ParamsAssumption == /\ Cap \in Nat \ {0} /\ FeedCap \in Nat \ {0}
                           /\ {MaxNet, MaxRestarts, MaxFailures} \subseteq Nat
                           /\ Unusable \subseteq 0..MaxNet
                           /\ FlakySets \subseteq SUBSET {"apply", "remove", "status"}

Categories == {"dns", "other"}      \* NETWORK or DNS; all the others
NoKeys == MaxNet + 1                \* no host DNS keys registered
Versions == 0..MaxNet

Labels == {"loop", "dial", "subscribe", "select", "sleep",
           "check", "status", "apply", "done"}

VARIABLES
    daemon,     \* the daemon process is up
    net,        \* the DNS state its mesh serves
    restarts,   \* how often it went down
    stream,     \* the watcher's event stream: none, open or broken
    feed,       \* events sent on the stream and not received yet
    events,     \* the channel between the two goroutines
    failed,     \* errc holds the receiver's error
    pc,         \* where the watcher is
    ret,        \* where DNSSync returns to
    snap,       \* the state the last Status answer carried
    debounce,   \* the debounce timer is running
    cleaned,    \* downCleaned
    keys,       \* the state the host DNS keys were written from, or NoKeys
    failures,   \* how many calls have failed
    flaky       \* the calls that may fail, the same all the time

vars == <<daemon, net, restarts, stream, feed, events, failed,
          pc, ret, snap, debounce, cleaned, keys, failures, flaky>>
mesh == <<daemon, net, restarts, flaky>>
wire == <<stream, feed, events, failed>>

Init == /\ daemon = TRUE /\ net = 0 /\ restarts = 0
        /\ stream = "none" /\ feed = <<>> /\ events = <<>> /\ failed = FALSE
        /\ pc = "loop" /\ ret = "loop" /\ snap = 0
        /\ debounce = FALSE /\ cleaned = FALSE
        /\ keys = NoKeys /\ failures = 0 /\ flaky \in FlakySets

-----------------------------------------------------------------------------
Fails(call) == call \in flaky /\ failures < MaxFailures /\ failures' = failures + 1

\* RemoveHostDNS, by a caller that only warns when it fails.
RemoveKeys == \/ keys' = NoKeys /\ UNCHANGED failures
              \/ Fails("remove") /\ UNCHANGED keys

\* Mutant: downCleaned is not reset when the daemon is back.
LoopOnce ==
    /\ pc = "loop"
    /\ IF daemon
       THEN pc' = "dial" /\ UNCHANGED <<cleaned, keys, failures>>
       ELSE /\ pc' = "sleep" /\ cleaned' = TRUE
            /\ IF cleaned THEN UNCHANGED <<keys, failures>> ELSE RemoveKeys
    /\ UNCHANGED <<mesh, wire, ret, snap, debounce>>

\* watchOne, one turn: clean up once while the daemon is down, connect when up.
Loop ==
    /\ pc = "loop"
    /\ IF daemon
       THEN pc' = "dial" /\ cleaned' = FALSE /\ UNCHANGED <<keys, failures>>
       ELSE /\ pc' = "sleep" /\ cleaned' = TRUE
            /\ IF cleaned THEN UNCHANGED <<keys, failures>> ELSE RemoveKeys
    /\ UNCHANGED <<mesh, wire, ret, snap, debounce>>

\* sleepCtx(watchReconnect).
Sleep == /\ pc = "sleep" /\ pc' = "loop"
         /\ UNCHANGED <<mesh, wire, ret, snap, debounce, cleaned, keys, failures>>

\* watchConnected: the initial DNSSync comes BEFORE the subscription.
Dial == /\ pc = "dial" /\ pc' = "check" /\ ret' = "subscribe"
        /\ UNCHANGED <<mesh, wire, snap, debounce, cleaned, keys, failures>>

\* DNSSync: a daemon that is down has its keys removed ...
SyncCheck ==
    /\ pc = "check"
    /\ IF daemon
       THEN pc' = "status" /\ UNCHANGED <<keys, failures>>
       ELSE pc' = ret /\ RemoveKeys
    /\ UNCHANGED <<mesh, wire, ret, snap, debounce, cleaned>>

\* ... one that answers Status ...
SyncStatus ==
    /\ pc = "status"
    /\ \/ daemon /\ pc' = "apply" /\ snap' = net /\ UNCHANGED failures
       \/ ~daemon /\ pc' = ret /\ UNCHANGED <<snap, failures>>
       \/ Fails("status") /\ pc' = ret /\ UNCHANGED snap
    /\ UNCHANGED <<mesh, wire, ret, debounce, cleaned, keys>>

\* ... has them written from that answer, however old it is by now.  An answer
\* without an address (the engine is off or still connecting), with one that is
\* no CIDR or with a primary claim changes nothing, at this sync and at every
\* other as long as the mesh stays so.
SyncApply ==
    /\ pc = "apply" /\ pc' = ret
    /\ \/ snap \in Unusable /\ UNCHANGED <<keys, failures>>
       \/ snap \notin Unusable /\ keys' = snap /\ UNCHANGED failures
       \/ snap \notin Unusable /\ Fails("apply") /\ UNCHANGED keys
    /\ UNCHANGED <<mesh, wire, ret, snap, debounce, cleaned>>

\* Events(ctx): a new stream, a new channel, a new receiver goroutine.
Subscribe ==
    /\ pc = "subscribe"
    /\ feed' = <<>> /\ events' = <<>> /\ failed' = FALSE /\ debounce' = FALSE
    /\ IF daemon THEN stream' = "open" /\ pc' = "select"
                 ELSE stream' = "none" /\ pc' = "sleep"
    /\ UNCHANGED <<mesh, ret, snap, cleaned, keys, failures>>

\* The select of watchConnected: one ready case, any of them.
OnError ==
    /\ pc = "select" /\ failed
    /\ pc' = "sleep" /\ stream' = "none" /\ failed' = FALSE
    /\ feed' = <<>> /\ events' = <<>> /\ debounce' = FALSE
    /\ UNCHANGED <<mesh, ret, snap, cleaned, keys, failures>>

OnEvent ==
    /\ pc = "select" /\ events # <<>>
    /\ events' = Tail(events)
    /\ debounce' = (debounce \/ Head(events) = "dns")
    /\ UNCHANGED <<mesh, stream, feed, failed, pc, ret, snap, cleaned, keys, failures>>

OnDebounce ==
    /\ pc = "select" /\ debounce
    /\ debounce' = FALSE /\ pc' = "check" /\ ret' = "select"
    /\ UNCHANGED <<mesh, wire, snap, cleaned, keys, failures>>

\* Mutant: the ticker does nothing.
OnPollSkips == pc = "select" /\ UNCHANGED vars

OnPoll ==
    /\ pc = "select"
    /\ pc' = "check" /\ ret' = "select"
    /\ UNCHANGED <<mesh, wire, snap, debounce, cleaned, keys, failures>>

\* ctx is canceled: the select and the sleeps notice it, and the loop ends.
Cancel ==
    /\ pc \in {"loop", "sleep", "select"} /\ pc' = "done"
    /\ UNCHANGED <<mesh, wire, ret, snap, debounce, cleaned, keys, failures>>

Watcher == \/ Loop \/ Sleep \/ Dial \/ SyncCheck \/ SyncStatus \/ SyncApply
           \/ Subscribe \/ OnError \/ OnEvent \/ OnDebounce \/ OnPoll

\* The receiver: Recv, then a send that drops the event when the channel is full.
Receive ==
    /\ stream # "none" /\ feed # <<>>
    /\ feed' = Tail(feed)
    /\ events' = IF Len(events) < Cap THEN Append(events, Head(feed)) ELSE events
    /\ UNCHANGED <<mesh, stream, failed, pc, ret, snap, debounce, cleaned, keys, failures>>

\* Recv fails once the stream is broken and what was on its way is read.
ReceiveError ==
    /\ stream = "broken" /\ feed = <<>> /\ ~failed
    /\ failed' = TRUE
    /\ UNCHANGED <<mesh, stream, feed, events, pc, ret, snap, debounce, cleaned, keys, failures>>

-----------------------------------------------------------------------------
(* The daemon.                                                             *)

Emit(c) == feed' = IF stream = "open" THEN Append(feed, c) ELSE feed

\* The mesh's DNS state changes, and the daemon announces it, or does not.
NetChanges ==
    /\ daemon /\ net < MaxNet /\ Len(feed) < FeedCap
    /\ net' = net + 1 /\ (Emit("dns") \/ UNCHANGED feed)
    /\ UNCHANGED <<daemon, restarts, stream, events, failed, pc, ret, snap, debounce,
                   cleaned, keys, failures, flaky>>

\* Some other event (AUTHENTICATION, CONNECTIVITY, SYSTEM).
OtherEvent ==
    /\ daemon /\ stream = "open" /\ Len(feed) < FeedCap
    /\ Emit("other")
    /\ UNCHANGED <<mesh, stream, events, failed, pc, ret, snap, debounce, cleaned, keys, failures>>

DaemonDown ==
    /\ daemon /\ restarts < MaxRestarts
    /\ daemon' = FALSE /\ restarts' = restarts + 1
    /\ stream' = IF stream = "open" THEN "broken" ELSE stream
    /\ UNCHANGED <<net, feed, events, failed, pc, ret, snap, debounce, cleaned, keys, failures, flaky>>

DaemonUp ==
    /\ ~daemon /\ daemon' = TRUE
    /\ UNCHANGED <<net, restarts, wire, pc, ret, snap, debounce, cleaned, keys, failures, flaky>>

Next == \/ Watcher \/ Receive \/ ReceiveError \/ Cancel
        \/ NetChanges \/ OtherEvent \/ DaemonDown \/ DaemonUp

Spec == Init /\ [][Next]_vars

\* The watcher's goroutines run; of the select's cases, an error that is ready
\* and the ticker that fires every 60s are not passed over for ever.
Fairness == /\ WF_vars(Watcher) /\ WF_vars(OnError) /\ WF_vars(OnPoll)
            /\ WF_vars(Receive) /\ WF_vars(ReceiveError)
FairSpec == Spec /\ Fairness

-----------------------------------------------------------------------------
(* Properties.                                                             *)

\* The variables have the types of the code's values.
TypeOK == /\ {daemon, failed, debounce, cleaned} \subseteq BOOLEAN
          /\ net \in Versions /\ snap \in Versions
          /\ keys \in Versions \cup {NoKeys}
          /\ restarts \in 0..MaxRestarts /\ failures \in 0..MaxFailures
          /\ stream \in {"none", "open", "broken"}
          /\ feed \in Seq(Categories) /\ events \in Seq(Categories)
          /\ Len(feed) <= FeedCap /\ Len(events) <= Cap
          /\ pc \in Labels /\ ret \in Labels /\ flaky \in FlakySets

\* What the keys should be.  While nothing can be derived from the mesh's state
\* the code keeps what it wrote from an earlier one, or nothing.
InSync == keys \in IF ~daemon THEN {NoKeys}
                   ELSE IF net \in Unusable THEN (Versions \ Unusable) \cup {NoKeys}
                   ELSE {net}

\* dns.go on DNSWatch: it re-applies on events, polls as a fallback, survives
\* daemon restarts and removes the keys while the daemon is down.  Once the
\* daemon and a mesh that DNS can be derived from settle the keys are right and
\* stay right, although events are dropped or missing, Status answers are old
\* when they are applied, and the mesh may change between the first sync and the
\* subscription.  If the mesh settles in a state that nothing can be derived
\* from, keys of an earlier one may stay, but none are written from it.  (A
\* removal that fails is not tried again before the daemon is back.)
EventuallyInSync == <>[](InSync \/ pc = "done" \/ (~daemon /\ "remove" \in flaky))

\* While the watcher believes it has cleaned up after a daemon that is still
\* down, no keys are left, provided the removal worked: nothing it does later
\* brings them back.
CleanedMeansClean == cleaned /\ ~daemon /\ "remove" \notin flaky => keys = NoKeys
=============================================================================
