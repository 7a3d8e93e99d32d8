--------------------------- MODULE DnsWatchProofs ---------------------------
(* Theorems about DnsWatch, for every capacity and every bound.             *)
EXTENDS DnsWatch, SequenceTheorems, TLAPS

\* TypeOK, part by part.
Flags == /\ daemon \in BOOLEAN /\ failed \in BOOLEAN /\ debounce \in BOOLEAN
         /\ cleaned \in BOOLEAN
Counters == /\ net \in Versions /\ snap \in Versions /\ keys \in Versions \cup {NoKeys}
            /\ restarts \in 0..MaxRestarts /\ failures \in 0..MaxFailures
Wire == /\ stream \in {"none", "open", "broken"}
        /\ feed \in Seq(Categories) /\ events \in Seq(Categories)
        /\ Len(feed) <= FeedCap /\ Len(events) <= Cap
Control == pc \in Labels /\ ret \in Labels /\ flaky \in FlakySets

LEMMA Parts == TypeOK <=> Flags /\ Counters /\ Wire /\ Control
BY DEF TypeOK, Flags, Counters, Wire, Control

\* downCleaned is set only where the watcher looks at nothing but the daemon: it is
\* on no path that ends in writing keys.
CleanedInv == cleaned => /\ pc \in {"loop", "sleep", "done"}
                         /\ "remove" \notin flaky => keys = NoKeys

Inv == Flags /\ Counters /\ Wire /\ Control /\ CleanedInv

LEMMA InitInv == Init => Inv
<1> SUFFICES ASSUME Init PROVE Inv
  OBVIOUS
<1> USE DEF Init
<1>1. Flags
  BY DEF Flags
<1>2. Counters
  BY ParamsAssumption DEF Counters, Versions
<1>3. Wire
  BY ParamsAssumption DEF Wire
<1>4. Control
  BY DEF Control, Labels
<1>5. CleanedInv
  BY DEF CleanedInv
<1> QED BY <1>1, <1>2, <1>3, <1>4, <1>5 DEF Inv

\* Removing keys, and calls that fail, keep the counters in their ranges.
LEMMA FailsIs ==
    ASSUME Counters, NEW c, Fails(c)
    PROVE  failures' \in 0..MaxFailures
BY ParamsAssumption DEF Fails, Counters

LEMMA RemoveKeysIs ==
    ASSUME Counters, RemoveKeys
    PROVE  /\ keys' \in Versions \cup {NoKeys} /\ failures' \in 0..MaxFailures
           /\ "remove" \notin flaky => keys' = NoKeys
<1>1. CASE keys' = NoKeys /\ UNCHANGED failures
  BY <1>1 DEF Counters
<1>2. CASE Fails("remove") /\ UNCHANGED keys
  BY <1>2, FailsIs DEF Fails, Counters
<1> QED BY <1>1, <1>2 DEF RemoveKeys

\* The events a step leaves on the wire.
LEMMA TailIs ==
    ASSUME NEW S, NEW s \in Seq(S), s # <<>>
    PROVE  Tail(s) \in Seq(S) /\ Len(Tail(s)) <= Len(s) /\ Head(s) \in S
OBVIOUS

-----------------------------------------------------------------------------
(* The steps of the watcher.                                               *)

LEMMA LoopInv == ASSUME Inv, Loop PROVE Inv'
<1>1. pc = "loop" /\ UNCHANGED <<daemon, net, restarts, flaky, stream, feed, events, failed>>
      /\ UNCHANGED <<ret, snap, debounce>>
  BY DEF Loop, mesh, wire
<1>2. CASE daemon
  <2>1. pc' = "dial" /\ cleaned' = FALSE /\ keys' = keys /\ failures' = failures
    BY <1>2 DEF Loop
  <2>2. Flags'
    BY <1>1, <2>1 DEF Inv, Flags
  <2>3. Counters' /\ Wire' /\ Control'
    BY <1>1, <2>1 DEF Inv, Counters, Wire, Control, Labels
  <2>4. CleanedInv'
    BY <2>1 DEF CleanedInv
  <2> QED BY <2>2, <2>3, <2>4 DEF Inv
<1>3. CASE ~daemon
  <2>1. pc' = "sleep" /\ cleaned' = TRUE
    BY <1>3 DEF Loop
  <2>2. /\ keys' \in Versions \cup {NoKeys} /\ failures' \in 0..MaxFailures
        /\ "remove" \notin flaky => keys' = NoKeys
    <3>1. CASE cleaned
      <4>1. keys' = keys /\ failures' = failures
        BY <1>3, <3>1 DEF Loop
      <4> QED BY <3>1, <4>1 DEF Inv, CleanedInv, Counters
    <3>2. CASE ~cleaned
      <4>1. RemoveKeys
        BY <1>3, <3>2 DEF Loop
      <4> QED BY <4>1, RemoveKeysIs DEF Inv
    <3> QED BY <3>1, <3>2
  <2>3. Flags'
    BY <1>1, <2>1 DEF Inv, Flags
  <2>4. Counters' /\ Wire' /\ Control'
    BY <1>1, <2>1, <2>2 DEF Inv, Counters, Wire, Control, Labels
  <2>5. CleanedInv'
    BY <1>1, <2>1, <2>2 DEF CleanedInv
  <2> QED BY <2>3, <2>4, <2>5 DEF Inv
<1> QED BY <1>2, <1>3

\* The steps that change no keys, no counter and nothing of downCleaned.
LEMMA QuietInv ==
    ASSUME Inv, UNCHANGED <<net, restarts, flaky, snap, keys, failures, cleaned>>,
           Wire', pc' \in Labels, ret' \in Labels,
           daemon' \in BOOLEAN, failed' \in BOOLEAN, debounce' \in BOOLEAN,
           pc' \in {"loop", "sleep", "done", pc} \/ pc \notin {"loop", "sleep", "done"}
    PROVE  Inv'
<1>1. Flags'
  BY DEF Inv, Flags
<1>2. Counters' /\ Control'
  BY DEF Inv, Counters, Control
<1>3. CleanedInv'
  BY DEF Inv, CleanedInv
<1> QED BY <1>1, <1>2, <1>3 DEF Inv

\* Sleep, Dial, OnDebounce, OnPoll and Cancel change control and timer only.
LEMMA ControlInv ==
    ASSUME Inv, Sleep \/ Dial \/ OnDebounce \/ OnPoll \/ Cancel PROVE Inv'
<1> USE DEF Sleep, Dial, OnDebounce, OnPoll, Cancel
<1>1. /\ UNCHANGED <<daemon, net, restarts, flaky, stream, feed, events, failed>>
      /\ UNCHANGED <<snap, keys, failures, cleaned>>
  BY DEF mesh, wire
<1>2. Wire'
  BY <1>1 DEF Inv, Wire
<1>3. pc' \in Labels /\ ret' \in Labels
  BY DEF Inv, Control, Labels
<1>4. pc' \in {"loop", "sleep", "done", pc} \/ pc \notin {"loop", "sleep", "done"}
  OBVIOUS
<1>5. daemon' \in BOOLEAN /\ failed' \in BOOLEAN /\ debounce' \in BOOLEAN
  BY <1>1 DEF Inv, Flags
<1> QED BY <1>1, <1>2, <1>3, <1>4, <1>5, QuietInv

LEMMA SyncInv == ASSUME Inv, SyncCheck \/ SyncStatus \/ SyncApply PROVE Inv'
<1>1. /\ pc \in {"check", "status", "apply"}
      /\ UNCHANGED <<daemon, net, restarts, flaky, stream, feed, events, failed>>
      /\ UNCHANGED <<ret, debounce, cleaned>>
  BY DEF SyncCheck, SyncStatus, SyncApply, mesh, wire
<1>2. ~cleaned
  BY <1>1 DEF Inv, CleanedInv
<1>3. pc' \in Labels
  BY DEF SyncCheck, SyncStatus, SyncApply, Inv, Control, Labels
<1>4. /\ snap' \in Versions /\ keys' \in Versions \cup {NoKeys}
      /\ failures' \in 0..MaxFailures
  <2>1. CASE SyncCheck
    BY <2>1, RemoveKeysIs DEF SyncCheck, Inv, Counters
  <2>2. CASE SyncStatus
    BY <2>2, FailsIs DEF SyncStatus, Inv, Counters
  <2>3. CASE SyncApply
    BY <2>3, FailsIs DEF SyncApply, Inv, Counters
  <2> QED BY <2>1, <2>2, <2>3
<1>5. Flags'
  BY <1>1 DEF Inv, Flags
<1>6. Counters' /\ Wire' /\ Control'
  BY <1>1, <1>3, <1>4 DEF Inv, Counters, Wire, Control
<1>7. CleanedInv'
  BY <1>1, <1>2 DEF CleanedInv
<1> QED BY <1>5, <1>6, <1>7 DEF Inv

LEMMA SelectInv == ASSUME Inv, Subscribe \/ OnError \/ OnEvent PROVE Inv'
<1> USE DEF Subscribe, OnError, OnEvent
<1>1. /\ pc \in {"subscribe", "select"}
      /\ UNCHANGED <<daemon, net, restarts, flaky, ret, snap, cleaned, keys, failures>>
  BY DEF mesh
<1>2. pc' \in Labels /\ ret' \in Labels
  BY <1>1 DEF Inv, Control, Labels
<1>3. Wire'
  <2>1. CASE Subscribe \/ OnError
    <3>1. feed' = <<>> /\ events' = <<>> /\ stream' \in {"none", "open", "broken"}
      BY <2>1
    <3>2. Cap \in Nat /\ FeedCap \in Nat
      BY ParamsAssumption
    <3> HIDE DEF Subscribe, OnError, OnEvent
    <3> QED BY <3>1, <3>2 DEF Wire
  <2>2. CASE OnEvent
    <3>1. Tail(events) \in Seq(Categories) /\ Len(Tail(events)) <= Len(events)
      BY <2>2, TailIs DEF Inv, Wire
    <3>2. Len(events) \in Nat /\ Len(Tail(events)) \in Nat /\ Len(events) <= Cap /\ Cap \in Nat
      BY <3>1, ParamsAssumption DEF Inv, Wire
    <3> QED BY <2>2, <3>1, <3>2 DEF Inv, Wire
  <2> QED BY <2>1, <2>2
<1>4. failed' \in BOOLEAN
  BY DEF Inv, Flags
<1>5. debounce' \in BOOLEAN
  <2>1. CASE Subscribe \/ OnError
    BY <2>1
  <2>2. CASE OnEvent
    BY <2>2
  <2> QED BY <2>1, <2>2
<1>6. daemon' \in BOOLEAN
  BY <1>1 DEF Inv, Flags
<1> QED BY <1>1, <1>2, <1>3, <1>4, <1>5, <1>6, QuietInv

-----------------------------------------------------------------------------
(* The receiver and the daemon.                                            *)

LEMMA ReceiverInv == ASSUME Inv, Receive \/ ReceiveError PROVE Inv'
<1> USE DEF Receive, ReceiveError
<1>1. UNCHANGED <<daemon, net, restarts, flaky, stream, pc, ret, snap, debounce, cleaned, keys, failures>>
  BY DEF mesh
<1>2. Wire'
  <2>1. CASE Receive
    <3>1. Tail(feed) \in Seq(Categories) /\ Len(Tail(feed)) <= Len(feed) /\ Head(feed) \in Categories
      BY <2>1, TailIs DEF Inv, Wire
    <3>2. Len(feed) \in Nat /\ Len(Tail(feed)) \in Nat /\ Len(feed) <= FeedCap /\ FeedCap \in Nat
      BY <3>1, ParamsAssumption DEF Inv, Wire
    <3>3. events' \in Seq(Categories) /\ Len(events') <= Cap
      BY <2>1, <3>1, ParamsAssumption DEF Inv, Wire
    <3> QED BY <1>1, <2>1, <3>1, <3>2, <3>3 DEF Inv, Wire
  <2>2. CASE ReceiveError
    BY <1>1, <2>2 DEF Inv, Wire
  <2> QED BY <2>1, <2>2
<1>3. daemon' \in BOOLEAN /\ failed' \in BOOLEAN /\ debounce' \in BOOLEAN
  BY <1>1 DEF Inv, Flags
<1>4. pc' \in Labels /\ ret' \in Labels
  BY <1>1 DEF Inv, Control
<1> QED BY <1>1, <1>2, <1>3, <1>4, QuietInv

LEMMA DaemonInv ==
    ASSUME Inv, NetChanges \/ OtherEvent \/ DaemonDown \/ DaemonUp PROVE Inv'
<1>1. UNCHANGED <<events, failed, pc, ret, snap, debounce, cleaned, keys, failures, flaky>>
  BY DEF NetChanges, OtherEvent, DaemonDown, DaemonUp, mesh, wire
<1>2. net' \in Versions /\ restarts' \in 0..MaxRestarts
  BY ParamsAssumption DEF NetChanges, OtherEvent, DaemonDown, DaemonUp, mesh, Inv, Counters, Versions
<1>3. Wire'
  <2>1. CASE NetChanges \/ OtherEvent
    <3>1. PICK c \in Categories : Emit(c) \/ UNCHANGED feed
      BY <2>1 DEF NetChanges, OtherEvent, Categories
    <3>2. stream' = stream /\ Len(feed) < FeedCap
      BY <2>1 DEF NetChanges, OtherEvent
    <3>3. feed' \in Seq(Categories) /\ Len(feed') <= FeedCap
      BY <3>1, <3>2, ParamsAssumption DEF Emit, Inv, Wire
    <3> QED BY <1>1, <3>2, <3>3 DEF Inv, Wire
  <2>2. CASE DaemonDown \/ DaemonUp
    <3>1. stream' \in {"none", "open", "broken"} /\ feed' = feed
      BY <2>2 DEF DaemonDown, DaemonUp, wire, Inv, Wire
    <3> QED BY <1>1, <3>1 DEF Inv, Wire
  <2> QED BY <2>1, <2>2
<1>4. daemon' \in BOOLEAN
  BY DEF NetChanges, OtherEvent, DaemonDown, DaemonUp, mesh, Inv, Flags
<1>5. Flags'
  BY <1>1, <1>4 DEF Inv, Flags
<1>6. Counters' /\ Control'
  BY <1>1, <1>2 DEF Inv, Counters, Control
<1>7. CleanedInv'
  BY <1>1 DEF Inv, CleanedInv
<1> QED BY <1>3, <1>5, <1>6, <1>7 DEF Inv

LEMMA StepInv == Inv /\ [Next]_vars => Inv'
<1> SUFFICES ASSUME Inv, [Next]_vars PROVE Inv'
  OBVIOUS
<1>1. CASE UNCHANGED vars
  BY <1>1 DEF vars, Inv, Flags, Counters, Wire, Control, CleanedInv
<1>2. CASE Watcher
  BY <1>2, LoopInv, ControlInv, SyncInv, SelectInv DEF Watcher
<1> QED BY <1>1, <1>2, ControlInv, ReceiverInv, DaemonInv DEF Next

-----------------------------------------------------------------------------
(* Theorems.                                                               *)

LEMMA Invariant == Spec => []Inv
BY InitInv, StepInv, PTL DEF Spec

\* The channel never holds more than its capacity, and the keys are those of some
\* state of the mesh, whatever is dropped and whichever calls fail.
THEOREM WatchTypes == Spec => []TypeOK
<1>1. Inv => TypeOK
  BY Parts DEF Inv
<1> QED BY <1>1, Invariant, PTL

\* If removals work, the host has no DNS keys of a daemon that is down as long as
\* the watcher takes its own cleanup for done.
THEOREM Cleaned == Spec => []CleanedMeansClean
<1>1. Inv => CleanedMeansClean
  BY DEF Inv, CleanedInv, CleanedMeansClean
<1> QED BY <1>1, Invariant, PTL
=============================================================================
