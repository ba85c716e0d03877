-------------------------- MODULE ControlLoopProofs --------------------------
(***************************************************************************)
(* Proofs about ControlLoop, for queues of any length, any width of a long *)
(* and any number of commands and outages.                                 *)
(***************************************************************************)
EXTENDS ControlLoop, TLAPS

\* The messages that a queue may hold; TypeOK says it of the indices only.
Queues == control \in Seq(Command) /\ telemetry \in Seq(0 .. LongMax)

LInv == TypeOK /\ Queues

\* A message that joins a queue, and one that leaves it.
LEMMA Joined ==
  ASSUME NEW S, NEW q \in Seq(S), NEW e \in S
  PROVE  Append(q, e) \in Seq(S) /\ Len(Append(q, e)) = Len(q) + 1
OBVIOUS

LEMMA Left ==
  ASSUME NEW S, NEW q \in Seq(S), q # <<>>
  PROVE  Tail(q) \in Seq(S) /\ Len(Tail(q)) = Len(q) - 1 /\ Head(q) \in S
OBVIOUS

\* The rest of TypeOK, for a step after which the queues are as they should be.
Fields ==
  /\ power \in {"up", "restarting", "off"} /\ outages \in 0 .. MaxOutages
  /\ suppressed \in BOOLEAN /\ synced \in BOOLEAN
  /\ ctrlSeq \in 0 .. LongMax
  /\ given \in 0 .. MaxCommands
  /\ unfinished \subseteq Fault
  /\ mode \in {"NORMAL", "SILENT", "REBOOTING", "POWEROFF"}
  /\ seen \in {"never", "fresh", "stale"} /\ sync \in {"never", "recent", "due"}
  /\ shown \in {"none", "ok", "failed"}

Bounded == Queues /\ Len(control) <= MaxQueue /\ Len(telemetry) <= MaxQueue

LEMMA Whole == (LInv <=> (Fields /\ Bounded)) /\ (LInv' <=> (Fields /\ Bounded)')
<1>1. LInv <=> (Fields /\ Bounded)
  BY LoopConstants DEF LInv, TypeOK, Queues, Fields, Bounded
<1>2. LInv' <=> (Fields /\ Bounded)'
  BY LoopConstants DEF LInv, TypeOK, Queues, Fields, Bounded
<1> QED
  BY <1>1, <1>2

\* What a queue holds stays bounded, whatever a step does to it.
LEMMA QueueStep ==
  ASSUME NEW S, NEW q \in Seq(S), Len(q) <= MaxQueue, NEW r,
         \/ r = q
         \/ q # <<>> /\ r = Tail(q)
         \/ Len(q) < MaxQueue /\ \E e \in S : r = Append(q, e)
         \/ r = <<>>
  PROVE  r \in Seq(S) /\ Len(r) <= MaxQueue
<1>1. CASE q # <<>> /\ r = Tail(q)
  BY <1>1, Left, LoopConstants
<1>2. CASE Len(q) < MaxQueue /\ \E e \in S : r = Append(q, e)
  BY <1>2, Joined, LoopConstants
<1>3. CASE r = <<>>
  BY <1>3, LoopConstants
<1> QED
  BY <1>1, <1>2, <1>3

LEMMA InitTyped == Init => LInv
<1> SUFFICES ASSUME Init PROVE Fields /\ Bounded
  BY Whole
<1>1. Bounded
  BY LoopConstants DEF Init, Bounded, Queues
<1>2. 0 \in 0 .. LongMax /\ 0 \in 0 .. MaxOutages /\ 0 \in 0 .. MaxCommands
  BY LoopConstants
<1>3. suppressed \in BOOLEAN /\ synced \in BOOLEAN
  BY DEF Init
<1> QED
  BY <1>1, <1>2, <1>3 DEF Init, Fields

\* A seq fits the node's long once it is parsed.
LEMMA SeqFits ==
  ASSUME NEW n \in 0 .. MaxCommands
  PROVE  /\ Parsed(SeqOf(n)) \in 0 .. LongMax
         /\ Epoch >= LongMax => Parsed(SeqOf(n)) = LongMax
BY LoopConstants DEF Parsed, SeqOf

LEMMA ObeyTyped == Fields /\ Bounded /\ Obey => (Fields /\ Bounded)'
<1> SUFFICES ASSUME Fields, Bounded, Obey PROVE (Fields /\ Bounded)'
  OBVIOUS
<1>1. Head(control) \in Command /\ control # <<>> /\ control' = Tail(control) /\ UNCHANGED telemetry
  BY Left DEF Obey, Bounded, Queues
<1>2. Bounded'
  BY <1>1, QueueStep DEF Bounded, Queues
<1>3. /\ Head(control).n \in 0 .. MaxCommands
      /\ power' \in {"restarting", "off", power}
      /\ suppressed' \in {TRUE, FALSE, suppressed}
      /\ synced' \in BOOLEAN
  BY <1>1 DEF Obey, Command, Fields
<1>4. ctrlSeq' \in 0 .. LongMax
  BY <1>3, SeqFits DEF Obey, Fields
<1> QED
  BY <1>2, <1>3, <1>4 DEF Obey, Fields, dashVars

LEMMA TypeKept == LInv /\ [Next]_vars => LInv'
<1> SUFFICES ASSUME Fields, Bounded, [Next]_vars PROVE (Fields /\ Bounded)'
  BY Whole
<1>t. /\ control \in Seq(Command) /\ telemetry \in Seq(0 .. LongMax)
      /\ Len(control) <= MaxQueue /\ Len(telemetry) <= MaxQueue
  BY DEF Bounded, Queues
<1>q. ASSUME \/ control' = control
             \/ control # <<>> /\ control' = Tail(control)
             \/ Len(control) < MaxQueue /\ \E e \in Command : control' = Append(control, e)
             \/ control' = <<>>,
             \/ telemetry' = telemetry
             \/ telemetry # <<>> /\ telemetry' = Tail(telemetry)
             \/ Len(telemetry) < MaxQueue /\ \E e \in 0 .. LongMax : telemetry' = Append(telemetry, e)
      PROVE  Bounded'
  <2>1. control' \in Seq(Command) /\ Len(control') <= MaxQueue
    BY <1>t, <1>q, QueueStep
  <2>2. telemetry' \in Seq(0 .. LongMax) /\ Len(telemetry') <= MaxQueue
    BY <1>t, <1>q, QueueStep
  <2> QED
    BY <2>1, <2>2 DEF Bounded, Queues
<1>1. ASSUME NEW a \in Action \ {"SYNC_TIME"}, Give(a) PROVE (Fields /\ Bounded)'
  <2>1. given + 1 \in 0 .. MaxCommands
    BY <1>1, LoopConstants DEF Give, Fields
  <2>2. [action |-> a, n |-> given + 1] \in Command
    BY <2>1 DEF Command
  <2>3. Bounded'
    BY <1>1, <1>q, <2>2 DEF Give
  <2> QED
    BY <1>1, <2>1, <2>3 DEF Give, Fields, nodeVars
<1>2. ASSUME NEW a \in unfinished, RecordMode(a) PROVE (Fields /\ Bounded)'
  <2>1. ModeOf(a) \in {"NORMAL", "SILENT", "REBOOTING", "POWEROFF"}
    BY DEF Fields, Fault, ModeOf
  <2> QED
    BY <1>2, <2>1 DEF RecordMode, Fields, Bounded, Queues, nodeVars
<1>3. CASE Poll
  BY <1>3 DEF Poll, Status, Fields, Bounded, Queues, nodeVars
<1>4. CASE SightAges
  BY <1>4 DEF SightAges, Fields, Bounded, Queues, nodeVars
<1>5. CASE SyncAges
  BY <1>5 DEF SyncAges, Fields, Bounded, Queues, nodeVars
<1>6. CASE UpdateState
  <2>1. [action |-> "SYNC_TIME", n |-> 0] \in Command
    BY LoopConstants DEF Command, Action
  <2>2. Bounded'
    BY <1>6, <1>q, <2>1 DEF UpdateState
  <2> QED
    BY <1>6, <2>2 DEF UpdateState, AliveAgain, Fields, nodeVars
<1>7. CASE Lose
  <2>1. Bounded'
    BY <1>7, <1>q DEF Lose
  <2> QED
    BY <1>7, <2>1 DEF Lose, Fields, nodeVars, dashVars
<1>8. CASE Obey
  BY <1>8, ObeyTyped
<1>9. CASE Publish
  <2>1. Bounded'
    BY <1>9, <1>q DEF Publish, Fields
  <2> QED
    BY <1>9, <2>1 DEF Publish, Fields, nodeVars, dashVars
<1>10. CASE Outage
  <2>1. outages + 1 \in 0 .. MaxOutages
    BY <1>10, LoopConstants DEF Outage, Fields
  <2> QED
    BY <1>10, <2>1 DEF Outage, Fields, Bounded, Queues, dashVars
<1>11. CASE Boot
  <2>1. Bounded'
    BY <1>11, <1>q DEF Boot
  <2>2. 0 \in 0 .. LongMax
    BY LoopConstants
  <2>3. suppressed' \in BOOLEAN /\ synced' \in BOOLEAN
    BY <1>11 DEF Boot
  <2> QED
    BY <1>11, <2>1, <2>2, <2>3 DEF Boot, Fields, dashVars
<1>12. CASE UNCHANGED vars
  BY <1>12 DEF vars, nodeVars, dashVars, Fields, Bounded, Queues
<1> QED
  BY <1>1, <1>2, <1>3, <1>4, <1>5, <1>6, <1>7, <1>8, <1>9, <1>10, <1>11, <1>12 DEF Next

\* Every variable keeps its type; what the node takes from a command's seq fits
\* its long.
THEOREM LoopTyped == Spec => []TypeOK
<1>1. LInv => TypeOK
  BY DEF LInv
<1> QED
  BY InitTyped, TypeKept, <1>1, PTL DEF Spec

\* What the node reports when no seq fits its long.
Saturated == ctrlSeq \in {0, LongMax} /\ telemetry \in Seq({0, LongMax})

LEMMA SaturatedKept == Epoch >= LongMax /\ LInv /\ Saturated /\ [Next]_vars => Saturated'
<1> SUFFICES ASSUME Epoch >= LongMax, Fields, Bounded, Saturated, [Next]_vars PROVE Saturated'
  BY Whole
<1>1. CASE UNCHANGED <<ctrlSeq, telemetry>>
  BY <1>1 DEF Saturated
<1>2. CASE UNCHANGED ctrlSeq /\ telemetry # <<>> /\ telemetry' = Tail(telemetry)
  BY <1>2, Left DEF Saturated
<1>3. CASE Publish
  BY <1>3, Joined DEF Publish, Saturated, nodeVars
<1>4. CASE Boot
  BY <1>4 DEF Boot, Saturated
<1>5. CASE Obey
  <2>1. Head(control) \in Command
    BY <1>5, Left DEF Obey, Bounded, Queues
  <2>2. Head(control).n \in 0 .. MaxCommands
    BY <2>1 DEF Command
  <2> QED
    BY <1>5, <2>2, SeqFits DEF Obey, Saturated
<1> QED
  BY <1>1, <1>2, <1>3, <1>4, <1>5
  DEF Next, Give, RecordMode, Poll, SightAges, SyncAges, UpdateState, Lose, Outage, vars, nodeVars

\* The last_ctrl_seq that a node reports is no sequence number once the time of
\* day exceeds its long: it is 0, or the largest long, after whichever command.
THEOREM SeqSaturates == Epoch >= LongMax /\ Spec => []Saturated
<1>1. Init => Saturated
  BY DEF Init, Saturated
<1>2. LInv /\ Saturated /\ Epoch >= LongMax /\ [Next]_vars => (LInv /\ Saturated)'
  BY TypeKept, SaturatedKept
<1>3. (Epoch >= LongMax) => (Epoch >= LongMax)'
  OBVIOUS
<1> QED
  BY InitTyped, <1>1, <1>2, <1>3, PTL DEF Spec
=============================================================================
