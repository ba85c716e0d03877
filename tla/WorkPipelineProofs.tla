------------------------- MODULE WorkPipelineProofs -------------------------
(***************************************************************************)
(* Proofs about WorkPipeline, for any number of channels and slots, any    *)
(* cap, queue depth and timeout, and any bounds.                           *)
(***************************************************************************)
EXTENDS WorkPipeline, FiniteSetTheorems, TLAPS

-----------------------------------------------------------------------------
(***************************************************************************)
(* Finite sets of slots and channels, and saturating subtraction.          *)
(***************************************************************************)

\* Any set of slots is finite, and no larger than a set that contains it.
LEMMA SlotSets ==
  ASSUME NEW S \in SUBSET Slot
  PROVE  /\ IsFiniteSet(S)
         /\ Cardinality(S) \in Nat
         /\ \A T \in SUBSET S : Cardinality(T) \in Nat /\ Cardinality(T) <= Cardinality(S)
<1>1. IsFiniteSet(Slot)
  BY PipelineConstants, FS_Interval DEF Slot
<1>2. IsFiniteSet(S)
  BY <1>1, FS_Subset
<1> QED
  BY <1>2, FS_Subset, FS_CardinalityType

\* Taking a set of slots from one that contains it.
LEMMA SlotDifference ==
  ASSUME NEW S \in SUBSET Slot, NEW T \in SUBSET S
  PROVE  /\ Cardinality(S \ T) = Cardinality(S) - Cardinality(T)
         /\ Cardinality(S \ T) \in Nat /\ Cardinality(S) \in Nat /\ Cardinality(T) \in Nat
<1>1. IsFiniteSet(S) /\ IsFiniteSet(T)
  BY SlotSets
<1>2. S \cap T = T
  OBVIOUS
<1>3. Cardinality(S \ T) = Cardinality(S) - Cardinality(S \cap T)
  BY <1>1, FS_Difference
<1> QED
  BY <1>2, <1>3, SlotSets

\* Any set of channels has at most NumChannels members.
LEMMA ChannelSets ==
  ASSUME NEW S \in SUBSET Channel
  PROVE  /\ IsFiniteSet(S)
         /\ Cardinality(S) \in 0 .. NumChannels
         /\ \A c \in S : Cardinality(S) >= 1
<1>1. IsFiniteSet(Channel) /\ Cardinality(Channel) = NumChannels
  BY PipelineConstants, FS_Interval DEF Channel
<1>2. IsFiniteSet(S) /\ Cardinality(S) <= NumChannels /\ Cardinality(S) \in Nat
  BY <1>1, FS_Subset, FS_CardinalityType
<1>3. ASSUME NEW c \in S PROVE Cardinality(S) >= 1
  BY <1>2, <1>3, FS_EmptySet
<1> QED
  BY <1>2, <1>3, PipelineConstants

LEMMA MinusFacts ==
  ASSUME NEW a \in Nat, NEW b \in Nat
  PROVE  Minus(a, b) \in Nat /\ (b <= a => Minus(a, b) = a - b)
BY DEF Minus

\* rr_index % eligible_count is an index of eligible_slots, and no more than
\* NumChannels channels are eligible.
LEMMA NextTurnInRange ==
  ASSUME NEW c \in Channel, rr \in Channel, Turn(c)
  PROVE  NextTurn \in Channel
<1>1. Eligible \in SUBSET Channel /\ c \in Eligible
  BY DEF Turn, Eligible, Active
<1>2. Cardinality(Eligible) \in 1 .. NumChannels
  BY <1>1, ChannelSets, PipelineConstants
<1> DEFINE k == Cardinality(Eligible)
<1>3. rr % k \in Nat
  BY <1>2 DEF Channel
<1>4. ((rr % k) + 1) % k \in 0 .. k - 1
  BY <1>2, <1>3
<1> QED
  BY <1>2, <1>4, PipelineConstants DEF NextTurn, Channel
-----------------------------------------------------------------------------
(***************************************************************************)
(* Type correctness.                                                       *)
(***************************************************************************)

\* Closing and connecting channels keeps the types.
LEMMA RewireTypes ==
  ASSUME TypeOK, NEW closed, NEW dialed \in SUBSET Channel, Rewire(closed, dialed)
  PROVE  /\ state' \in [Channel -> {"IDLE", "REQUESTING", "ACTIVE"}]
         /\ fd' \in [Channel -> Fd \cup {NoFd}]
         /\ \A c \in dialed \ closed : fd'[c] \in Fd
         /\ mixed' \subseteq Channel
         /\ queue' \in [Channel -> Seq(Key)]
         /\ wire' \in [Channel -> Seq(Key)]
         /\ up' \in [Channel -> BOOLEAN]
         /\ dials' \in [Channel -> Nat]
<1>1. << >> \in Seq(Key)
  OBVIOUS
<1>2. state' \in [Channel -> {"IDLE", "REQUESTING", "ACTIVE"}]
  BY DEF TypeOK, Rewire
<1>3. dials' \in [Channel -> Nat] /\ mixed' \subseteq Channel
  BY DEF TypeOK, Rewire
<1>7. fd' \in [Channel -> Fd \cup {NoFd}] /\ \A c \in dialed \ closed : fd'[c] \in Fd
  <2>1. PICK new \in [dialed -> Fd] :
          fd' = [c \in Channel |-> IF c \in closed THEN NoFd
                                  ELSE IF c \in dialed THEN new[c] ELSE fd[c]]
    BY DEF Rewire
  <2> QED
    BY <2>1 DEF TypeOK
<1>4. queue' \in [Channel -> Seq(Key)]
  BY <1>1 DEF TypeOK, Rewire
<1>5. wire' \in [Channel -> Seq(Key)]
  BY <1>1 DEF TypeOK, Rewire
<1>6. up' \in [Channel -> BOOLEAN]
  BY DEF TypeOK, Rewire
<1> QED
  BY <1>2, <1>3, <1>4, <1>5, <1>6, <1>7

LEMMA ClearedType == Cleared \in Entry
BY PipelineConstants DEF Cleared, Entry

LEMMA AgedType ==
  ASSUME NEW e \in Entry
  PROVE  /\ Aged(e) \in Entry
         /\ Aged(e).on = e.on /\ Aged(e).ch = e.ch
         /\ Aged(e).cycle = e.cycle /\ Aged(e).block = e.block
<1>1. e.age \in Nat /\ e.age + 1 \in Nat
  BY DEF Entry
<1>2. [e EXCEPT !.age = e.age + 1] \in Entry
  BY <1>1 DEF Entry
<1> QED
  BY <1>2 DEF Aged, Entry

LEMMA PendingSets ==
  ASSUME TypeOK
  PROVE  /\ Pending \in SUBSET Slot
         /\ \A c : Owned(c) \in SUBSET Pending
         /\ \A lost : Reclaimable(lost) \in SUBSET Pending
         /\ \A c : Reclaimable({c}) = Owned(c)
BY DEF Pending, Owned, Reclaimable

LEMMA LoseChannelTypes ==
  ASSUME TypeOK, NEW c \in Channel, LoseChannel(c)
  PROVE  /\ pending' \in [Slot -> Entry]
         /\ total' \in Nat /\ reclaimed' \in Nat
         /\ inFlight' \in [Channel -> Nat]
         /\ Rewire({c}, {})
<1>1. Reclaimable({c}) \in SUBSET Slot
  BY PendingSets
<1>2. Cardinality(Reclaimable({c})) \in Nat
  BY <1>1, SlotSets
<1>3. pending' \in [Slot -> Entry]
  BY ClearedType DEF LoseChannel, TypeOK
<1>4. total' \in Nat
  BY <1>2, MinusFacts DEF LoseChannel, TypeOK
<1>5. reclaimed' \in Nat
  BY <1>2 DEF LoseChannel, TypeOK
<1>6. inFlight' \in [Channel -> Nat] /\ Rewire({c}, {})
  BY DEF LoseChannel, TypeOK
<1> QED
  BY <1>3, <1>4, <1>5, <1>6

\* What a pass of the manager does to the types, whichever slots it finds too old.
LEMMA PassTypes ==
  ASSUME TypeOK, NEW X \in SUBSET Pending, PassFinding(X)
  PROVE  TypeOK'
<1>1. PICK low \in BOOLEAN, fate \in [Channel -> {"keep", "reset", "drop", "dial"}] :
        Pass(X, [c \in Channel |-> Minus(inFlight[c], Cardinality(X \cap Owned(c)))], fate)
  BY DEF PassFinding
<1> DEFINE left    == [c \in Channel |-> Minus(inFlight[c], Cardinality(X \cap Owned(c)))]
           dropped == {c \in Channel : fate[c] = "drop"}
           closed  == {c \in Channel : fate[c] \in {"drop", "reset"}}
           dialed  == {c \in Channel : fate[c] = "dial"}
           gone    == Reclaimable(dropped) \ X
<1>2. /\ inFlight' = [c \in Channel |-> IF c \in closed THEN 0 ELSE left[c]]
      /\ pending' = [s \in Slot |->
           IF s \in X \cup gone THEN Cleared
           ELSE IF s \in Pending THEN Aged(pending[s]) ELSE pending[s]]
      /\ total' = Minus(Minus(total, Cardinality(X)), Cardinality(gone))
      /\ timedOut' = timedOut + Cardinality(X)
      /\ reclaimed' = reclaimed + Cardinality(gone)
      /\ Rewire(closed, dialed)
      /\ readers' = readers \cup {Receiver(c, fd'[c]) : c \in dialed}
  BY <1>1 DEF Pass
<1>3. X \in SUBSET Slot /\ gone \in SUBSET Slot
  BY PendingSets
<1>4. Cardinality(X) \in Nat /\ Cardinality(gone) \in Nat
  BY <1>3, SlotSets
<1>5. \A c \in Channel : left[c] \in Nat
  <2> TAKE c \in Channel
  <2>1. X \cap Owned(c) \in SUBSET Slot
    BY <1>3
  <2>2. Cardinality(X \cap Owned(c)) \in Nat
    BY <2>1, SlotSets
  <2>3. inFlight[c] \in Nat
    BY DEF TypeOK
  <2> QED
    BY <2>2, <2>3, MinusFacts
<1>6. inFlight' \in [Channel -> Nat]
  BY <1>2, <1>5
<1>7. pending' \in [Slot -> Entry]
  <2>1. \A s \in Slot : pending[s] \in Entry
    BY DEF TypeOK
  <2>2. \A e \in Entry : Aged(e) \in Entry
    BY AgedType
  <2> QED
    BY <1>2, <2>1, <2>2, ClearedType
<1>8. total' \in Nat
  <2>1. Minus(total, Cardinality(X)) \in Nat
    BY <1>4, MinusFacts DEF TypeOK
  <2> QED
    BY <1>2, <1>4, <2>1, MinusFacts
<1>9. timedOut' \in Nat /\ reclaimed' \in Nat
  BY <1>2, <1>4 DEF TypeOK
<1>10. readers' \subseteq Reader
  <2>1. \A c \in dialed : fd'[c] \in Fd
    <3>1. dialed \in SUBSET Channel /\ dialed \ closed = dialed
      OBVIOUS
    <3> HIDE DEF dialed, closed
    <3>2. \A c \in dialed \ closed : fd'[c] \in Fd
      BY <1>2, <3>1, RewireTypes
    <3> QED
      BY <3>1, <3>2
  <2> QED
    BY <1>2, <2>1 DEF TypeOK, Reader, Receiver
<1>11. /\ state' \in [Channel -> {"IDLE", "REQUESTING", "ACTIVE"}]
       /\ fd' \in [Channel -> Fd \cup {NoFd}] /\ dials' \in [Channel -> Nat]
       /\ mixed' \subseteq Channel
       /\ queue' \in [Channel -> Seq(Key)] /\ wire' \in [Channel -> Seq(Key)]
       /\ up' \in [Channel -> BOOLEAN]
  <2>1. dialed \in SUBSET Channel
    OBVIOUS
  <2> HIDE DEF dialed, closed
  <2> QED
    BY <1>2, <2>1, RewireTypes
<1>12. pass' \in BOOLEAN /\ UNCHANGED <<held, loopVars, dispatched, returned>>
  BY DEF PassFinding, TypeOK
<1> QED
  BY <1>6, <1>7, <1>8, <1>9, <1>10, <1>11, <1>12 DEF TypeOK, loopVars

LEMMA TickTypes == TypeOK /\ Tick => TypeOK'
BY PassTypes DEF Tick

LEMMA InitTypes == Init => TypeOK
<1> SUFFICES ASSUME Init PROVE TypeOK
  OBVIOUS
<1>1. pending \in [Slot -> Entry]
  BY ClearedType DEF Init
<1>2. << >> \in Seq(Key) /\ 0 \in Channel
  BY PipelineConstants DEF Channel
<1> QED
  BY <1>1, <1>2 DEF Init, TypeOK

\* The same for the actions of the control plane and of compute_task.
LEMMA ControlTypes ==
  ASSUME TypeOK,
         \/ TryOffload \/ StartCycle \/ DispatchBusy \/ DispatchUnsent \/ DispatchSent
         \/ \E c \in Channel : Accepted(c) \/ Refused(c)
  PROVE  TypeOK'
<1>1. CASE TryOffload
  BY <1>1 DEF TryOffload, TypeOK, flowVars, tableVars, loopVars, countVars
<1>2. CASE StartCycle
  BY <1>2, PipelineConstants
     DEF StartCycle, CycleIncrement, TypeOK, chanVars, flowVars, tableVars, countVars
<1>3. CASE DispatchBusy
  BY <1>3 DEF DispatchBusy, TypeOK, chanVars, flowVars, tableVars, countVars
<1>4. CASE DispatchUnsent
  <2>1. rr' \in Channel
    BY <1>4, NextTurnInRange DEF DispatchUnsent, TypeOK
  <2>2. /\ next' \in Nat
        /\ UNCHANGED <<chanVars, flowVars, readers, held, tableVars, cycle, todo, countVars>>
    BY <1>4 DEF DispatchUnsent, TypeOK
  <2> QED
    BY <2>1, <2>2 DEF TypeOK, chanVars, flowVars, tableVars, countVars
<1>5. CASE DispatchSent
  <2>1. PICK s \in Slot, c \in Channel :
          /\ Turn(c)
          /\ Enqueue(c)
          /\ pending' = [pending EXCEPT ![s] =
               [on |-> TRUE, cycle |-> cycle, block |-> next, ch |-> c, age |-> 0]]
          /\ inFlight' = [inFlight EXCEPT ![c] = @ + 1]
    BY <1>5 DEF DispatchSent
  <2>2. rr' \in Channel
    BY <1>5, <2>1, NextTurnInRange DEF DispatchSent, TypeOK
  <2>3. [on |-> TRUE, cycle |-> cycle, block |-> next, ch |-> c, age |-> 0] \in Entry
    BY PipelineConstants DEF TypeOK, Entry, Channel
  <2>4. pending' \in [Slot -> Entry]
    BY <2>1, <2>3 DEF TypeOK
  <2>5. [ch |-> c, conn |-> dials[c], cycle |-> cycle, block |-> next] \in Key
    BY DEF TypeOK, Key
  <2>6. queue' \in [Channel -> Seq(Key)]
    BY <2>1, <2>5 DEF Enqueue, TypeOK
  <2>7. inFlight \in [Channel -> Nat]
    BY DEF TypeOK
  <2>8. inFlight' \in [Channel -> Nat]
    BY <2>1, <2>7
  <2>9. /\ total' \in Nat /\ dispatched' \in Nat /\ next' \in Nat
        /\ UNCHANGED <<chanVars, wire, mixed, readers, held, cycle, todo,
                       returned, timedOut, reclaimed, pass>>
    BY <1>5 DEF DispatchSent, TypeOK
  <2> QED
    BY <2>2, <2>4, <2>6, <2>8, <2>9 DEF TypeOK, chanVars
<1>6. ASSUME NEW c \in Channel, Accepted(c) PROVE TypeOK'
  <2>1. dials[c] + 1 \in Nat
    BY DEF TypeOK
  <2>2. \A k \in Fd : Receiver(c, k) \in Reader
    BY <2>1 DEF Reader, Receiver
  <2>3. state' \in [Channel -> {"IDLE", "REQUESTING", "ACTIVE"}]
    BY <1>6 DEF Accepted, TypeOK
  <2>4. /\ fd' \in [Channel -> Fd \cup {NoFd}] /\ dials' \in [Channel -> Nat]
        /\ up' \in [Channel -> BOOLEAN] /\ readers' \subseteq Reader
    <3>1. CASE UNCHANGED <<fd, dials, up, readers>>
      BY <3>1 DEF TypeOK
    <3>2. CASE \E k \in Fd :
                 /\ fd' = [fd EXCEPT ![c] = k]
                 /\ dials' = [dials EXCEPT ![c] = @ + 1]
                 /\ up' = [up EXCEPT ![c] = TRUE]
                 /\ readers' = readers \cup {Receiver(c, k)}
      BY <2>1, <2>2, <3>2 DEF TypeOK
    <3> QED
      BY <1>6, <3>1, <3>2 DEF Accepted
  <2>5. UNCHANGED <<flowVars, held, tableVars, loopVars, countVars>>
    BY <1>6 DEF Accepted
  <2> QED
    BY <2>3, <2>4, <2>5 DEF TypeOK, flowVars, tableVars, loopVars, countVars
<1>7. ASSUME NEW c \in Channel, Refused(c) PROVE TypeOK'
  <2>1. Rewire({c}, {}) /\ inFlight' \in [Channel -> Nat]
    BY <1>7 DEF Refused, TypeOK
  <2> QED
    BY <1>7, <2>1, RewireTypes DEF Refused, TypeOK, loopVars, countVars
<1> QED
  BY <1>1, <1>2, <1>3, <1>4, <1>5, <1>6, <1>7

\* The same for the transport tasks.
LEMMA TransportTypes ==
  ASSUME TypeOK,
         \/ \E c \in Channel : Send(c) \/ HostGone(c) \/ SendFails(c)
         \/ \E r \in readers : ReadResult(r) \/ SplitResult(r) \/ ReaderEnds(r)
         \/ \E h \in held : HandleResult(h)
  PROVE  TypeOK'
<1>1. ASSUME NEW c \in Channel, Send(c) PROVE TypeOK'
  <2>1. queue[c] \in Seq(Key) /\ wire[c] \in Seq(Key) /\ queue[c] # << >>
    BY <1>1 DEF Send, TypeOK
  <2>2. Tail(queue[c]) \in Seq(Key) /\ Head(queue[c]) \in Key
    BY <2>1
  <2>3. Append(wire[c], Head(queue[c])) \in Seq(Key)
    BY <2>1, <2>2
  <2>4. queue' \in [Channel -> Seq(Key)]
    BY <1>1, <2>2 DEF Send, TypeOK
  <2>5. wire' \in [Channel -> Seq(Key)]
    BY <1>1, <2>3 DEF Send, TypeOK
  <2> QED
    BY <1>1, <2>4, <2>5 DEF Send, TypeOK, chanVars, tableVars, loopVars, countVars
<1>2. ASSUME NEW c \in Channel, HostGone(c) PROVE TypeOK'
  <2>1. << >> \in Seq(Key)
    OBVIOUS
  <2> QED
    BY <1>2, <2>1 DEF HostGone, TypeOK, tableVars, loopVars, countVars
<1>3. ASSUME NEW c \in Channel, SendFails(c) PROVE TypeOK'
  BY <1>3, LoseChannelTypes, RewireTypes DEF SendFails, TypeOK, loopVars
<1>4. ASSUME NEW r \in readers, ReadResult(r) \/ SplitResult(r) PROVE TypeOK'
  <2>1. PICK c \in Channel :
          /\ Reads(r, c)
          /\ \/ held' = held \cup {[frame |-> Head(wire[c]), reader |-> r]}
             \/ held' = held
    BY <1>4 DEF ReadResult, SplitResult
  <2>2. wire[c] \in Seq(Key) /\ wire[c] # << >>
    BY <2>1 DEF Reads, TypeOK
  <2>3. Tail(wire[c]) \in Seq(Key) /\ Head(wire[c]) \in Key
    BY <2>2
  <2>4. [frame |-> Head(wire[c]), reader |-> r] \in Result
    BY <2>3 DEF Result, TypeOK
  <2>5. held' \subseteq Result
    BY <2>1, <2>4 DEF TypeOK
  <2>6. wire' \in [Channel -> Seq(Key)] /\ mixed' \subseteq Channel
    BY <2>1, <2>3 DEF Reads, TypeOK
  <2>7. UNCHANGED <<chanVars, queue, readers, tableVars, loopVars, countVars>>
    BY <2>1 DEF Reads
  <2> QED
    BY <2>5, <2>6, <2>7 DEF TypeOK, chanVars, tableVars, loopVars, countVars
<1>5. ASSUME NEW r \in readers, ReaderEnds(r) PROVE TypeOK'
  <2>1. r.ch \in Channel
    BY DEF TypeOK, Reader
  <2>2. CASE LoseChannel(r.ch)
    <3>1. /\ pending' \in [Slot -> Entry]
          /\ total' \in Nat /\ reclaimed' \in Nat
          /\ inFlight' \in [Channel -> Nat]
          /\ Rewire({r.ch}, {})
      BY <2>1, <2>2, LoseChannelTypes
    <3>2. readers' \subseteq readers /\ UNCHANGED <<held, loopVars, dispatched, returned, timedOut, pass>>
      BY <1>5 DEF ReaderEnds
    <3>3. /\ state' \in [Channel -> {"IDLE", "REQUESTING", "ACTIVE"}]
          /\ fd' \in [Channel -> Fd \cup {NoFd}] /\ dials' \in [Channel -> Nat]
          /\ mixed' \subseteq Channel
          /\ queue' \in [Channel -> Seq(Key)] /\ wire' \in [Channel -> Seq(Key)]
          /\ up' \in [Channel -> BOOLEAN]
      <4>1. {} \in SUBSET Channel
        OBVIOUS
      <4> QED
        BY <3>1, <4>1, RewireTypes
    <3> QED
      BY <3>1, <3>2, <3>3 DEF TypeOK, loopVars
  <2>3. CASE UNCHANGED <<chanVars, flowVars, tableVars, reclaimed>>
    BY <1>5, <2>3 DEF ReaderEnds, TypeOK, chanVars, flowVars, tableVars, loopVars
  <2> QED
    BY <1>5, <2>2, <2>3 DEF ReaderEnds
<1>6. ASSUME NEW h \in held, HandleResult(h) PROVE TypeOK'
  <2>1. h.reader.ch \in Channel
    BY DEF TypeOK, Result, Reader
  <2>2. CASE UNCHANGED <<tableVars, returned>>
    BY <1>6, <2>2 DEF HandleResult, TypeOK, chanVars, flowVars, tableVars, loopVars
  <2>3. CASE \E s \in Slot :
               /\ pending' = [pending EXCEPT ![s] = Cleared]
               /\ inFlight' = [inFlight EXCEPT ![h.reader.ch] = Minus(@, 1)]
               /\ total' = Minus(total, 1)
               /\ returned' = returned + 1
    <3>1. pending' \in [Slot -> Entry]
      BY <2>3, ClearedType DEF TypeOK
    <3>2. inFlight[h.reader.ch] \in Nat /\ total \in Nat
      BY <2>1 DEF TypeOK
    <3>3. Minus(inFlight[h.reader.ch], 1) \in Nat /\ Minus(total, 1) \in Nat
      BY <3>2, MinusFacts
    <3>4. inFlight \in [Channel -> Nat] /\ returned \in Nat
      BY DEF TypeOK
    <3>5. /\ inFlight' = [inFlight EXCEPT ![h.reader.ch] = Minus(inFlight[h.reader.ch], 1)]
          /\ total' = Minus(total, 1)
          /\ returned' = returned + 1
      BY <2>3
    <3>6. inFlight' \in [Channel -> Nat]
      BY <3>3, <3>4, <3>5
    <3>7. total' \in Nat /\ returned' \in Nat
      BY <3>3, <3>4, <3>5
    <3> QED
      BY <1>6, <3>1, <3>6, <3>7 DEF HandleResult, TypeOK, chanVars, flowVars, loopVars
  <2> QED
    BY <1>6, <2>2, <2>3 DEF HandleResult
<1> QED
  BY <1>1, <1>2, <1>3, <1>4, <1>5, <1>6

\* Every variable keeps its type, and rr_index stays an index of
\* eligible_slots, however the number of eligible channels varies.
THEOREM TypeCorrect == Spec => []TypeOK
<1>1. TypeOK /\ [Next]_vars => TypeOK'
  <2> SUFFICES ASSUME TypeOK, [Next]_vars PROVE TypeOK'
    OBVIOUS
  <2>1. CASE UNCHANGED vars
    BY <2>1 DEF vars, TypeOK, chanVars, flowVars, tableVars, loopVars, countVars
  <2> QED
    BY <2>1, ControlTypes, TransportTypes, TickTypes DEF Next
<1> QED
  BY <1>1, InitTypes, PTL DEF Spec
-----------------------------------------------------------------------------
(***************************************************************************)
(* The pending table and its caches.                                       *)
(*                                                                         *)
(* InFlightExact is not inductive: reset_channel zeroes in_flight_count,   *)
(* which is exact only if no slot of the channel is left.  For a request   *)
(* that is refused or times out nothing in that step says so; it is that   *)
(* only ACTIVE channels own slots.                                         *)
(***************************************************************************)

\* Only ACTIVE channels own slots.
OwnersActive == \A c \in Channel : state[c] # "ACTIVE" => Owned(c) = {}

IInv == InFlightExact /\ OwnersActive /\ CapRespected /\ Conservation

\* The cached counts are natural numbers, and those of finite sets.
LEMMA Counts ==
  ASSUME TypeOK, InFlightExact
  PROVE  /\ IsFiniteSet(Pending) /\ Cardinality(Pending) \in Nat
         /\ \A c \in Channel : Cardinality(Owned(c)) \in Nat
         /\ \A S \in SUBSET Pending : Cardinality(S) \in Nat /\ Cardinality(S) <= total
<1>1. Pending \in SUBSET Slot
  BY PendingSets
<1>2. \A c \in Channel : Owned(c) \in SUBSET Slot
  BY PendingSets
<1>3. total = Cardinality(Pending)
  BY DEF InFlightExact
<1> QED
  BY <1>1, <1>2, <1>3, SlotSets

\* Steps that leave the table alone, and close no channel that was ACTIVE.
LEMMA TableKept ==
  ASSUME TypeOK, IInv, UNCHANGED tableVars,
         UNCHANGED <<dispatched, returned, timedOut, reclaimed>>,
         \A c \in Channel : state[c] = "ACTIVE" => state'[c] = "ACTIVE"
  PROVE  IInv'
<1>1. pending' = pending /\ inFlight' = inFlight /\ total' = total
  BY DEF tableVars
<1>2. Pending' = Pending /\ \A c \in Channel : Owned(c)' = Owned(c)
  BY <1>1 DEF Pending, Owned
<1>3. InFlightExact'
  BY <1>1, <1>2 DEF IInv, InFlightExact
<1>4. OwnersActive'
  BY <1>2 DEF IInv, OwnersActive
<1>5. CapRespected' /\ Conservation'
  BY <1>1 DEF IInv, CapRespected, Conservation
<1> QED
  BY <1>3, <1>4, <1>5 DEF IInv

\* Slots freed together: the sets shrink by them, and so do the sizes.
LEMMA SlotsFreed ==
  ASSUME TypeOK, NEW F \in SUBSET Pending,
         \A s \in Slot :
           IF s \in F THEN pending'[s] = Cleared
           ELSE pending'[s].on = pending[s].on /\ pending'[s].ch = pending[s].ch
  PROVE  /\ Pending' = Pending \ F
         /\ Cardinality(Pending') = Cardinality(Pending) - Cardinality(F)
         /\ \A c \in Channel :
              /\ Owned(c)' = Owned(c) \ F
              /\ Cardinality(Owned(c)') = Cardinality(Owned(c)) - Cardinality(F \cap Owned(c))
<1>1. Pending' = Pending \ F
  BY DEF Pending, Cleared
<1>2. \A c \in Channel : Owned(c)' = Owned(c) \ F
  BY <1>1 DEF Owned, Pending
<1>3. Pending \in SUBSET Slot /\ \A c \in Channel : Owned(c) \in SUBSET Slot
  BY PendingSets
<1>4. Cardinality(Pending') = Cardinality(Pending) - Cardinality(F)
  BY <1>1, <1>3, SlotDifference
<1>5. ASSUME NEW c \in Channel
      PROVE  Cardinality(Owned(c)') = Cardinality(Owned(c)) - Cardinality(F \cap Owned(c))
  <2>1. Owned(c)' = Owned(c) \ (F \cap Owned(c))
    BY <1>2
  <2>2. Owned(c) \in SUBSET Slot /\ F \cap Owned(c) \in SUBSET Owned(c)
    BY <1>3
  <2> QED
    BY <2>1, <2>2, SlotDifference
<1> QED
  BY <1>1, <1>2, <1>4, <1>5

\* Exact counts of slots that only get fewer stay below the cap.
LEMMA CapKept ==
  ASSUME TypeOK, IInv, InFlightExact',
         \A c \in Channel : Owned(c)' \subseteq Owned(c)
  PROVE  CapRespected'
<1> SUFFICES ASSUME NEW c \in Channel PROVE inFlight'[c] <= MaxInflight
  BY DEF CapRespected
<1>1. inFlight[c] <= MaxInflight /\ inFlight[c] = Cardinality(Owned(c))
  BY DEF IInv, CapRespected, InFlightExact
<1>2. inFlight'[c] = Cardinality(Owned(c)')
  BY DEF InFlightExact
<1>3. Owned(c) \in SUBSET Slot /\ Owned(c)' \in SUBSET Owned(c)
  BY PendingSets
<1>4. /\ Cardinality(Owned(c)') \in Nat /\ Cardinality(Owned(c)) \in Nat
      /\ Cardinality(Owned(c)') <= Cardinality(Owned(c))
  BY <1>3, SlotSets
<1> QED
  BY <1>1, <1>2, <1>4, PipelineConstants

\* A channel that is closed with all its slots reclaimed.
LEMMA LoseChannelKeeps ==
  ASSUME TypeOK, IInv, NEW c \in Channel, LoseChannel(c),
         UNCHANGED <<dispatched, returned, timedOut>>
  PROVE  IInv'
<1> DEFINE F == Reclaimable({c})
<1>1. F = Owned(c) /\ F \in SUBSET Pending
  BY PendingSets
<1>2. /\ pending' = [s \in Slot |-> IF s \in F THEN Cleared ELSE pending[s]]
      /\ total' = Minus(total, Cardinality(F))
      /\ reclaimed' = reclaimed + Cardinality(F)
      /\ inFlight' = [inFlight EXCEPT ![c] = 0]
      /\ state' = [d \in Channel |-> IF d \in {c} THEN "IDLE" ELSE state[d]]
  BY DEF LoseChannel, Rewire
<1>3. /\ Pending' = Pending \ F
      /\ Cardinality(Pending') = Cardinality(Pending) - Cardinality(F)
      /\ \A d \in Channel :
           /\ Owned(d)' = Owned(d) \ F
           /\ Cardinality(Owned(d)') = Cardinality(Owned(d)) - Cardinality(F \cap Owned(d))
  BY <1>1, <1>2, SlotsFreed
<1>4. total' = total - Cardinality(F)
  BY <1>1, <1>2, Counts, MinusFacts DEF IInv, TypeOK
<1>5. InFlightExact'
  <2>1. ASSUME NEW d \in Channel PROVE inFlight'[d] = Cardinality(Owned(d)')
    <3>1. CASE d = c
      <4>1. Owned(d)' = {}
        BY <1>1, <1>3, <3>1
      <4> QED
        BY <1>2, <3>1, <4>1, FS_EmptySet DEF TypeOK
    <3>2. CASE d # c
      <4>1. Owned(d)' = Owned(d)
        BY <1>1, <1>3, <3>2 DEF Owned
      <4> QED
        BY <1>2, <3>2, <4>1 DEF TypeOK, IInv, InFlightExact
    <3> QED
      BY <3>1, <3>2
  <2>2. total' = Cardinality(Pending')
    BY <1>3, <1>4 DEF IInv, InFlightExact
  <2> QED
    BY <2>1, <2>2 DEF InFlightExact
<1>6. OwnersActive'
  BY <1>1, <1>2, <1>3 DEF IInv, OwnersActive
<1>7. CapRespected'
  BY <1>3, <1>5, CapKept
<1>8. Conservation'
  <2>1. Cardinality(F) \in Nat
    BY <1>1, Counts DEF IInv
  <2>2. /\ dispatched \in Nat /\ returned \in Nat /\ timedOut \in Nat
        /\ reclaimed \in Nat /\ total \in Nat
    BY DEF TypeOK
  <2>3. dispatched = returned + timedOut + reclaimed + total
    BY DEF IInv, Conservation
  <2>4. dispatched' = dispatched /\ returned' = returned /\ timedOut' = timedOut
    OBVIOUS
  <2> HIDE DEF F
  <2>5. dispatched' = returned' + timedOut' + reclaimed' + total'
    BY <1>2, <1>4, <2>1, <2>2, <2>3, <2>4
  <2> QED
    BY <2>5 DEF Conservation
<1> QED
  BY <1>5, <1>6, <1>7, <1>8 DEF IInv

\* A dispatch owns one more slot of an ACTIVE channel below its cap.
LEMMA DispatchKeeps ==
  ASSUME TypeOK, IInv, DispatchSent
  PROVE  IInv'
<1>1. PICK s \in Slot, c \in Channel :
        /\ FirstFree(s)
        /\ Turn(c)
        /\ pending' = [pending EXCEPT ![s] =
             [on |-> TRUE, cycle |-> cycle, block |-> next, ch |-> c, age |-> 0]]
        /\ inFlight' = [inFlight EXCEPT ![c] = @ + 1]
  BY DEF DispatchSent
<1>2. s \notin Pending /\ c \in Active /\ inFlight[c] < MaxInflight
  BY <1>1 DEF FirstFree, Turn, Eligible
<1>3. pending \in [Slot -> Entry] /\ inFlight \in [Channel -> Nat]
  BY DEF TypeOK
<1>4. /\ pending'[s].on = TRUE /\ pending'[s].ch = c
      /\ \A u \in Slot : u # s => pending'[u] = pending[u]
  BY <1>1, <1>3
<1>5. Pending' = Pending \cup {s}
  BY <1>4 DEF Pending
<1>6. Owned(c)' = Owned(c) \cup {s} /\ s \notin Owned(c)
  <2>1. s \notin Owned(c)
    BY <1>2 DEF Owned
  <2>2. \A u \in Pending : pending'[u].ch = pending[u].ch
    BY <1>2, <1>4 DEF Pending
  <2>3. Owned(c)' = {u \in Pending \cup {s} : pending'[u].ch = c}
    BY <1>5 DEF Owned
  <2>4. Owned(c)' = Owned(c) \cup {s}
    BY <1>4, <2>2, <2>3 DEF Owned
  <2> QED
    BY <2>1, <2>4
<1>7. \A d \in Channel : d # c => Owned(d)' = Owned(d)
  BY <1>2, <1>4, <1>5 DEF Owned, Pending
<1>8. state' = state /\ total' = total + 1 /\ dispatched' = dispatched + 1
      /\ UNCHANGED <<returned, timedOut, reclaimed>>
  BY DEF DispatchSent, chanVars
<1>9. IsFiniteSet(Pending) /\ IsFiniteSet(Owned(c))
  BY PendingSets, SlotSets
<1>10. inFlight'[c] = inFlight[c] + 1 /\ \A d \in Channel : d # c => inFlight'[d] = inFlight[d]
  BY <1>1, <1>3
<1>11. InFlightExact'
  <2>1. Cardinality(Pending') = Cardinality(Pending) + 1
    BY <1>2, <1>5, <1>9, FS_AddElement
  <2>2. Cardinality(Owned(c)') = Cardinality(Owned(c)) + 1
    BY <1>6, <1>9, FS_AddElement
  <2> QED
    BY <1>7, <1>8, <1>10, <2>1, <2>2 DEF IInv, InFlightExact
<1>12. OwnersActive'
  BY <1>2, <1>7, <1>8 DEF IInv, OwnersActive, Active
<1>13. CapRespected'
  BY <1>2, <1>3, <1>10, PipelineConstants DEF IInv, CapRespected
<1>14. Conservation'
  BY <1>8 DEF IInv, Conservation, TypeOK
<1> QED
  BY <1>11, <1>12, <1>13, <1>14 DEF IInv

\* A result frees the slot it matches, if any.
LEMMA ResultKeeps ==
  ASSUME TypeOK, IInv, NEW h \in held, HandleResult(h)
  PROVE  IInv'
<1>1. /\ state' = state
      /\ UNCHANGED <<dispatched, timedOut, reclaimed>>
  BY DEF HandleResult, chanVars
<1>2. CASE UNCHANGED <<tableVars, returned>>
  BY <1>1, <1>2, TableKept
<1>3. CASE ~UNCHANGED <<tableVars, returned>>
  <2>1. PICK s \in Slot :
          /\ Credits(s, h)
          /\ pending' = [pending EXCEPT ![s] = Cleared]
          /\ inFlight' = [inFlight EXCEPT ![h.reader.ch] = Minus(@, 1)]
          /\ total' = Minus(total, 1)
          /\ returned' = returned + 1
    BY <1>3 DEF HandleResult
  <2>2. h.reader.ch \in Channel
    BY DEF TypeOK, Result, Reader
  <2>3. s \in Pending /\ s \in Owned(h.reader.ch) /\ \A c \in Channel : c # h.reader.ch => s \notin Owned(c)
    BY <2>1 DEF Credits, Matches, Owned
  <2>4. /\ Pending' = Pending \ {s}
        /\ Cardinality(Pending') = Cardinality(Pending) - Cardinality({s})
        /\ \A c \in Channel :
             /\ Owned(c)' = Owned(c) \ {s}
             /\ Cardinality(Owned(c)') = Cardinality(Owned(c)) - Cardinality({s} \cap Owned(c))
    <3>1. {s} \in SUBSET Pending
      BY <2>3
    <3>2. \A u \in Slot :
            IF u \in {s} THEN pending'[u] = Cleared
            ELSE pending'[u].on = pending[u].on /\ pending'[u].ch = pending[u].ch
      BY <2>1 DEF TypeOK
    <3> QED
      BY <3>1, <3>2, SlotsFreed
  <2>5. Cardinality({s}) = 1 /\ {s} \cap Owned(h.reader.ch) = {s}
    BY <2>3, FS_Singleton
  <2>6. inFlight[h.reader.ch] \in Nat /\ inFlight[h.reader.ch] >= 1 /\ total \in Nat /\ total >= 1
    <3>1. {s} \in SUBSET Owned(h.reader.ch) /\ {s} \in SUBSET Pending
      BY <2>3
    <3>2. Cardinality({s}) <= Cardinality(Owned(h.reader.ch)) /\ Cardinality({s}) <= Cardinality(Pending)
      BY <3>1, SlotSets, PendingSets
    <3> QED
      BY <2>2, <2>5, <3>2 DEF IInv, InFlightExact, TypeOK
  <2>7. /\ inFlight'[h.reader.ch] = inFlight[h.reader.ch] - 1
        /\ \A c \in Channel : c # h.reader.ch => inFlight'[c] = inFlight[c]
        /\ total' = total - 1
    BY <2>1, <2>2, <2>6, MinusFacts DEF TypeOK
  <2>8. InFlightExact'
    <3>1. Cardinality(Owned(h.reader.ch)') = Cardinality(Owned(h.reader.ch)) - 1
      BY <2>2, <2>4, <2>5
    <3>2. \A c \in Channel : c # h.reader.ch => Owned(c)' = Owned(c)
      BY <2>3, <2>4
    <3> QED
      BY <2>2, <2>4, <2>5, <2>7, <3>1, <3>2 DEF IInv, InFlightExact
  <2>9. OwnersActive'
    BY <1>1, <2>4 DEF IInv, OwnersActive
  <2>10. CapRespected'
    BY <2>4, <2>8, CapKept
  <2>11. Conservation'
    <3>1. /\ dispatched \in Nat /\ returned \in Nat /\ timedOut \in Nat
          /\ reclaimed \in Nat /\ total \in Nat
      BY DEF TypeOK
    <3>2. returned' = returned + 1
      BY <2>1
    <3>3. dispatched = returned + timedOut + reclaimed + total
      BY DEF IInv, Conservation
    <3>4. dispatched' = returned' + timedOut' + reclaimed' + total'
      BY <1>1, <2>7, <3>1, <3>2, <3>3
    <3> QED
      BY <3>4 DEF Conservation
  <2> QED
    BY <2>8, <2>9, <2>10, <2>11 DEF IInv
<1> QED
  BY <1>2, <1>3

\* A pass of the manager: timeouts first, then the channels one by one.  A
\* channel that is dropped gives back what it has left; one that is reset has
\* nothing left, because it was REQUESTING or its count had come to zero.
LEMMA TickKeeps ==
  ASSUME TypeOK, IInv, Tick
  PROVE  IInv'
<1>1. PICK X \in SUBSET Pending, low \in BOOLEAN,
           fate \in [Channel -> {"keep", "reset", "drop", "dial"}] :
        LET left == [c \in Channel |-> Minus(inFlight[c], Cardinality(X \cap Owned(c)))]
        IN  /\ \A c \in Channel : fate[c] \in Fates(c, low, left[c])
            /\ Pass(X, left, fate)
  BY DEF Tick, PassFinding
<1> DEFINE left    == [c \in Channel |-> Minus(inFlight[c], Cardinality(X \cap Owned(c)))]
           dropped == {c \in Channel : fate[c] = "drop"}
           closed  == {c \in Channel : fate[c] \in {"drop", "reset"}}
           dialed  == {c \in Channel : fate[c] = "dial"}
           gone    == Reclaimable(dropped) \ X
           F       == X \cup gone
<1>2. /\ inFlight' = [c \in Channel |-> IF c \in closed THEN 0 ELSE left[c]]
      /\ pending' = [s \in Slot |->
           IF s \in F THEN Cleared
           ELSE IF s \in Pending THEN Aged(pending[s]) ELSE pending[s]]
      /\ total' = Minus(Minus(total, Cardinality(X)), Cardinality(gone))
      /\ timedOut' = timedOut + Cardinality(X)
      /\ reclaimed' = reclaimed + Cardinality(gone)
      /\ state' = [c \in Channel |-> IF c \in closed THEN "IDLE" ELSE state[c]]
  BY <1>1 DEF Pass, Rewire
<1>3. \A c \in Channel : fate[c] \in Fates(c, low, left[c])
  BY <1>1
<1>4. X \in SUBSET Pending /\ gone \in SUBSET (Pending \ X) /\ F \in SUBSET Pending
  BY PendingSets
<1>5. /\ Pending' = Pending \ F
      /\ Cardinality(Pending') = Cardinality(Pending) - Cardinality(F)
      /\ \A c \in Channel :
           /\ Owned(c)' = Owned(c) \ F
           /\ Cardinality(Owned(c)') = Cardinality(Owned(c)) - Cardinality(F \cap Owned(c))
  <2>1. \A s \in Slot : Aged(pending[s]).on = pending[s].on /\ Aged(pending[s]).ch = pending[s].ch
    BY AgedType DEF TypeOK
  <2>2. \A s \in Slot :
          IF s \in F THEN pending'[s] = Cleared
          ELSE pending'[s].on = pending[s].on /\ pending'[s].ch = pending[s].ch
    BY <1>2, <2>1
  <2> QED
    BY <1>4, <2>2, SlotsFreed
<1>6. \A c \in Channel :
        /\ inFlight[c] = Cardinality(Owned(c)) /\ inFlight[c] \in Nat
        /\ Cardinality(X \cap Owned(c)) \in Nat
        /\ left[c] = Cardinality(Owned(c)) - Cardinality(X \cap Owned(c))
        /\ left[c] = Cardinality(Owned(c) \ X)
  <2> TAKE c \in Channel
  <2>1. Owned(c) \in SUBSET Slot /\ X \cap Owned(c) \in SUBSET Owned(c)
    BY PendingSets
  <2>2. inFlight[c] = Cardinality(Owned(c)) /\ inFlight[c] \in Nat
    BY DEF IInv, InFlightExact, TypeOK
  <2>3. /\ Cardinality(X \cap Owned(c)) \in Nat
        /\ Cardinality(X \cap Owned(c)) <= Cardinality(Owned(c))
    BY <2>1, SlotSets
  <2>4. Cardinality(Owned(c) \ (X \cap Owned(c)))
          = Cardinality(Owned(c)) - Cardinality(X \cap Owned(c))
    BY <2>1, SlotDifference
  <2>5. Owned(c) \ (X \cap Owned(c)) = Owned(c) \ X
    OBVIOUS
  <2> QED
    BY <2>2, <2>3, <2>4, <2>5, MinusFacts
<1>7. \A c \in closed : Owned(c) \subseteq F
  <2> TAKE c \in closed
  <2>1. CASE fate[c] = "drop"
    BY <2>1, PendingSets DEF Reclaimable, Owned
  <2>2. CASE fate[c] = "reset" /\ state[c] # "ACTIVE"
    BY <2>2 DEF IInv, OwnersActive
  <2>3. CASE fate[c] = "reset" /\ state[c] = "ACTIVE"
    <3>1. left[c] = 0
      BY <1>3, <2>3 DEF Fates
    <3>2. IsFiniteSet(Owned(c) \ X) /\ Cardinality(Owned(c) \ X) = 0
      BY <1>6, <3>1, PendingSets, SlotSets
    <3> QED
      BY <3>2, FS_EmptySet
  <2> QED
    BY <2>1, <2>2, <2>3
<1>8. \A c \in Channel : c \notin closed => F \cap Owned(c) = X \cap Owned(c)
  BY DEF Reclaimable, Owned
<1>9. ASSUME NEW c \in Channel PROVE inFlight'[c] = Cardinality(Owned(c)')
  <2>1. CASE c \in closed
    <3>1. Owned(c)' = {}
      BY <1>5, <1>7, <2>1
    <3> QED
      BY <1>2, <2>1, <3>1, FS_EmptySet
  <2>2. CASE c \notin closed
    BY <1>2, <1>5, <1>6, <1>8, <2>2
  <2> QED
    BY <2>1, <2>2
<1>10. total' = total - Cardinality(X) - Cardinality(gone) /\ total' = Cardinality(Pending')
  <2>1. Pending \in SUBSET Slot /\ Pending \ X \in SUBSET Slot
    BY PendingSets
  <2>2. /\ Cardinality(Pending \ X) = Cardinality(Pending) - Cardinality(X)
        /\ Cardinality(Pending) \in Nat /\ Cardinality(X) \in Nat
        /\ Cardinality(Pending \ X) \in Nat
    BY <2>1, <1>4, SlotDifference
  <2>3. /\ Cardinality((Pending \ X) \ gone) = Cardinality(Pending \ X) - Cardinality(gone)
        /\ Cardinality((Pending \ X) \ gone) \in Nat /\ Cardinality(gone) \in Nat
    BY <2>1, <1>4, SlotDifference
  <2>4. Pending' = (Pending \ X) \ gone
    BY <1>5
  <2>5. total = Cardinality(Pending)
    BY DEF IInv, InFlightExact
  <2>6. Minus(total, Cardinality(X)) = total - Cardinality(X)
    BY <2>2, <2>5, MinusFacts
  <2>7. Minus(total - Cardinality(X), Cardinality(gone)) = total - Cardinality(X) - Cardinality(gone)
    BY <2>2, <2>3, <2>5, MinusFacts
  <2> QED
    BY <1>2, <2>2, <2>3, <2>4, <2>5, <2>6, <2>7
<1>11. InFlightExact'
  BY <1>9, <1>10 DEF InFlightExact
<1>12. OwnersActive'
  <2> SUFFICES ASSUME NEW c \in Channel, state'[c] # "ACTIVE" PROVE Owned(c)' = {}
    BY DEF OwnersActive
  <2>1. CASE c \in closed
    BY <1>5, <1>7, <2>1
  <2>2. CASE c \notin closed
    BY <1>2, <1>5, <2>2 DEF IInv, OwnersActive
  <2> QED
    BY <2>1, <2>2
<1>13. CapRespected'
  BY <1>5, <1>11, CapKept
<1>14. Conservation'
  <2>1. /\ dispatched \in Nat /\ returned \in Nat /\ timedOut \in Nat
        /\ reclaimed \in Nat /\ total \in Nat
    BY DEF TypeOK
  <2>2. dispatched = returned + timedOut + reclaimed + total
    BY DEF IInv, Conservation
  <2>3. dispatched' = dispatched /\ returned' = returned
    BY DEF Tick, PassFinding
  <2>4. Cardinality(X) \in Nat /\ Cardinality(gone) \in Nat
    BY <1>4, PendingSets, SlotSets
  <2>5. /\ timedOut' = timedOut + Cardinality(X)
        /\ reclaimed' = reclaimed + Cardinality(gone)
        /\ total' = total - Cardinality(X) - Cardinality(gone)
    BY <1>2, <1>10
  <2> HIDE DEF gone
  <2>6. dispatched' = returned' + timedOut' + reclaimed' + total'
    BY <2>1, <2>2, <2>3, <2>4, <2>5
  <2> QED
    BY <2>6 DEF Conservation
<1> QED
  BY <1>11, <1>12, <1>13, <1>14 DEF IInv

\* The invariant is inductive: one case per action.
LEMMA InductiveStep ==
  ASSUME TypeOK, IInv, [Next]_vars
  PROVE  IInv'
<1>1. CASE UNCHANGED vars
  BY <1>1, TableKept DEF vars, countVars, chanVars
<1>2. CASE TryOffload
  <2>1. \A c \in Channel : state[c] = "ACTIVE" => state'[c] = "ACTIVE"
    BY <1>2 DEF TryOffload, TypeOK
  <2> QED
    BY <1>2, <2>1, TableKept DEF TryOffload, countVars
<1>3. ASSUME NEW c \in Channel, Accepted(c) PROVE IInv'
  <2>1. \A d \in Channel : state[d] = "ACTIVE" => state'[d] = "ACTIVE"
    BY <1>3 DEF Accepted, TypeOK
  <2> QED
    BY <1>3, <2>1, TableKept DEF Accepted, countVars
<1>4. ASSUME NEW c \in Channel, Refused(c) PROVE IInv'
  <2>1. Owned(c) = {} /\ inFlight[c] = 0
    BY <1>4, FS_EmptySet DEF Refused, IInv, OwnersActive, InFlightExact
  <2>2. inFlight' = inFlight
    BY <1>4, <2>1 DEF Refused, TypeOK
  <2>3. \A d \in Channel : state[d] = "ACTIVE" => state'[d] = "ACTIVE"
    BY <1>4 DEF Refused, Rewire
  <2> QED
    BY <1>4, <2>2, <2>3, TableKept DEF Refused, tableVars, countVars
<1>5. CASE StartCycle \/ DispatchBusy \/ DispatchUnsent
  BY <1>5, TableKept DEF StartCycle, DispatchBusy, DispatchUnsent, chanVars, countVars
<1>6. CASE DispatchSent
  BY <1>6, DispatchKeeps
<1>7. ASSUME NEW c \in Channel, Send(c) \/ HostGone(c) PROVE IInv'
  BY <1>7, TableKept DEF Send, HostGone, chanVars, countVars
<1>8. ASSUME NEW c \in Channel, SendFails(c) PROVE IInv'
  BY <1>8, LoseChannelKeeps DEF SendFails
<1>9. ASSUME NEW r \in readers, ReadResult(r) \/ SplitResult(r) PROVE IInv'
  BY <1>9, TableKept DEF ReadResult, SplitResult, Reads, chanVars, countVars
<1>10. ASSUME NEW r \in readers, ReaderEnds(r) PROVE IInv'
  <2>1. r.ch \in Channel
    BY DEF TypeOK, Reader
  <2>2. UNCHANGED <<dispatched, returned, timedOut>>
    BY <1>10 DEF ReaderEnds
  <2>3. CASE LoseChannel(r.ch)
    BY <2>1, <2>2, <2>3, LoseChannelKeeps
  <2>4. CASE UNCHANGED <<chanVars, flowVars, tableVars, reclaimed>>
    BY <2>2, <2>4, TableKept DEF chanVars
  <2> QED
    BY <1>10, <2>3, <2>4 DEF ReaderEnds
<1>11. ASSUME NEW h \in held, HandleResult(h) PROVE IInv'
  BY <1>11, ResultKeeps
<1>12. CASE Tick
  BY <1>12, TickKeeps
<1> QED
  BY <1>1, <1>2, <1>3, <1>4, <1>5, <1>6, <1>7, <1>8, <1>9, <1>10, <1>11, <1>12 DEF Next

LEMMA InitInductive == Init => IInv
<1> SUFFICES ASSUME Init PROVE IInv
  OBVIOUS
<1>1. Pending = {} /\ \A c \in Channel : Owned(c) = {}
  BY DEF Init, Pending, Owned, Cleared
<1>2. Cardinality({}) = 0
  BY FS_EmptySet
<1>3. InFlightExact
  BY <1>1, <1>2 DEF Init, InFlightExact
<1>4. OwnersActive
  BY <1>1 DEF OwnersActive
<1>5. CapRespected
  BY PipelineConstants DEF Init, CapRespected
<1>6. Conservation
  BY DEF Init, Conservation
<1> QED
  BY <1>3, <1>4, <1>5, <1>6 DEF IInv

\* The inductive invariant of the pending table.
THEOREM InductiveInvariant == Spec => []IInv
<1>1. TypeOK /\ IInv /\ [Next]_vars => IInv'
  BY InductiveStep
<1> QED
  BY <1>1, InitInductive, TypeCorrect, PTL DEF Spec

\* in_flight_count and deleg_inflight_total are exact, for any number of
\* channels and slots and any interleaving of the handlers.
THEOREM InFlightCorrect == Spec => []InFlightExact
BY InductiveInvariant, PTL DEF IInv

\* No channel ever has more blocks out than the cap.
THEOREM CapCorrect == Spec => []CapRespected
BY InductiveInvariant, PTL DEF IInv

\* Every block dispatched is accounted for once.
THEOREM ConservationCorrect == Spec => []Conservation
BY InductiveInvariant, PTL DEF IInv
=============================================================================
