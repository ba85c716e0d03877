----------------------- MODULE WorkPipelineFlowProofs -----------------------
(***************************************************************************)
(* More proofs about WorkPipeline, on top of the invariant of the pending  *)
(* table: frames, results and late notices, and that the pipeline          *)
(* implements ChannelFlow.                                                 *)
(***************************************************************************)
EXTENDS WorkPipelineProofs, SequenceTheorems

-----------------------------------------------------------------------------
(***************************************************************************)
(* What a queue of frames holds.                                           *)
(***************************************************************************)

LEMMA NoElements == Elements(<< >>) = {}
BY DEF Elements

LEMMA ElementsOfAppend ==
  ASSUME NEW S, NEW q \in Seq(S), NEW x \in S
  PROVE  Elements(Append(q, x)) = Elements(q) \cup {x}
<1> DEFINE a == Append(q, x)
<1>1. /\ Len(a) = Len(q) + 1 /\ a \in Seq(S)
      /\ \A i \in 1 .. Len(q) : a[i] = q[i]
      /\ a[Len(q) + 1] = x
  BY AppendProperties
<1>2. DOMAIN a = 1 .. Len(q) + 1 /\ DOMAIN q = 1 .. Len(q) /\ Len(q) \in Nat
  BY <1>1, LenProperties
<1> HIDE DEF a
<1>3. Elements(a) = Elements(q) \cup {x}
  <2>1. \A i \in DOMAIN a : a[i] \in Elements(q) \cup {x}
    BY <1>1, <1>2 DEF Elements
  <2>2. \A i \in DOMAIN q : q[i] \in Elements(a)
    BY <1>1, <1>2 DEF Elements
  <2>3. x \in Elements(a)
    BY <1>1, <1>2 DEF Elements
  <2> QED
    BY <2>1, <2>2, <2>3 DEF Elements
<1> QED
  BY <1>3 DEF a

LEMMA ElementsOfTail ==
  ASSUME NEW S, NEW q \in Seq(S), q # << >>
  PROVE  /\ Head(q) \in S /\ Head(q) \in Elements(q)
         /\ Elements(q) = {Head(q)} \cup Elements(Tail(q))
<1>1. /\ Head(q) \in S /\ Head(q) = q[1] /\ Tail(q) \in Seq(S)
      /\ Len(Tail(q)) = Len(q) - 1
      /\ \A i \in 1 .. Len(Tail(q)) : Tail(q)[i] = q[i + 1]
  BY HeadTailProperties
<1>2. /\ DOMAIN q = 1 .. Len(q) /\ DOMAIN Tail(q) = 1 .. Len(Tail(q))
      /\ Len(q) \in Nat /\ Len(q) >= 1
  BY <1>1, LenProperties, EmptySeq
<1> DEFINE t == Tail(q)
<1>3. t = Tail(q)
  OBVIOUS
<1> HIDE DEF t
<1>4. 1 \in DOMAIN q /\ Head(q) \in Elements(q)
  BY <1>1, <1>2 DEF Elements
<1>5. \A i \in DOMAIN q : q[i] \in {Head(q)} \cup Elements(t)
  <2> SUFFICES ASSUME NEW i \in DOMAIN q, i # 1 PROVE q[i] \in Elements(t)
    BY <1>1
  <2>1. i - 1 \in DOMAIN t /\ t[i - 1] = q[i]
    BY <1>1, <1>2, <1>3
  <2> QED
    BY <2>1 DEF Elements
<1>6. \A i \in DOMAIN t : t[i] \in Elements(q)
  BY <1>1, <1>2, <1>3 DEF Elements
<1>7. Elements(q) = {Head(q)} \cup Elements(t)
  BY <1>4, <1>5, <1>6 DEF Elements
<1> QED
  BY <1>1, <1>3, <1>4, <1>7
-----------------------------------------------------------------------------
(***************************************************************************)
(* The invariant of frames, results and slots.                             *)
(*                                                                         *)
(* A result names its dispatch by a (cycle, block) pair alone.  That it    *)
(* never frees another slot rests on four facts: pairs are never used      *)
(* twice, a frame stays on the connection it was queued for whoever reads  *)
(* it, only a connected ACTIVE channel has frames or slots, and a frame    *)
(* with the pair of a slot belongs to the channel of that slot.            *)
(***************************************************************************)

\* The pair (x, y) was passed by the dispatch loop.
Before(x, y) == x < cycle \/ (x = cycle /\ y < next)

Frames(c) == Elements(queue[c]) \cup Elements(wire[c])

KeysOld == \A s \in Pending : Before(pending[s].cycle, pending[s].block)

SlotsConnected ==
  \A s \in Pending :
    /\ pending[s].ch \in Channel
    /\ state[pending[s].ch] = "ACTIVE" /\ fd[pending[s].ch] # NoFd

FramesOwn ==
  \A c \in Channel : \A f \in Frames(c) :
    /\ state[c] = "ACTIVE" /\ fd[c] # NoFd
    /\ f.ch = c /\ f.conn = dials[c]
    /\ Before(f.cycle, f.block)

HeldOld == \A h \in held : Before(h.frame.cycle, h.frame.block)

\* The frame carries the pair of the slot.
Names(f, s) == pending[s].cycle = f.cycle /\ pending[s].block = f.block

FramesHome == \A c \in Channel : \A f \in Frames(c), s \in Pending : Names(f, s) => pending[s].ch = c

CurrentOnly ==
  \A s \in Pending, h \in held : Names(h.frame, s) =>
    h.frame.ch = pending[s].ch /\ h.frame.conn = dials[pending[s].ch]

RInv ==
  /\ KeysOld /\ KeysUnique /\ SlotsConnected /\ FramesOwn /\ FramesHome
  /\ HeldOld /\ CurrentOnly /\ PendingOnItsWay

\* What all steps but a dispatch do.  Slots are freed, never retargeted.
Shrinks ==
  \A s \in Pending' :
    /\ s \in Pending
    /\ pending'[s].cycle = pending[s].cycle
    /\ pending'[s].block = pending[s].block
    /\ pending'[s].ch = pending[s].ch

\* The dispatch loop goes forward.
Later == \A x, y \in Nat : Before(x, y) => Before(x, y)'

\* A channel is left with nothing.
Void(c) == Frames(c)' = {} /\ Owned(c)' = {}

\* Or it keeps its connection, and every frame that some slot waits for, unless
\* another connection's receiver reads from it.
Kept(c) ==
  /\ state'[c] = state[c] /\ fd'[c] = fd[c] /\ dials'[c] = dials[c] /\ (up'[c] => up[c])
  /\ Frames(c)' \subseteq Frames(c)
  /\ up'[c] /\ c \notin mixed' =>
       /\ c \notin mixed
       /\ \A f \in Frames(c) :
            f \in Frames(c)' \/ \E h \in held' : h.reader.ch = c /\ h.frame = f
       /\ \A h \in held : h \in held' \/ \A s \in Pending' : ~Credits(s, h)

\* Results are read from the frames of a channel that keeps its connection.
HeldFrom ==
  \A h \in held' : h \in held \/ \E c \in Channel : Kept(c) /\ h.frame \in Frames(c)

LEMMA FrameTypes ==
  ASSUME TypeOK
  PROVE  /\ \A c \in Channel : Frames(c) \subseteq Key
         /\ \A h \in held : h.frame \in Key /\ h.reader.ch \in Channel
         /\ \A s \in Pending : pending[s].cycle \in Nat /\ pending[s].block \in Nat
<1>1. \A c \in Channel : queue[c] \in Seq(Key) /\ wire[c] \in Seq(Key)
  BY DEF TypeOK
<1>2. \A q \in Seq(Key) : \A i \in DOMAIN q : q[i] \in Key
  OBVIOUS
<1>3. \A c \in Channel : Frames(c) \subseteq Key
  BY <1>1, <1>2 DEF Frames, Elements
<1>4. \A s \in Pending : pending[s] \in Entry
  BY DEF TypeOK, Pending
<1> QED
  BY <1>3, <1>4 DEF TypeOK, Entry, Result, Reader

LEMMA ShrinkKeeps ==
  ASSUME TypeOK, RInv, IInv, OwnersActive', Shrinks, Later, HeldFrom,
         \A c \in Channel : Void(c) \/ Kept(c)
  PROVE  RInv'
<1>1. /\ \A c \in Channel : Frames(c) \subseteq Key
      /\ \A h \in held : h.frame \in Key /\ h.reader.ch \in Channel
      /\ \A s \in Pending : pending[s].cycle \in Nat /\ pending[s].block \in Nat
  BY FrameTypes
<1>2. KeysOld'
  <2> SUFFICES ASSUME NEW s \in Pending'
               PROVE  \/ pending'[s].cycle < cycle'
                      \/ pending'[s].cycle = cycle' /\ pending'[s].block < next'
    BY DEF KeysOld, Before
  <2>1. /\ s \in Pending
        /\ pending'[s].cycle = pending[s].cycle /\ pending'[s].block = pending[s].block
    BY DEF Shrinks
  <2>2. Before(pending[s].cycle, pending[s].block)
    BY <2>1 DEF RInv, KeysOld
  <2> QED
    BY <1>1, <2>1, <2>2 DEF Later, Before
<1>3. KeysUnique'
  BY DEF RInv, KeysUnique, Shrinks
<1>4. \A c \in Channel : Owned(c)' \subseteq Owned(c)
  BY DEF Shrinks, Owned
<1>5. ASSUME NEW s \in Pending'
      PROVE  /\ s \in Pending /\ pending'[s].ch = pending[s].ch
             /\ pending[s].ch \in Channel /\ Kept(pending[s].ch)
             /\ state[pending[s].ch] = "ACTIVE" /\ fd[pending[s].ch] # NoFd
  <2>1. s \in Pending /\ pending'[s].ch = pending[s].ch
    BY DEF Shrinks
  <2>2. /\ pending[s].ch \in Channel
        /\ state[pending[s].ch] = "ACTIVE" /\ fd[pending[s].ch] # NoFd
    BY <2>1 DEF RInv, SlotsConnected
  <2>3. \A c \in Channel : pending'[s].ch = c => s \in Owned(c)'
    BY DEF Owned
  <2>4. ~Void(pending[s].ch)
    BY <2>1, <2>2, <2>3 DEF Void
  <2> QED
    BY <2>1, <2>2, <2>4
<1>12. SlotsConnected'
  <2> SUFFICES ASSUME NEW s \in Pending'
               PROVE  /\ pending'[s].ch \in Channel
                      /\ state'[pending'[s].ch] = "ACTIVE" /\ fd'[pending'[s].ch] # NoFd
    BY DEF SlotsConnected
  <2> QED
    BY <1>5 DEF Kept
<1>6. \A c \in Channel : \A f \in Frames(c) :
        Before(f.cycle, f.block) => f.cycle < cycle' \/ (f.cycle = cycle' /\ f.block < next')
  BY <1>1 DEF Later, Before, Key
<1>7. FramesOwn'
  <2> SUFFICES ASSUME NEW c \in Channel, NEW f \in Frames(c)'
               PROVE  /\ state'[c] = "ACTIVE" /\ fd'[c] # NoFd
                      /\ f.ch = c /\ f.conn = dials'[c]
                      /\ f.cycle < cycle' \/ (f.cycle = cycle' /\ f.block < next')
    BY DEF FramesOwn, Before
  <2>1. Kept(c) /\ f \in Frames(c)
    BY DEF Void, Kept
  <2>2. /\ state[c] = "ACTIVE" /\ fd[c] # NoFd
        /\ f.ch = c /\ f.conn = dials[c] /\ Before(f.cycle, f.block)
    BY <2>1 DEF RInv, FramesOwn
  <2> QED
    BY <1>6, <2>1, <2>2 DEF Kept
<1>13. FramesHome'
  <2> SUFFICES ASSUME NEW c \in Channel, NEW f \in Frames(c)', NEW s \in Pending',
                      pending'[s].cycle = f.cycle, pending'[s].block = f.block
               PROVE  pending'[s].ch = c
    BY DEF FramesHome, Names
  <2>1. f \in Frames(c)
    BY DEF Void, Kept
  <2>2. s \in Pending /\ Names(f, s) /\ pending'[s].ch = pending[s].ch
    BY DEF Shrinks, Names
  <2> QED
    BY <2>1, <2>2 DEF RInv, FramesHome
<1>8. HeldOld'
  <2> SUFFICES ASSUME NEW h \in held'
               PROVE  \/ h.frame.cycle < cycle'
                      \/ h.frame.cycle = cycle' /\ h.frame.block < next'
    BY DEF HeldOld, Before
  <2>1. CASE h \in held
    <3>1. /\ Before(h.frame.cycle, h.frame.block)
          /\ h.frame.cycle \in Nat /\ h.frame.block \in Nat
      BY <1>1, <2>1 DEF RInv, HeldOld, Key
    <3> QED
      BY <3>1 DEF Later, Before
  <2>2. CASE \E c \in Channel : h.frame \in Frames(c)
    BY <1>6, <2>2 DEF RInv, FramesOwn
  <2> QED
    BY <2>1, <2>2 DEF HeldFrom
<1>9. ASSUME NEW s \in Pending', NEW f, NEW c
      PROVE  /\ Matches(s, f, c)' <=> /\ pending[s].cycle = f.cycle
                                      /\ pending[s].block = f.block
                                      /\ pending[s].ch = c
             /\ Matches(s, f, c)' <=> Matches(s, f, c)
  BY DEF Shrinks, Matches
<1>10. CurrentOnly'
  <2> SUFFICES ASSUME NEW s \in Pending', NEW h \in held',
                      pending'[s].cycle = h.frame.cycle, pending'[s].block = h.frame.block
               PROVE  h.frame.ch = pending'[s].ch /\ h.frame.conn = dials'[pending'[s].ch]
    BY DEF CurrentOnly, Names
  <2>1. s \in Pending /\ Names(h.frame, s) /\ pending'[s].ch = pending[s].ch
    BY DEF Shrinks, Names
  <2>2. Kept(pending[s].ch)
    BY <1>5
  <2>3. CASE h \in held
    BY <2>1, <2>2, <2>3 DEF Kept, RInv, CurrentOnly
  <2>4. ASSUME NEW c \in Channel, h.frame \in Frames(c) PROVE h.frame.ch = c /\ h.frame.conn = dials[c] /\ pending[s].ch = c
    BY <2>1, <2>4 DEF RInv, FramesOwn, FramesHome
  <2> QED
    BY <2>1, <2>2, <2>3, <2>4 DEF HeldFrom, Kept
<1>11. PendingOnItsWay'
  <2> SUFFICES ASSUME NEW s \in Pending', NEW c, c = pending'[s].ch, up'[c], c \notin mixed'
               PROVE  \/ \E f \in Frames(c)' : f.conn = dials'[c] /\ Matches(s, f, c)'
                      \/ \E h \in held' :
                           h.reader.ch = c /\ h.frame.conn = dials'[c] /\ Matches(s, h.frame, c)'
    BY DEF PendingOnItsWay, Frames
  <2>1. s \in Pending /\ c = pending[s].ch /\ c \in Channel /\ Kept(c)
    BY <1>5
  <2>2. up[c] /\ c \notin mixed /\ dials'[c] = dials[c]
    BY <2>1 DEF Kept
  <2>3. \/ \E f \in Frames(c) : f.conn = dials[c] /\ Matches(s, f, c)
        \/ \E h \in held : h.reader.ch = c /\ h.frame.conn = dials[c] /\ Matches(s, h.frame, c)
    BY <2>1, <2>2 DEF RInv, PendingOnItsWay, Frames
  <2>4. ASSUME NEW f \in Frames(c), f.conn = dials[c], Matches(s, f, c)
        PROVE  \/ f \in Frames(c)' /\ f.conn = dials'[c] /\ Matches(s, f, c)'
               \/ \E h \in held' :
                    h.reader.ch = c /\ h.frame.conn = dials'[c] /\ Matches(s, h.frame, c)'
    <3>1. f \in Frames(c)' \/ \E h \in held' : h.reader.ch = c /\ h.frame = f
      BY <2>1 DEF Kept
    <3>2. Matches(s, f, c)'
      BY <1>9, <2>4
    <3> QED
      BY <2>2, <2>4, <3>1, <3>2
  <2>5. ASSUME NEW h \in held, h.reader.ch = c, h.frame.conn = dials[c], Matches(s, h.frame, c)
        PROVE  h \in held' /\ h.frame.conn = dials'[c] /\ Matches(s, h.frame, c)'
    <3>1. h \in held' \/ ~Credits(s, h)
      BY <2>1 DEF Kept
    <3>2. Matches(s, h.frame, c)'
      BY <1>9, <2>5
    <3> QED
      BY <2>2, <2>5, <3>1, <3>2 DEF Credits
  <2> QED
    BY <2>3, <2>4, <2>5
<1> QED
  BY <1>2, <1>3, <1>12, <1>7, <1>13, <1>8, <1>10, <1>11 DEF RInv

\* A channel nothing happens to.
LEMMA UntouchedKept ==
  ASSUME NEW c \in Channel, held' = held, c \in mixed => c \in mixed',
         state'[c] = state[c], fd'[c] = fd[c] /\ dials'[c] = dials[c], up'[c] = up[c],
         queue'[c] = queue[c], wire'[c] = wire[c]
  PROVE  Kept(c)
<1>1. Frames(c)' = Frames(c)
  BY DEF Frames
<1> QED
  BY <1>1 DEF Kept

\* A channel with no frames or slots stays so when it only changes its state.
LEMMA EmptyVoid ==
  ASSUME TypeOK, RInv, IInv, NEW c \in Channel, state[c] # "ACTIVE",
         queue'[c] = queue[c], wire'[c] = wire[c], Shrinks
  PROVE  Void(c)
<1>1. Frames(c)' = Frames(c) /\ Frames(c) = {}
  BY DEF Frames, RInv, FramesOwn
<1>2. Owned(c) = {}
  BY DEF IInv, OwnersActive
<1> QED
  BY <1>1, <1>2 DEF Void, Owned, Shrinks

LEMMA ShrinksIfSame ==
  ASSUME pending' = pending PROVE Shrinks
BY DEF Shrinks, Pending

LEMMA LaterIfSame ==
  ASSUME UNCHANGED <<cycle, next>> PROVE Later
BY DEF Later, Before

\* Channels closed and channels connected.
LEMMA RewireKeeps ==
  ASSUME TypeOK, RInv, IInv, OwnersActive', Shrinks,
         NEW closed \in SUBSET Channel, NEW dialed \in SUBSET Channel,
         \A c \in dialed : fd[c] = NoFd,
         Rewire(closed, dialed), held' = held, UNCHANGED <<cycle, next>>
  PROVE  RInv'
<1>1. ASSUME NEW c \in closed \cup dialed PROVE Void(c)
  <2>1. queue'[c] = << >> /\ wire'[c] = << >>
    BY DEF Rewire
  <2>2. Frames(c)' = {}
    BY <2>1, NoElements DEF Frames
  <2>3. CASE c \in closed
    <3>1. state'[c] = "IDLE"
      BY <2>3 DEF Rewire
    <3> QED
      BY <2>2, <2>3, <3>1 DEF OwnersActive, Void
  <2>4. CASE c \in dialed
    <3>1. Owned(c) = {}
      BY <2>4 DEF RInv, SlotsConnected, Owned
    <3> QED
      BY <2>2, <3>1 DEF Void, Owned, Shrinks
  <2> QED
    BY <2>3, <2>4
<1>2. ASSUME NEW c \in Channel, c \notin closed \cup dialed PROVE Kept(c)
  <2>1. /\ state'[c] = state[c] /\ fd'[c] = fd[c] /\ dials'[c] = dials[c]
        /\ queue'[c] = queue[c] /\ wire'[c] = wire[c]
    BY <1>2 DEF Rewire
  <2>2. up'[c] = up[c] /\ (c \in mixed => c \in mixed')
    BY <1>2 DEF Rewire, TypeOK
  <2> QED
    BY <2>1, <2>2, UntouchedKept
<1>3. HeldFrom
  BY DEF HeldFrom
<1> QED
  BY <1>1, <1>2, <1>3, LaterIfSame, ShrinkKeeps

\* A channel lost with its slots.
LEMMA LossKeepsFlow ==
  ASSUME TypeOK, RInv, IInv, OwnersActive', NEW c \in Channel, LoseChannel(c),
         held' = held, UNCHANGED <<cycle, next>>
  PROVE  RInv'
<1>1. Shrinks
  BY DEF LoseChannel, Shrinks, Pending, Cleared
<1>2. Rewire({c}, {})
  BY DEF LoseChannel
<1> QED
  BY <1>1, <1>2, RewireKeeps

\* A pass of the manager; it connects only channels that have no socket.
LEMMA TickKeepsFlow ==
  ASSUME TypeOK, RInv, IInv, OwnersActive', Tick
  PROVE  RInv'
<1>1. PICK X \in SUBSET Pending, low \in BOOLEAN,
           fate \in [Channel -> {"keep", "reset", "drop", "dial"}] :
        LET left == [c \in Channel |-> Minus(inFlight[c], Cardinality(X \cap Owned(c)))]
        IN  /\ \A c \in Channel : fate[c] \in Fates(c, low, left[c])
            /\ Pass(X, left, fate)
  BY DEF Tick, PassFinding
<1> DEFINE left    == [c \in Channel |-> Minus(inFlight[c], Cardinality(X \cap Owned(c)))]
           dropped == {c \in Channel : fate[c] = "drop"}
           closed  == {c \in Channel : fate[c] \in {"drop", "reset"}}
           dialed  == {c \in Channel : fate[c] = "dial"}
           gone    == Reclaimable(dropped) \ X
<1>2. /\ pending' = [s \in Slot |->
           IF s \in X \cup gone THEN Cleared
           ELSE IF s \in Pending THEN Aged(pending[s]) ELSE pending[s]]
      /\ Rewire(closed, dialed)
  BY <1>1 DEF Pass
<1>3. \A c \in dialed : fd[c] = NoFd
  <2> TAKE c \in dialed
  <2>1. "dial" \in Fates(c, low, left[c])
    BY <1>1
  <2> QED
    BY <2>1 DEF Fates, TypeOK
<1>4. Shrinks
  <2>1. \A s \in Slot : LET a == Aged(pending[s]) IN
          /\ a.on = pending[s].on /\ a.ch = pending[s].ch
          /\ a.cycle = pending[s].cycle /\ a.block = pending[s].block
    BY AgedType DEF TypeOK
  <2> QED
    BY <1>2, <2>1 DEF Shrinks, Pending, Cleared
<1>5. UNCHANGED <<held, cycle, next>>
  BY DEF Tick, PassFinding, loopVars
<1> QED
  BY <1>2, <1>3, <1>4, <1>5, RewireKeeps

\* The actions that open channels, and the dispatch loop when it sends nothing.
LEMMA ControlKeepsFlow ==
  ASSUME TypeOK, RInv, IInv, OwnersActive',
         \/ TryOffload \/ StartCycle \/ DispatchBusy \/ DispatchUnsent
         \/ \E c \in Channel : Accepted(c)
  PROVE  RInv'
<1>1. UNCHANGED <<held, pending, queue, wire, mixed>>
  BY DEF TryOffload, StartCycle, DispatchBusy, DispatchUnsent, Accepted, flowVars, tableVars
<1>2. Shrinks /\ HeldFrom
  BY <1>1, ShrinksIfSame DEF HeldFrom
<1>3. Later
  <2>1. CASE StartCycle
    BY <2>1 DEF StartCycle, CycleIncrement, Later, Before, TypeOK
  <2>2. CASE DispatchBusy \/ DispatchUnsent
    BY <2>2 DEF DispatchBusy, DispatchUnsent, Later, Before, TypeOK
  <2>3. CASE TryOffload \/ \E c \in Channel : Accepted(c)
    BY <2>3, LaterIfSame DEF TryOffload, Accepted, loopVars
  <2> QED
    BY <2>1, <2>2, <2>3
<1>4. ASSUME NEW d \in Channel PROVE Void(d) \/ Kept(d)
  <2>1. CASE state[d] # "ACTIVE"
    BY <1>1, <1>2, <2>1, EmptyVoid
  <2>2. CASE state[d] = "ACTIVE"
    <3>1. state'[d] = state[d] /\ fd'[d] = fd[d] /\ dials'[d] = dials[d] /\ up'[d] = up[d]
      BY <2>2 DEF TryOffload, StartCycle, DispatchBusy, DispatchUnsent, Accepted, chanVars, TypeOK
    <3> QED
      BY <1>1, <3>1, UntouchedKept
  <2> QED
    BY <2>1, <2>2
<1> QED
  BY <1>2, <1>3, <1>4, ShrinkKeeps

\* The sender, the host that goes away, and the receiver: frames move along
\* their own connection, and are lost only when the far end is gone.
LEMMA FramesMove ==
  ASSUME TypeOK, RInv, IInv, OwnersActive',
         \/ \E c \in Channel : Send(c) \/ HostGone(c)
         \/ \E r \in readers : ReadResult(r) \/ SplitResult(r)
  PROVE  RInv'
<1>1. UNCHANGED <<state, fd, dials, pending, cycle, next>>
  BY DEF Send, HostGone, ReadResult, SplitResult, Reads, chanVars, tableVars, loopVars
<1>2. Shrinks /\ Later
  BY <1>1, ShrinksIfSame, LaterIfSame
<1>3. ASSUME NEW c \in Channel, Send(c) PROVE RInv'
  <2>1. queue[c] \in Seq(Key) /\ wire[c] \in Seq(Key) /\ queue[c] # << >>
    BY <1>3 DEF Send, TypeOK
  <2>2. /\ Head(queue[c]) \in Key
        /\ Elements(queue[c]) = {Head(queue[c])} \cup Elements(Tail(queue[c]))
    BY <2>1, ElementsOfTail
  <2>3. Elements(Append(wire[c], Head(queue[c]))) = Elements(wire[c]) \cup {Head(queue[c])}
    BY <2>1, <2>2, ElementsOfAppend
  <2>4. /\ queue'[c] = Tail(queue[c])
        /\ wire'[c] = IF up[c] THEN Append(wire[c], Head(queue[c])) ELSE wire[c]
        /\ \A d \in Channel : d # c => queue'[d] = queue[d] /\ wire'[d] = wire[d]
        /\ up' = up /\ held' = held /\ mixed' = mixed
    BY <1>3 DEF Send, TypeOK, chanVars
  <2>5. Kept(c)
    <3>1. Frames(c)' = Elements(queue'[c]) \cup Elements(wire'[c])
      BY DEF Frames
    <3>2. CASE up[c]
      BY <1>1, <2>2, <2>3, <2>4, <3>1, <3>2 DEF Kept, Frames
    <3>3. CASE ~up[c]
      BY <1>1, <2>2, <2>4, <3>1, <3>3 DEF Kept, Frames
    <3> QED
      BY <3>2, <3>3
  <2>6. \A d \in Channel : d # c => Kept(d)
    BY <1>1, <2>4, UntouchedKept
  <2>7. HeldFrom
    BY <2>4 DEF HeldFrom
  <2> QED
    BY <1>2, <2>5, <2>6, <2>7, ShrinkKeeps
<1>4. ASSUME NEW c \in Channel, HostGone(c) PROVE RInv'
  <2>1. /\ queue' = queue /\ held' = held /\ mixed' = mixed
        /\ wire'[c] = << >> /\ up'[c] = FALSE
        /\ \A d \in Channel : d # c => up'[d] = up[d] /\ wire'[d] = wire[d]
    BY <1>4 DEF HostGone, TypeOK
  <2>2. Kept(c)
    BY <1>1, <2>1, NoElements DEF Kept, Frames
  <2>3. \A d \in Channel : d # c => Kept(d)
    BY <1>1, <2>1, UntouchedKept
  <2>4. HeldFrom
    BY <2>1 DEF HeldFrom
  <2> QED
    BY <1>2, <2>2, <2>3, <2>4, ShrinkKeeps
<1>5. ASSUME NEW r \in readers, ReadResult(r) \/ SplitResult(r) PROVE RInv'
  <2>1. PICK c \in Channel :
          /\ Reads(r, c)
          /\ \/ held' = held \cup {[frame |-> Head(wire[c]), reader |-> r]}
             \/ held' = held /\ ~Own(r, c)
    BY <1>5 DEF ReadResult, SplitResult
  <2> DEFINE k == [frame |-> Head(wire[c]), reader |-> r]
  <2>2. wire[c] \in Seq(Key) /\ wire[c] # << >>
    BY <2>1 DEF Reads, TypeOK
  <2>3. /\ Head(wire[c]) \in Elements(wire[c])
        /\ Elements(wire[c]) = {Head(wire[c])} \cup Elements(Tail(wire[c]))
    BY <2>2, ElementsOfTail
  <2>4. /\ queue' = queue /\ up' = up
        /\ mixed' = IF Own(r, c) THEN mixed ELSE mixed \cup {c}
        /\ wire'[c] = Tail(wire[c])
        /\ \A d \in Channel : d # c => wire'[d] = wire[d]
    BY <2>1 DEF Reads, TypeOK, chanVars
  <2>5. k.frame = Head(wire[c]) /\ k.reader = r
    OBVIOUS
  <2> HIDE DEF k
  <2>6. held \subseteq held' /\ held' \subseteq held \cup {k}
    BY <2>1 DEF k
  <2>7. Kept(c)
    <3>1. Frames(c)' = Elements(queue[c]) \cup Elements(Tail(wire[c]))
      BY <2>4 DEF Frames
    <3>2. Frames(c) = Frames(c)' \cup {Head(wire[c])}
      BY <2>3, <3>1 DEF Frames
    <3>3. CASE Own(r, c)
      <4>1. k \in held' /\ k.reader.ch = c
        BY <2>1, <2>5, <3>3 DEF Own, k
      <4> QED
        BY <1>1, <2>4, <2>5, <2>6, <3>2, <3>3, <4>1 DEF Kept
    <3>4. CASE ~Own(r, c)
      BY <1>1, <2>4, <3>2, <3>4 DEF Kept
    <3> QED
      BY <3>3, <3>4
  <2>8. \A d \in Channel : d # c => Kept(d)
    <3> TAKE d \in Channel
    <3> SUFFICES ASSUME d # c PROVE Kept(d)
      OBVIOUS
    <3>1. Frames(d)' = Frames(d)
      BY <2>4 DEF Frames
    <3> QED
      BY <1>1, <2>4, <2>6, <3>1 DEF Kept
  <2>9. HeldFrom
    BY <2>3, <2>5, <2>6, <2>7 DEF HeldFrom, Frames
  <2> QED
    BY <1>2, <2>7, <2>8, <2>9, ShrinkKeeps
<1> QED
  BY <1>3, <1>4, <1>5

\* A result leaves the hands of its receiver.  Once it is handled no slot
\* matches it: the one that did is freed, and pairs are unique.
LEMMA ResultKeepsFlow ==
  ASSUME TypeOK, RInv, IInv, OwnersActive', NEW h \in held, HandleResult(h)
  PROVE  RInv'
<1>1. /\ UNCHANGED <<state, fd, dials, mixed, up, queue, wire, cycle, next>>
      /\ held' = held \ {h}
  BY DEF HandleResult, chanVars, flowVars, loopVars
<1>2. Shrinks /\ \A s \in Pending' : ~Credits(s, h)
  <2>1. CASE (\A s \in Slot : ~Credits(s, h)) /\ pending' = pending
    BY <2>1, ShrinksIfSame DEF Pending
  <2>2. CASE \E s \in Slot : Credits(s, h) /\ pending' = [pending EXCEPT ![s] = Cleared]
    <3>1. PICK s \in Slot : Credits(s, h) /\ pending' = [pending EXCEPT ![s] = Cleared]
      BY <2>2
    <3>2. Pending' = Pending \ {s} /\ \A u \in Pending' : pending'[u] = pending[u]
      BY <3>1 DEF Pending, Cleared, TypeOK
    <3>3. \A u \in Pending : Credits(u, h) => u = s
      BY <3>1 DEF Credits, Matches, RInv, KeysUnique
    <3> QED
      BY <3>2, <3>3 DEF Shrinks
  <2> QED
    BY <2>1, <2>2 DEF HandleResult, tableVars
<1>3. ASSUME NEW c \in Channel PROVE Kept(c)
  <2>1. Frames(c)' = Frames(c)
    BY <1>1 DEF Frames
  <2> QED
    BY <1>1, <1>2, <2>1 DEF Kept
<1>4. HeldFrom
  BY <1>1 DEF HeldFrom
<1> QED
  BY <1>1, <1>2, <1>3, <1>4, LaterIfSame, ShrinkKeeps

\* What a dispatch does: a new slot, a new pair, a new frame.
LEMMA DispatchFacts ==
  ASSUME TypeOK, DispatchSent
  PROVE  \E s \in Slot, c \in Channel :
           /\ s \notin Pending /\ Pending' = Pending \cup {s}
           /\ pending'[s].cycle = cycle /\ pending'[s].block = next /\ pending'[s].ch = c
           /\ \A u \in Pending : pending'[u] = pending[u]
           /\ c \in Eligible /\ fd[c] # NoFd
           /\ Frames(c)' = Frames(c) \cup
                {[ch |-> c, conn |-> dials[c], cycle |-> cycle, block |-> next]}
           /\ \A d \in Channel : d # c => Frames(d)' = Frames(d)
           /\ UNCHANGED <<state, fd, dials, mixed, up, held, cycle>> /\ next' = next + 1
<1>1. PICK s \in Slot, c \in Channel :
        /\ FirstFree(s)
        /\ Turn(c)
        /\ CanEnqueue(c)
        /\ Enqueue(c)
        /\ pending' = [pending EXCEPT ![s] =
             [on |-> TRUE, cycle |-> cycle, block |-> next, ch |-> c, age |-> 0]]
  BY DEF DispatchSent
<1> DEFINE k == [ch |-> c, conn |-> dials[c], cycle |-> cycle, block |-> next]
<1>2. /\ pending'[s] = [on |-> TRUE, cycle |-> cycle, block |-> next, ch |-> c, age |-> 0]
      /\ \A u \in Slot : u # s => pending'[u] = pending[u]
  BY <1>1 DEF TypeOK
<1>3. s \notin Pending /\ c \in Eligible /\ fd[c] # NoFd
  BY <1>1 DEF FirstFree, Turn, CanEnqueue
<1>4. Pending' = Pending \cup {s} /\ \A u \in Pending : pending'[u] = pending[u]
  BY <1>2, <1>3 DEF Pending
<1>5. UNCHANGED <<state, fd, dials, mixed, up, held, cycle, wire>> /\ next' = next + 1
  BY DEF DispatchSent, chanVars
<1>6. k \in Key /\ queue[c] \in Seq(Key)
  BY DEF Key, TypeOK
<1>7. Elements(Append(queue[c], k)) = Elements(queue[c]) \cup {k}
  BY <1>6, ElementsOfAppend
<1>8. /\ queue'[c] = Append(queue[c], k)
      /\ \A d \in Channel : d # c => queue'[d] = queue[d]
  BY <1>1 DEF Enqueue, TypeOK
<1>9. /\ Frames(c)' = Frames(c) \cup {k}
      /\ \A d \in Channel : d # c => Frames(d)' = Frames(d)
  BY <1>5, <1>7, <1>8 DEF Frames
<1> QED
  BY <1>2, <1>3, <1>4, <1>5, <1>9

LEMMA DispatchKeepsFlow ==
  ASSUME TypeOK, RInv, DispatchSent
  PROVE  RInv'
<1>1. PICK s \in Slot, c \in Channel :
           /\ s \notin Pending /\ Pending' = Pending \cup {s}
           /\ pending'[s].cycle = cycle /\ pending'[s].block = next /\ pending'[s].ch = c
           /\ \A u \in Pending : pending'[u] = pending[u]
           /\ c \in Eligible /\ fd[c] # NoFd
           /\ Frames(c)' = Frames(c) \cup
                {[ch |-> c, conn |-> dials[c], cycle |-> cycle, block |-> next]}
           /\ \A d \in Channel : d # c => Frames(d)' = Frames(d)
           /\ UNCHANGED <<state, fd, dials, mixed, up, held, cycle>> /\ next' = next + 1
  BY DispatchFacts
<1> DEFINE k == [ch |-> c, conn |-> dials[c], cycle |-> cycle, block |-> next]
<1>2. /\ \A d \in Channel : Frames(d) \subseteq Key
      /\ \A h \in held : h.frame \in Key /\ h.reader.ch \in Channel
      /\ \A u \in Pending : pending[u].cycle \in Nat /\ pending[u].block \in Nat
  BY FrameTypes
<1>3. cycle \in Nat /\ next \in Nat
  BY DEF TypeOK
<1>4. \A x, y \in Nat : Before(x, y) => /\ Before(x, y)'
                                        /\ ~(x = cycle /\ y = next)
  BY <1>1, <1>3 DEF Before
<1>5. cycle = cycle' /\ next < next'
  BY <1>1, <1>3
<1>6. \A u \in Pending : /\ Before(pending[u].cycle, pending[u].block)
                         /\ ~(pending[u].cycle = cycle /\ pending[u].block = next)
  BY <1>2, <1>4 DEF RInv, KeysOld
<1>7. KeysOld'
  <2> SUFFICES ASSUME NEW u \in Pending'
               PROVE  \/ pending'[u].cycle < cycle'
                      \/ pending'[u].cycle = cycle' /\ pending'[u].block < next'
    BY DEF KeysOld, Before
  <2> QED
    BY <1>1, <1>2, <1>3, <1>6 DEF Before
<1>8. KeysUnique'
  BY <1>1, <1>6 DEF RInv, KeysUnique
<1>9. SlotsConnected'
  <2> SUFFICES ASSUME NEW u \in Pending'
               PROVE  /\ pending'[u].ch \in Channel
                      /\ state'[pending'[u].ch] = "ACTIVE" /\ fd'[pending'[u].ch] # NoFd
    BY DEF SlotsConnected
  <2> QED
    BY <1>1 DEF RInv, SlotsConnected, Eligible, Active
<1>10. FramesOwn'
  <2> SUFFICES ASSUME NEW d \in Channel, NEW f \in Frames(d)'
               PROVE  /\ state'[d] = "ACTIVE" /\ fd'[d] # NoFd
                      /\ f.ch = d /\ f.conn = dials'[d]
                      /\ Before(f.cycle, f.block)'
    BY DEF FramesOwn, Before
  <2>1. CASE f \in Frames(d)
    <3>1. f.cycle \in Nat /\ f.block \in Nat
      BY <1>2, <2>1 DEF Key
    <3> QED
      BY <1>1, <1>4, <2>1, <3>1 DEF RInv, FramesOwn
  <2>2. CASE d = c /\ f = k
    BY <1>1, <1>5, <2>2 DEF Before, Eligible, Active
  <2> QED
    BY <1>1, <2>1, <2>2
<1>11. HeldOld'
  <2> SUFFICES ASSUME NEW h \in held' PROVE Before(h.frame.cycle, h.frame.block)'
    BY DEF HeldOld, Before
  <2>1. h \in held /\ h.frame.cycle \in Nat /\ h.frame.block \in Nat
    BY <1>1, <1>2 DEF Key
  <2> QED
    BY <1>4, <2>1 DEF RInv, HeldOld
<1>12. ASSUME NEW u \in Pending, NEW f, NEW d PROVE Matches(u, f, d) <=> Matches(u, f, d)'
  BY <1>1 DEF Matches
<1>13. CurrentOnly'
  <2> SUFFICES ASSUME NEW u \in Pending', NEW h \in held',
                      pending'[u].cycle = h.frame.cycle, pending'[u].block = h.frame.block
               PROVE  h.frame.ch = pending'[u].ch /\ h.frame.conn = dials'[pending'[u].ch]
    BY DEF CurrentOnly, Names
  <2>1. CASE u \in Pending
    BY <1>1, <2>1 DEF RInv, CurrentOnly, Names
  <2>2. CASE u = s
    <3>1. h.frame.cycle = cycle /\ h.frame.block = next /\ h \in held
      BY <1>1, <2>2
    <3>2. Before(h.frame.cycle, h.frame.block)
      BY <3>1 DEF RInv, HeldOld
    <3> QED
      BY <1>3, <1>4, <3>1, <3>2
  <2> QED
    BY <1>1, <2>1, <2>2
<1>15. FramesHome'
  <2> SUFFICES ASSUME NEW d \in Channel, NEW f \in Frames(d)', NEW u \in Pending',
                      pending'[u].cycle = f.cycle, pending'[u].block = f.block
               PROVE  pending'[u].ch = d
    BY DEF FramesHome, Names
  <2>1. CASE f \in Frames(d) /\ u \in Pending
    BY <1>1, <2>1 DEF RInv, FramesHome, Names
  <2>2. CASE f \in Frames(d) /\ u = s
    <3>1. Before(f.cycle, f.block) /\ f.cycle = cycle /\ f.block = next
      BY <1>1, <2>2 DEF RInv, FramesOwn
    <3> QED
      BY <1>3, <1>4, <3>1
  <2>3. CASE f = k /\ d = c
    <3>1. f.cycle = cycle /\ f.block = next
      BY <2>3
    <3>2. u = s
      BY <1>1, <1>6, <3>1
    <3> QED
      BY <1>1, <2>3, <3>2
  <2> QED
    BY <1>1, <2>1, <2>2, <2>3
<1>14. PendingOnItsWay'
  <2> SUFFICES ASSUME NEW u \in Pending', NEW d, d = pending'[u].ch, up'[d], d \notin mixed'
               PROVE  \/ \E f \in Frames(d)' : f.conn = dials'[d] /\ Matches(u, f, d)'
                      \/ \E h \in held' :
                           h.reader.ch = d /\ h.frame.conn = dials'[d] /\ Matches(u, h.frame, d)'
    BY DEF PendingOnItsWay, Frames
  <2>1. CASE u \in Pending
    <3>1. d = pending[u].ch /\ d \in Channel /\ up[d] /\ d \notin mixed /\ Frames(d) \subseteq Frames(d)'
      BY <1>1, <2>1 DEF RInv, SlotsConnected
    <3>2. \/ \E f \in Frames(d) : f.conn = dials[d] /\ Matches(u, f, d)
          \/ \E h \in held : h.reader.ch = d /\ h.frame.conn = dials[d] /\ Matches(u, h.frame, d)
      BY <2>1, <3>1 DEF RInv, PendingOnItsWay, Frames
    <3> QED
      BY <1>1, <1>12, <2>1, <3>1, <3>2
  <2>2. CASE u = s
    <3>1. ASSUME NEW f, f = k
          PROVE  f \in Frames(d)' /\ Matches(u, f, d)' /\ f.conn = dials'[d]
      BY <1>1, <2>2, <3>1 DEF Matches
    <3> HIDE DEF k
    <3> QED
      BY <3>1
  <2> QED
    BY <1>1, <2>1, <2>2
<1> QED
  BY <1>7, <1>8, <1>9, <1>10, <1>11, <1>13, <1>14, <1>15 DEF RInv

LEMMA InitFlow == Init => RInv
<1> SUFFICES ASSUME Init PROVE RInv
  OBVIOUS
<1>1. Pending = {} /\ held = {}
  BY DEF Init, Pending, Cleared
<1>2. \A c \in Channel : Frames(c) = {}
  BY NoElements DEF Init, Frames
<1> QED
  BY <1>1, <1>2 DEF RInv, KeysOld, KeysUnique, SlotsConnected, FramesOwn, FramesHome,
                    HeldOld, CurrentOnly, PendingOnItsWay

LEMMA FlowInductive ==
  ASSUME TypeOK, IInv, RInv, [Next]_vars
  PROVE  RInv'
<1>1. OwnersActive'
  BY InductiveStep DEF IInv
<1>2. CASE UNCHANGED vars
  <2>1. /\ UNCHANGED <<state, fd, dials, mixed, up, queue, wire, held, pending, cycle, next>>
    BY <1>2 DEF vars, chanVars, flowVars, tableVars, loopVars
  <2>2. HeldFrom /\ Shrinks /\ Later
    BY <2>1, ShrinksIfSame, LaterIfSame DEF HeldFrom
  <2>3. \A c \in Channel : Kept(c)
    BY <2>1, UntouchedKept
  <2> QED
    BY <1>1, <2>2, <2>3, ShrinkKeeps
<1>3. ASSUME NEW c \in Channel, Refused(c) PROVE RInv'
  <2>1. Rewire({c}, {}) /\ held' = held /\ pending' = pending /\ UNCHANGED <<cycle, next>>
    BY <1>3 DEF Refused, loopVars
  <2> QED
    BY <1>1, <2>1, ShrinksIfSame, RewireKeeps
<1>4. ASSUME NEW c \in Channel, SendFails(c) PROVE RInv'
  BY <1>1, <1>4, LossKeepsFlow DEF SendFails, loopVars
<1>5. ASSUME NEW r \in readers, ReaderEnds(r) PROVE RInv'
  <2>1. r.ch \in Channel /\ UNCHANGED <<held, cycle, next>>
    BY <1>5 DEF ReaderEnds, TypeOK, Reader, loopVars
  <2>2. CASE LoseChannel(r.ch)
    BY <1>1, <2>1, <2>2, LossKeepsFlow
  <2>3. CASE UNCHANGED <<chanVars, flowVars, tableVars, reclaimed>>
    <3>1. UNCHANGED <<state, fd, dials, mixed, up, queue, wire, pending>>
      BY <2>3 DEF chanVars, flowVars, tableVars
    <3>2. HeldFrom /\ Shrinks /\ Later
      BY <2>1, <3>1, ShrinksIfSame, LaterIfSame DEF HeldFrom
    <3>3. \A c \in Channel : Kept(c)
      BY <2>1, <3>1, UntouchedKept
    <3> QED
      BY <1>1, <3>2, <3>3, ShrinkKeeps
  <2> QED
    BY <1>5, <2>2, <2>3 DEF ReaderEnds
<1> QED
  BY <1>1, <1>2, <1>3, <1>4, <1>5, ControlKeepsFlow, FramesMove, DispatchKeepsFlow,
     ResultKeepsFlow, TickKeepsFlow DEF Next

\* The inductive invariant of frames, results and slots.
THEOREM FlowInvariant == Spec => []RInv
<1>1. TypeOK /\ IInv /\ RInv /\ [Next]_vars => RInv'
  BY FlowInductive
<1> QED
  BY <1>1, InitFlow, TypeCorrect, InductiveInvariant, PTL DEF Spec

\* A (cycle, block) pair belongs to one pending slot at most, so a result can
\* free no slot but the one of its dispatch.
THEOREM KeysCorrect == Spec => []KeysUnique
BY FlowInvariant, PTL DEF RInv

\* A slot in flight waits for a frame of its own, on the connection its
\* channel has now, as long as the host is there.
THEOREM OnItsWay == Spec => []PendingOnItsWay
BY FlowInvariant, PTL DEF RInv
-----------------------------------------------------------------------------
(***************************************************************************)
(* What no step does.                                                      *)
(***************************************************************************)

\* A credited result came over the connection its channel has now.
THEOREM StaleIgnored == Spec => StaleResultIgnored
<1>1. ASSUME TypeOK, RInv, [Next]_vars
      PROVE  [returned' # returned =>
                \E h \in held \ held' :
                  LET c == h.frame.ch
                  IN  c = h.reader.ch /\ fd[c] # NoFd /\ dials[c] = h.frame.conn]_vars
  <2>1. CASE UNCHANGED vars
    BY <2>1
  <2>2. CASE \E h \in held : HandleResult(h)
    <3>1. PICK h \in held : HandleResult(h)
      BY <2>2
    <3>2. CASE \E s \in Slot : Credits(s, h)
      <4>1. PICK s \in Slot : Credits(s, h)
        BY <3>2
      <4>2. s \in Pending /\ Names(h.frame, s) /\ pending[s].ch = h.reader.ch
        BY <4>1 DEF Credits, Matches, Names
      <4>3. /\ h.frame.ch = h.reader.ch /\ h.frame.conn = dials[h.reader.ch]
            /\ fd[h.reader.ch] # NoFd
        BY <1>1, <4>2 DEF RInv, CurrentOnly, SlotsConnected
      <4>4. h \in held \ held'
        BY <3>1 DEF HandleResult
      <4> QED
        BY <4>3, <4>4
    <3>3. CASE UNCHANGED <<tableVars, returned>>
      BY <3>3
    <3> QED
      BY <3>1, <3>2, <3>3 DEF HandleResult
  <2>3. CASE Next /\ ~\E h \in held : HandleResult(h)
    <3>1. returned' = returned
      BY <2>3 DEF Next, TryOffload, Accepted, Refused, Send, HostGone, SendFails, StartCycle,
         DispatchBusy, DispatchUnsent, DispatchSent, ReadResult, SplitResult, Reads, ReaderEnds,
         Tick, PassFinding, countVars
    <3> QED
      BY <3>1
  <2> QED
    BY <1>1, <2>1, <2>2, <2>3
<1> QED
  BY <1>1, TypeCorrect, FlowInvariant, PTL DEF Spec, StaleResultIgnored
-----------------------------------------------------------------------------
(***************************************************************************)
(* The bound of RUNBOOK.md on deleg_inflight_total.                        *)
(*                                                                         *)
(* A pending slot is numbered by its channel and by how many slots of that *)
(* channel come before it: no two slots get the same number, the channel   *)
(* is ACTIVE, and the count is below the cap.                              *)
(***************************************************************************)

\* The slots of the channel of s that come before s.
Lower(s) == {u \in Owned(pending[s].ch) : u < s}

LEMMA LowerBounded ==
  ASSUME TypeOK, IInv, RInv, NEW s \in Pending
  PROVE  /\ pending[s].ch \in Active
         /\ Cardinality(Lower(s)) \in 0 .. MaxInflight - 1
<1> DEFINE c == pending[s].ch
<1>1. c \in Channel /\ c \in Active
  BY DEF RInv, SlotsConnected, Active
<1>2. s \in Slot /\ s \in Int
  BY DEF Pending, Slot
<1>3. /\ Owned(c) \in SUBSET Slot /\ s \in Owned(c)
      /\ Lower(s) \cup {s} \in SUBSET Owned(c) /\ Lower(s) \in SUBSET Slot
      /\ s \notin Lower(s)
  <2>1. Owned(c) \in SUBSET Slot /\ s \in Owned(c)
    BY PendingSets DEF Owned
  <2>2. Lower(s) \subseteq Owned(c)
    BY DEF Lower
  <2>3. s \notin Lower(s)
    BY <1>2 DEF Lower
  <2> QED
    BY <2>1, <2>2, <2>3
<1>4. IsFiniteSet(Lower(s)) /\ Cardinality(Lower(s)) \in Nat
  BY <1>3, SlotSets
<1>5. Cardinality(Lower(s) \cup {s}) = Cardinality(Lower(s)) + 1
  BY <1>3, <1>4, FS_AddElement
<1>6. /\ Cardinality(Lower(s) \cup {s}) <= Cardinality(Owned(c))
      /\ Cardinality(Owned(c)) \in Nat
  BY <1>3, SlotSets
<1>7. Cardinality(Owned(c)) <= MaxInflight
  BY <1>1 DEF IInv, InFlightExact, CapRespected
<1> HIDE DEF c
<1>8. Cardinality(Lower(s)) \in 0 .. MaxInflight - 1
  BY <1>4, <1>5, <1>6, <1>7, PipelineConstants
<1> QED
  BY <1>1, <1>8 DEF c

LEMMA LowerDiffers ==
  ASSUME TypeOK, NEW s \in Pending, NEW t \in Pending, pending[s].ch = pending[t].ch, s # t
  PROVE  Cardinality(Lower(s)) # Cardinality(Lower(t))
<1>1. ASSUME NEW a \in Pending, NEW b \in Pending, pending[a].ch = pending[b].ch, a < b
      PROVE  Cardinality(Lower(a)) # Cardinality(Lower(b))
  <2>1. a \in Int /\ b \in Int
    BY DEF Pending, Slot
  <2>2. /\ Lower(b) \in SUBSET Slot /\ Lower(a) \in SUBSET Slot
        /\ Lower(a) \cup {a} \in SUBSET Lower(b) /\ a \notin Lower(a)
    BY <1>1, <2>1 DEF Lower, Owned, Pending, Slot
  <2>3. IsFiniteSet(Lower(a)) /\ Cardinality(Lower(a)) \in Nat
    BY <2>2, SlotSets
  <2>4. Cardinality(Lower(a) \cup {a}) = Cardinality(Lower(a)) + 1
    BY <2>2, <2>3, FS_AddElement
  <2>5. Cardinality(Lower(a) \cup {a}) <= Cardinality(Lower(b)) /\ Cardinality(Lower(b)) \in Nat
    BY <2>2, SlotSets
  <2> QED
    BY <2>3, <2>4, <2>5
<1>2. s \in Int /\ t \in Int
  BY DEF Pending, Slot
<1>3. CASE s < t
  BY <1>1, <1>3
<1>4. CASE t < s
  BY <1>1, <1>4
<1> QED
  BY <1>2, <1>3, <1>4

LEMMA BoundOfInflight ==
  ASSUME TypeOK, IInv, RInv
  PROVE  InflightBounded
<1> DEFINE T == Active \X (0 .. MaxInflight - 1)
           g == [s \in Pending |-> <<pending[s].ch, Cardinality(Lower(s))>>]
<1>1. g \in [Pending -> T]
  BY LowerBounded
<1>2. \A s, t \in Pending : g[s] = g[t] => s = t
  BY LowerDiffers
<1>3. g \in Injection(Pending, T)
  <2> HIDE DEF g, T
  <2> QED
    BY <1>1, <1>2 DEF Injection, IsInjective
<1>4. IsFiniteSet(Active) /\ Cardinality(Active) \in Nat
  BY ChannelSets DEF Active
<1>5. /\ IsFiniteSet(0 .. MaxInflight - 1)
      /\ Cardinality(0 .. MaxInflight - 1) = MaxInflight
  BY PipelineConstants, FS_Interval
<1>6. IsFiniteSet(T) /\ Cardinality(T) = Cardinality(Active) * MaxInflight
  BY <1>4, <1>5, FS_Product
<1>7. Cardinality(Pending) <= Cardinality(T)
  <2> HIDE DEF g, T
  <2> QED
    BY <1>3, <1>6, FS_Injection
<1> DEFINE n == Cardinality(Active)
<1>8. total <= n * MaxInflight
  BY <1>6, <1>7 DEF IInv, InFlightExact
<1>9. n * MaxInflight = MaxInflight * n
  <2> HIDE DEF n
  <2>1. n \in Nat
    BY <1>4 DEF n
  <2> QED
    BY <2>1, PipelineConstants
<1> QED
  BY <1>8, <1>9 DEF InflightBounded

\* deleg_inflight_total stays within the ACTIVE channels times the cap.
THEOREM BoundCorrect == Spec => []InflightBounded
<1>1. TypeOK /\ IInv /\ RInv => InflightBounded
  BY BoundOfInflight
<1> QED
  BY <1>1, TypeCorrect, InductiveInvariant, FlowInvariant, PTL
-----------------------------------------------------------------------------
(***************************************************************************)
(* The pipeline implements ChannelFlow.                                    *)
(***************************************************************************)

\* The blocks out on a channel.
OutOf(c) == {<<pending[s].cycle, pending[s].block>> : s \in Owned(c)}

\* Every step but a dispatch frees slots or leaves the table alone.
LEMMA TableSteps ==
  ASSUME TypeOK, RInv, [Next]_vars
  PROVE  DispatchSent \/ Shrinks
<1>1. ASSUME NEW c \in Channel, LoseChannel(c) PROVE Shrinks
  BY <1>1 DEF LoseChannel, Shrinks, Pending, Cleared
<1>2. CASE UNCHANGED vars
  BY <1>2, ShrinksIfSame DEF vars, tableVars
<1>3. CASE \E c \in Channel : SendFails(c)
  BY <1>1, <1>3 DEF SendFails
<1>4. ASSUME NEW r \in readers, ReaderEnds(r) PROVE Shrinks
  <2>1. r.ch \in Channel
    BY DEF TypeOK, Reader
  <2> QED
    BY <1>1, <1>4, <2>1, ShrinksIfSame DEF ReaderEnds, tableVars
<1>5. ASSUME NEW h \in held, HandleResult(h) PROVE Shrinks
  <2>1. CASE UNCHANGED <<tableVars, returned>>
    BY <2>1, ShrinksIfSame DEF tableVars
  <2>2. CASE \E s \in Slot : pending' = [pending EXCEPT ![s] = Cleared]
    BY <2>2 DEF Shrinks, Pending, Cleared, TypeOK
  <2> QED
    BY <1>5, <2>1, <2>2 DEF HandleResult
<1>6. CASE Tick
  <2>1. PICK X \in SUBSET Pending, low \in BOOLEAN,
             fate \in [Channel -> {"keep", "reset", "drop", "dial"}] :
          LET left == [d \in Channel |-> Minus(inFlight[d], Cardinality(X \cap Owned(d)))]
          IN  /\ \A d \in Channel : fate[d] \in Fates(d, low, left[d])
              /\ Pass(X, left, fate)
    BY <1>6 DEF Tick, PassFinding
  <2> DEFINE gone == Reclaimable({d \in Channel : fate[d] = "drop"}) \ X
  <2>3. pending' = [s \in Slot |->
           IF s \in X \cup gone THEN Cleared
           ELSE IF s \in Pending THEN Aged(pending[s]) ELSE pending[s]]
    BY <2>1 DEF Pass
  <2>2. \A s \in Slot : LET a == Aged(pending[s]) IN
          /\ a.on = pending[s].on /\ a.ch = pending[s].ch
          /\ a.cycle = pending[s].cycle /\ a.block = pending[s].block
    BY AgedType DEF TypeOK
  <2> QED
    BY <2>2, <2>3 DEF Shrinks, Pending, Cleared
<1>7. CASE \/ TryOffload \/ StartCycle \/ DispatchBusy \/ DispatchUnsent
           \/ \E c \in Channel : Accepted(c) \/ Refused(c) \/ Send(c) \/ HostGone(c)
           \/ \E r \in readers : ReadResult(r) \/ SplitResult(r)
  <2>1. pending' = pending
    BY <1>7 DEF TryOffload, StartCycle, DispatchBusy, DispatchUnsent, Accepted, Refused,
       Send, HostGone, ReadResult, SplitResult, Reads, tableVars
  <2> QED
    BY <2>1, ShrinksIfSame
<1> QED
  BY <1>2, <1>3, <1>4, <1>5, <1>6, <1>7 DEF Next

\* A channel opens one state at a time and closes from any.
LEMMA StateSteps ==
  ASSUME TypeOK, [Next]_vars, NEW c \in Channel
  PROVE  \/ state'[c] = state[c]
         \/ state[c] = "IDLE" /\ state'[c] = "REQUESTING"
         \/ state[c] = "REQUESTING" /\ state'[c] = "ACTIVE"
         \/ state[c] # "IDLE" /\ state'[c] = "IDLE"
<1>1. ASSUME NEW d \in Channel, LoseChannel(d), state[d] = "ACTIVE"
      PROVE  \/ state'[c] = state[c]
             \/ state[c] # "IDLE" /\ state'[c] = "IDLE"
  BY <1>1 DEF LoseChannel, Rewire
<1>2. CASE \E d \in Channel : SendFails(d)
  BY <1>1, <1>2 DEF SendFails, IsCurrent
<1>3. ASSUME NEW r \in readers, ReaderEnds(r)
      PROVE  \/ state'[c] = state[c]
             \/ state[c] # "IDLE" /\ state'[c] = "IDLE"
  <2>1. r.ch \in Channel
    BY DEF TypeOK, Reader
  <2> QED
    BY <1>1, <1>3, <2>1 DEF ReaderEnds, IsCurrent, chanVars
<1>4. CASE Tick
  <2>1. PICK X \in SUBSET Pending, low \in BOOLEAN,
             fate \in [Channel -> {"keep", "reset", "drop", "dial"}] :
          LET left == [d \in Channel |-> Minus(inFlight[d], Cardinality(X \cap Owned(d)))]
          IN  /\ \A d \in Channel : fate[d] \in Fates(d, low, left[d])
              /\ Pass(X, left, fate)
    BY <1>4 DEF Tick, PassFinding
  <2>2. state'[c] = IF fate[c] \in {"drop", "reset"} THEN "IDLE" ELSE state[c]
    BY <2>1 DEF Pass, Rewire
  <2>3. state[c] = "IDLE" => fate[c] = "keep"
    BY <2>1 DEF Fates
  <2> QED
    BY <2>2, <2>3
<1>5. CASE TryOffload \/ \E d \in Channel : Accepted(d)
  BY <1>5 DEF TryOffload, Accepted, TypeOK
<1>6. CASE \E d \in Channel : Refused(d)
  BY <1>6 DEF Refused, Rewire
<1>7. CASE \/ StartCycle \/ DispatchBusy \/ DispatchUnsent \/ DispatchSent
           \/ \E d \in Channel : Send(d) \/ HostGone(d)
           \/ \E r \in readers : ReadResult(r) \/ SplitResult(r)
           \/ \E h \in held : HandleResult(h)
           \/ UNCHANGED vars
  BY <1>7 DEF StartCycle, DispatchBusy, DispatchUnsent, DispatchSent, Send, HostGone,
     ReadResult, SplitResult, Reads, HandleResult, vars, chanVars
<1> QED
  BY <1>2, <1>3, <1>4, <1>5, <1>6, <1>7 DEF Next

\* The blocks out on a channel, when it dispatches.
LEMMA OutGrows ==
  ASSUME TypeOK, IInv, RInv, DispatchSent, NEW c \in Channel
  PROVE  \/ OutOf(c)' = OutOf(c)
         \/ /\ state[c] = "ACTIVE" /\ Cardinality(OutOf(c)) < MaxInflight
            /\ OutOf(c) \subseteq OutOf(c)' /\ Cardinality(OutOf(c)' \ OutOf(c)) = 1
<1>1. PICK s \in Slot, d \in Channel :
           /\ s \notin Pending /\ Pending' = Pending \cup {s}
           /\ pending'[s].cycle = cycle /\ pending'[s].block = next /\ pending'[s].ch = d
           /\ \A u \in Pending : pending'[u] = pending[u]
           /\ d \in Eligible
  BY DispatchFacts
<1>2. CASE c # d
  <2>1. Owned(c)' = Owned(c) /\ \A u \in Owned(c) : pending'[u] = pending[u]
    BY <1>1, <1>2 DEF Owned
  <2> QED
    BY <2>1 DEF OutOf
<1>3. CASE c = d
  <2> DEFINE k == <<cycle, next>>
             h == [u \in Owned(c) |-> <<pending[u].cycle, pending[u].block>>]
  <2>1. Owned(c)' = Owned(c) \cup {s} /\ \A u \in Owned(c) : pending'[u] = pending[u]
    BY <1>1, <1>3 DEF Owned
  <2>2. OutOf(c)' = OutOf(c) \cup {<<cycle, next>>}
    BY <1>1, <2>1 DEF OutOf
  <2>3. <<cycle, next>> \notin OutOf(c)
    <3>1. cycle \in Nat /\ next \in Nat
      BY DEF TypeOK
    <3>2. \A u \in Owned(c) : ~(pending[u].cycle = cycle /\ pending[u].block = next)
      BY <3>1 DEF RInv, KeysOld, Before, Owned
    <3> QED
      BY <3>2 DEF OutOf
  <2>4. Cardinality(OutOf(c)' \ OutOf(c)) = 1
    <3>1. OutOf(c)' \ OutOf(c) = {<<cycle, next>>}
      BY <2>2, <2>3
    <3> QED
      BY <3>1, FS_Singleton
  <2>5. h \in Surjection(Owned(c), OutOf(c))
    BY DEF Surjection, OutOf
  <2>6. IsFiniteSet(Owned(c)) /\ Cardinality(Owned(c)) \in Nat
    BY PendingSets, SlotSets
  <2>7. Cardinality(OutOf(c)) <= Cardinality(Owned(c)) /\ Cardinality(OutOf(c)) \in Nat
    <3> HIDE DEF h
    <3> QED
      BY <2>5, <2>6, FS_Surjection, FS_CardinalityType
  <2>8. Cardinality(Owned(c)) < MaxInflight
    BY <1>1, <1>3 DEF Eligible, IInv, InFlightExact
  <2>9. Cardinality(OutOf(c)) < MaxInflight
    BY <2>6, <2>7, <2>8, PipelineConstants
  <2> QED
    BY <1>1, <1>3, <2>2, <2>4, <2>9 DEF Eligible, Active
<1> QED
  BY <1>2, <1>3

\* What any step does to one channel.
LEMMA ChannelSteps ==
  ASSUME TypeOK, IInv, RInv, IInv', [Next]_vars, NEW c \in Channel
  PROVE  \/ state'[c] = state[c] /\ OutOf(c)' \subseteq OutOf(c)
         \/ /\ <<state[c], state'[c]>> \in {<<"IDLE", "REQUESTING">>, <<"REQUESTING", "ACTIVE">>}
            /\ OutOf(c)' = OutOf(c)
         \/ /\ state[c] = "ACTIVE" /\ state'[c] = "ACTIVE"
            /\ Cardinality(OutOf(c)) < MaxInflight
            /\ OutOf(c) \subseteq OutOf(c)' /\ Cardinality(OutOf(c)' \ OutOf(c)) = 1
         \/ state[c] # "IDLE" /\ state'[c] = "IDLE" /\ OutOf(c)' = {}
<1>1. CASE DispatchSent
  <2>1. state' = state
    BY <1>1 DEF DispatchSent, chanVars
  <2> QED
    BY <1>1, <2>1, OutGrows
<1>2. CASE Shrinks
  <2>1. Owned(c)' \subseteq Owned(c) /\ OutOf(c)' \subseteq OutOf(c)
    BY <1>2 DEF Shrinks, Owned, OutOf
  <2>2. /\ state[c] # "ACTIVE" => Owned(c) = {}
        /\ state'[c] # "ACTIVE" => Owned(c)' = {}
    BY DEF IInv, OwnersActive
  <2>3. Owned(c) = {} => OutOf(c) = {} /\ OutOf(c)' = {}
    BY <2>1 DEF OutOf
  <2>4. Owned(c)' = {} => OutOf(c)' = {}
    BY DEF OutOf
  <2> QED
    BY <2>1, <2>2, <2>3, <2>4, StateSteps
<1> QED
  BY <1>1, <1>2, TableSteps

LEMMA SameCardinality == \A S : Flow!Cardinality(S) = Cardinality(S)
BY Zenon DEF Flow!Cardinality, Cardinality

\* The mapped step, and its types: every step implements one of ChannelFlow.
LEMMA FlowSteps ==
  ASSUME TypeOK, IInv, RInv, TypeOK', IInv', KeysUnique', [Next]_vars
  PROVE  [Flow!FlowNext]_(Flow!flowVars)
<1>1. state' \in [Channel -> {"IDLE", "REQUESTING", "ACTIVE"}]
  BY DEF TypeOK
<1>2. ASSUME NEW c \in Channel PROVE OutOf(c)' \subseteq Nat \X Nat
  <2>1. \A s \in Owned(c)' : pending'[s] \in Entry
    BY DEF TypeOK, Owned, Pending
  <2> QED
    BY <2>1 DEF OutOf, Entry
<1>3. ASSUME NEW c \in Channel, NEW d \in Channel, c # d
      PROVE  OutOf(c)' \cap OutOf(d)' = {}
  BY <1>3 DEF KeysUnique, OutOf, Owned
<1>4. \A c \in Channel :
         \/ state'[c] = state[c] /\ OutOf(c)' \subseteq OutOf(c)
         \/ /\ <<state[c], state'[c]>> \in {<<"IDLE", "REQUESTING">>, <<"REQUESTING", "ACTIVE">>}
            /\ OutOf(c)' = OutOf(c)
         \/ /\ state[c] = "ACTIVE" /\ state'[c] = "ACTIVE"
            /\ Cardinality(OutOf(c)) < MaxInflight
            /\ OutOf(c) \subseteq OutOf(c)' /\ Cardinality(OutOf(c)' \ OutOf(c)) = 1
         \/ state[c] # "IDLE" /\ state'[c] = "IDLE" /\ OutOf(c)' = {}
  BY ChannelSteps
<1>5. ASSUME NEW c \in Channel
      PROVE  Flow!Give(c) \/ Flow!Open(c) \/ Flow!Dispatch(c) \/ Flow!Close(c)
  <2>1. CASE state'[c] = state[c] /\ OutOf(c)' \subseteq OutOf(c)
    BY <2>1 DEF Flow!Give, OutOf
  <2>2. CASE /\ <<state[c], state'[c]>> \in {<<"IDLE", "REQUESTING">>, <<"REQUESTING", "ACTIVE">>}
             /\ OutOf(c)' = OutOf(c)
    BY <2>2 DEF Flow!Open, OutOf
  <2>3. CASE /\ state[c] = "ACTIVE" /\ state'[c] = "ACTIVE"
             /\ Cardinality(OutOf(c)) < MaxInflight
             /\ OutOf(c) \subseteq OutOf(c)' /\ Cardinality(OutOf(c)' \ OutOf(c)) = 1
    <3> DEFINE o == [d \in Channel |-> {<<pending[s].cycle, pending[s].block>> : s \in Owned(d)}]
    <3>1. o[c] = OutOf(c) /\ o'[c] = OutOf(c)'
      BY DEF OutOf
    <3>2. /\ Cardinality(o[c]) < MaxInflight
          /\ o[c] \subseteq o'[c] /\ Cardinality(o'[c] \ o[c]) = 1
      <4> HIDE DEF o
      <4> QED
        BY <2>3, <3>1
    <3>3. Flow!Dispatch(c)
      BY <2>3, <3>2, SameCardinality DEF Flow!Dispatch
    <3> QED
      BY <3>3
  <2>4. CASE state[c] # "IDLE" /\ state'[c] = "IDLE" /\ OutOf(c)' = {}
    BY <2>4 DEF Flow!Close, OutOf
  <2> QED
    BY <1>4, <2>1, <2>2, <2>3, <2>4
<1>6. [c \in Channel |-> OutOf(c)]' \in [Channel -> SUBSET (Nat \X Nat)]
  BY <1>2
<1>7. Flow!FlowNext
  BY <1>1, <1>3, <1>5, <1>6 DEF Flow!FlowNext, OutOf
<1> QED
  BY <1>7

LEMMA FlowStart == Init => Flow!FlowInit
<1> SUFFICES ASSUME Init PROVE Flow!FlowInit
  OBVIOUS
<1>1. \A c \in Channel : Owned(c) = {}
  BY DEF Init, Owned, Pending, Cleared
<1> QED
  BY <1>1 DEF Init, Flow!FlowInit

\* The pipeline keeps the promises of ChannelFlow.
THEOREM FlowImplemented == Spec => ImplementsFlow
<1>1. RInv' => KeysUnique'
  BY DEF RInv
<1>2. TypeOK /\ IInv /\ RInv /\ TypeOK' /\ IInv' /\ RInv' /\ [Next]_vars
        => [Flow!FlowNext]_(Flow!flowVars)
  BY <1>1, FlowSteps
<1> QED
  BY <1>2, FlowStart, TypeCorrect, InductiveInvariant, FlowInvariant, PTL
     DEF Spec, ImplementsFlow, Flow!FlowSpec
=============================================================================
