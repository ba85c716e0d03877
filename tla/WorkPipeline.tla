---------------------------- MODULE WorkPipeline ----------------------------
(***************************************************************************)
(* The delegator's data plane: compute_task dispatches matrix blocks over  *)
(* the ACTIVE channels, one TCP connection, send queue and receiver task   *)
(* per channel, and a table of pending slots remembers what is out.        *)
(*                                                                         *)
(* One action is one run of a handler (firmware-esp32/main/network/        *)
(* delegation.c, work_transport.c, tasks/compute_task.c).  Names follow    *)
(* the code.  A descriptor is what the code keeps and compares: it is free *)
(* again once its socket is closed, and may name a later connection while  *)
(* a receiver task of the earlier one is still alive.  The connections of  *)
(* a channel are also numbered (dials), so that a property can tell two    *)
(* connections from each other where the code cannot.                      *)
(***************************************************************************)
EXTENDS Integers, Sequences, FiniteSets

CONSTANTS
  NumChannels,  \* MAX_DELEGATION_CHANNELS
  NumSlots,     \* MAX_PENDING_WORK
  MaxInflight,  \* DELEGATION_MAX_INFLIGHT_PER_CHANNEL
  QueueDepth,   \* WORK_SEND_QUEUE_DEPTH
  Fd,           \* the socket descriptors of lwIP
  NoFd,         \* -1
  PassLimit,    \* manager passes after which a pending slot is surely older
                \* than DELEGATION_PENDING_TIMEOUT_MS
  MaxBlocks,    \* bound: blocks dispatched in a compute cycle
  MaxCycles,    \* bound: compute cycles
  MaxDials      \* bound: connections made for a channel

ASSUME PipelineConstants ==
  /\ NumChannels \in Nat \ {0}
  /\ NumSlots \in Nat \ {0}
  /\ MaxInflight \in Nat \ {0}
  /\ QueueDepth \in Nat \ {0}
  /\ NoFd \notin Fd
  /\ PassLimit \in Nat
  /\ MaxBlocks \in Nat
  /\ MaxCycles \in Nat
  /\ MaxDials \in Nat

Channel == 0 .. NumChannels - 1
Slot    == 0 .. NumSlots - 1

VARIABLES
  state,      \* channels[c].state, the delegator's three
  fd,         \* channels[c].tcp_fd; the send queue exists iff it is not NoFd
  inFlight,   \* channels[c].in_flight_count
  queue,      \* frames in channels[c].tcp_send_queue
  wire,       \* frames sent on the connection of c, results not yet read
  mixed,      \* history: channels with frames read by another connection's receiver
  up,         \* the far end of the connection of c is still there
  dials,      \* connections made for c so far, the open one being the last
  readers,    \* receiver tasks alive
  held,       \* result frames read by a receiver task, not yet handled
  pending,    \* pending_work[]
  total,      \* deleg_inflight_total
  cycle,      \* compute_cycle_id
  next, todo, \* the dispatch loop of compute_task: d and dispatch_blocks
  rr,         \* rr_index of delegation_dispatch_work_item
  dispatched, returned, timedOut, \* deleg_blocks_dispatched, _returned, deleg_timeout_reclaim
  reclaimed,  \* what the calls of channel_reclaim_pending returned, summed
  pass        \* parity of the manager's passes: one that changes nothing is a step

chanVars  == <<state, fd, dials, up>>
flowVars  == <<queue, wire, mixed>>
tableVars == <<inFlight, pending, total>>
loopVars  == <<cycle, next, todo, rr>>
countVars == <<dispatched, returned, timedOut, reclaimed, pass>>
vars == <<chanVars, flowVars, readers, held, tableVars, loopVars, countVars>>

Key    == [ch : Channel, conn : Nat, cycle : Nat, block : Nat]
Reader == [ch : Channel, conn : Nat, fd : Fd]
Result == [frame : Key, reader : Reader]
Entry  == [on : BOOLEAN, cycle : Nat, block : Nat, ch : 0 .. NumChannels, age : Nat]

\* clear_pending_entry: channel_idx becomes 0xFF, no channel's index.
Cleared == [on |-> FALSE, cycle |-> 0, block |-> 0, ch |-> NumChannels, age |-> 0]

Pending  == {s \in Slot : pending[s].on}
Owned(c) == {s \in Pending : pending[s].ch = c}
Active   == {c \in Channel : state[c] = "ACTIVE"}

\* The saturating subtractions on in_flight_count and deleg_inflight_total.
Minus(a, b) == IF a >= b THEN a - b ELSE 0
-----------------------------------------------------------------------------
Init ==
  /\ state    = [c \in Channel |-> "IDLE"]
  /\ fd       = [c \in Channel |-> NoFd]
  /\ inFlight = [c \in Channel |-> 0]
  /\ queue    = [c \in Channel |-> <<>>]
  /\ wire     = [c \in Channel |-> <<>>]
  /\ mixed    = {}
  /\ up       = [c \in Channel |-> FALSE]
  /\ dials    = [c \in Channel |-> 0]
  /\ readers  = {}
  /\ held     = {}
  /\ pending  = [s \in Slot |-> Cleared]
  /\ total = 0 /\ cycle = 0 /\ next = 0 /\ todo = 0 /\ rr = 0
  /\ dispatched = 0 /\ returned = 0 /\ timedOut = 0 /\ reclaimed = 0
  /\ pass = FALSE

\* socket() returns any descriptor that no open socket has: one closed earlier,
\* in this very pass if the channel comes first, may come back.
Fresh(k, c, closed) == \A d \in Channel : fd[d] = k => d \in closed /\ d < c

\* The receiver task of the connection that c is getting.
Receiver(c, k) == [ch |-> c, conn |-> dials[c] + 1, fd |-> k]

(***************************************************************************)
(* reset_channel on the channels of closed (teardown of the sender, the    *)
(* queue and the socket; the receiver task is left to notice), and         *)
(* work_transport_connect on those of dialed, its queue and tasks made.    *)
(***************************************************************************)
Rewire(closed, dialed) ==
  /\ state' = [c \in Channel |-> IF c \in closed THEN "IDLE" ELSE state[c]]
  /\ \E new \in [dialed -> Fd] :
       /\ \A c \in dialed : Fresh(new[c], c, closed) /\ \A d \in dialed \ {c} : new[d] # new[c]
       /\ fd' = [c \in Channel |-> IF c \in closed THEN NoFd
                                  ELSE IF c \in dialed THEN new[c] ELSE fd[c]]
  /\ dials' = [c \in Channel |-> IF c \in dialed THEN dials[c] + 1 ELSE dials[c]]
  /\ queue' = [c \in Channel |-> IF c \in closed \cup dialed THEN <<>> ELSE queue[c]]
  /\ wire'  = [c \in Channel |-> IF c \in closed \cup dialed THEN <<>> ELSE wire[c]]
  /\ mixed' = mixed \ (closed \cup dialed)
  /\ up'    = [c \in Channel |-> c \notin closed /\ (c \in dialed \/ up[c])]

\* Mutant: the channel is reset and its slots stay in flight.
ReclaimsNothing(lost) == {}

\* channel_reclaim_pending for every channel of lost.  Its peer_fallback arm is
\* for entries with no channel, which a slot in flight never is.
Reclaimable(lost) == {s \in Pending : pending[s].ch \in lost}

-----------------------------------------------------------------------------
(***************************************************************************)
(* Opening a channel, as far as the data plane sees it.                    *)
(***************************************************************************)

\* delegation_try_offload claims the first k idle slots, one per candidate.
TryOffload ==
  \E S \in SUBSET {c \in Channel : state[c] = "IDLE"} :
    /\ S # {}
    /\ \A c \in S, d \in Channel : d < c /\ state[d] = "IDLE" => d \in S
    /\ state' = [c \in Channel |-> IF c \in S THEN "REQUESTING" ELSE state[c]]
    /\ UNCHANGED <<fd, dials, up, flowVars, readers, held, tableVars, loopVars, countVars>>

\* delegation_handle_reply, DELEGATE_ACCEPT: connected at once, or no usable
\* IP for the peer (the channel stays ACTIVE without a socket).
Accepted(c) ==
  /\ state[c] = "REQUESTING"
  /\ state' = [state EXCEPT ![c] = "ACTIVE"]
  /\ \/ UNCHANGED <<fd, dials, up, readers>>
     \/ \E k \in Fd :
          /\ dials[c] < MaxDials
          /\ Fresh(k, c, {})
          /\ fd' = [fd EXCEPT ![c] = k]
          /\ dials' = [dials EXCEPT ![c] = @ + 1]
          /\ up' = [up EXCEPT ![c] = TRUE]
          /\ readers' = readers \cup {Receiver(c, k)}
  /\ UNCHANGED <<flowVars, held, tableVars, loopVars, countVars>>

\* delegation_handle_reply, DELEGATE_REJECT; also DELEGATE_ACCEPT when the
\* connect fails, which reports the channel lost from inside the handler.
Refused(c) ==
  /\ state[c] = "REQUESTING"
  /\ Rewire({c}, {})
  /\ inFlight' = [inFlight EXCEPT ![c] = 0]
  /\ UNCHANGED <<readers, held, pending, total, loopVars, countVars>>
-----------------------------------------------------------------------------
(***************************************************************************)
(* compute_task: one cycle, then one dispatch per delegated block.         *)
(***************************************************************************)

\* compute_cycle_id++ and the number of blocks to dispatch; 0 when nothing is
\* delegated.  The count itself is the matter of module Delegation.
\* Mutant: the cycle number is not advanced.
SameCycle == cycle
CycleIncrement == cycle + 1

StartCycle ==
  /\ next = todo
  /\ cycle < MaxCycles
  /\ cycle' = CycleIncrement
  /\ next' = 0
  /\ todo' \in IF Active = {} THEN {0} ELSE 1 .. MaxBlocks
  /\ UNCHANGED <<chanVars, flowVars, readers, held, tableVars, rr, countVars>>

\* Mutant: the cap tested with <=.
EligibleAtCap == {c \in Active : inFlight[c] <= MaxInflight}

\* Channels that may take one more item.
Eligible == {c \in Active : inFlight[c] < MaxInflight}

\* eligible_slots[rr_index % eligible_count]
Turn(c) ==
  /\ c \in Eligible
  /\ Cardinality({d \in Eligible : d < c}) = rr % Cardinality(Eligible)

FirstFree(s) == s \notin Pending /\ \A u \in Slot : u < s => u \in Pending

\* Mutant: rr_index left to run past the eligible channels.
NextTurnUnwrapped == rr + 1

NextTurn == ((rr % Cardinality(Eligible)) + 1) % Cardinality(Eligible)

\* DISPATCH_BUSY before a channel is chosen.
DispatchBusy ==
  /\ next < todo
  /\ Pending = Slot \/ Eligible = {}
  /\ next' = next + 1
  /\ UNCHANGED <<chanVars, flowVars, readers, held, tableVars, cycle, todo, rr, countVars>>

\* A channel is chosen and nothing is sent: no queue (DISPATCH_ERROR, the
\* block is computed locally), or the queue is full or the frame cannot be
\* allocated (DISPATCH_BUSY, the block is skipped).
DispatchUnsent ==
  /\ next < todo
  /\ Pending # Slot
  /\ \E c \in Channel : Turn(c)
  /\ rr' = NextTurn
  /\ next' = next + 1
  /\ UNCHANGED <<chanVars, flowVars, readers, held, tableVars, cycle, todo, countVars>>

\* Mutant: no test for a missing send queue.
CanEnqueueUntested(c) == Len(queue[c]) < QueueDepth

CanEnqueue(c) == fd[c] # NoFd /\ Len(queue[c]) < QueueDepth

Enqueue(c) ==
  queue' = [queue EXCEPT ![c] =
              Append(@, [ch |-> c, conn |-> dials[c], cycle |-> cycle, block |-> next])]

\* DISPATCH_OK: the frame is queued and the pending slot recorded.
DispatchSent ==
  /\ next < todo
  /\ \E s \in Slot, c \in Channel :
       /\ FirstFree(s)
       /\ Turn(c)
       /\ CanEnqueue(c)
       /\ Enqueue(c)
       /\ pending' = [pending EXCEPT ![s] =
            [on |-> TRUE, cycle |-> cycle, block |-> next, ch |-> c, age |-> 0]]
       /\ inFlight' = [inFlight EXCEPT ![c] = @ + 1]
  /\ total' = total + 1
  /\ dispatched' = dispatched + 1
  /\ rr' = NextTurn
  /\ next' = next + 1
  /\ UNCHANGED <<chanVars, wire, mixed, readers, held, cycle, todo, returned, timedOut, reclaimed, pass>>
-----------------------------------------------------------------------------
(***************************************************************************)
(* The transport tasks and the host at the far end.                        *)
(***************************************************************************)

\* work_sender_task sends the head of the queue.  A send to a host that is
\* gone is lost in the local buffers.
Send(c) ==
  /\ queue[c] # <<>>
  /\ queue' = [queue EXCEPT ![c] = Tail(@)]
  /\ wire' = IF up[c] THEN [wire EXCEPT ![c] = Append(@, Head(queue[c]))] ELSE wire
  /\ UNCHANGED <<chanVars, mixed, readers, held, tableVars, loopVars, countVars>>

\* The host (external): it crashes or leaves the network.
HostGone(c) ==
  /\ up[c]
  /\ up' = [up EXCEPT ![c] = FALSE]
  /\ wire' = [wire EXCEPT ![c] = <<>>]
  /\ UNCHANGED <<state, fd, dials, queue, mixed, readers, held, tableVars, loopVars, countVars>>

Holding(r) == \E h \in held : h.reader = r

\* r is the receiver of the connection that c has now.
Own(r, c) == r.ch = c /\ r.conn = dials[c]

\* work_recv_task reads from its descriptor, whatever socket that names by now.
Reads(r, c) ==
  /\ fd[c] = r.fd
  /\ wire[c] # <<>>
  /\ wire' = [wire EXCEPT ![c] = Tail(@)]
  /\ mixed' = IF Own(r, c) THEN mixed ELSE mixed \cup {c}
  /\ UNCHANGED <<chanVars, queue, readers, tableVars, loopVars, countVars>>

\* It has read the whole result of the oldest frame on the wire
\* (work_hosting_task serves them in order); the handler has not run yet.
ReadResult(r) ==
  \E c \in Channel :
    /\ Reads(r, c)
    /\ ~Holding(r)
    /\ held' = held \cup {[frame |-> Head(wire[c]), reader |-> r]}

\* The receiver of an earlier connection, caught between two calls of recv, takes
\* part of a result from the connection that has its descriptor now: the rest of
\* it has no header that any receiver accepts.
SplitResult(r) ==
  \E c \in Channel :
    /\ ~Own(r, c)
    /\ Reads(r, c)
    /\ ~Holding(r)
    /\ UNCHANGED held

\* Mutant: a result matched by block and channel only.
MatchesAnyCycle(s, f, c) ==
  s \in Pending /\ pending[s].block = f.block /\ pending[s].ch = c

\* Slot s against the header of f and the channel index c of the receiver.
Matches(s, f, c) ==
  /\ s \in Pending
  /\ pending[s].cycle = f.cycle
  /\ pending[s].block = f.block
  /\ pending[s].ch = c

Credits(s, h) == Matches(s, h.frame, h.reader.ch)

\* delegation_handle_work_result_tcp: the first matching slot is credited.
HandleResult(h) ==
  /\ held' = held \ {h}
  /\ \/ /\ \A s \in Slot : ~Credits(s, h)
        /\ UNCHANGED <<tableVars, returned>>
     \/ \E s \in Slot :
          /\ Credits(s, h)
          /\ \A u \in Slot : u < s => ~Credits(u, h)
          /\ pending' = [pending EXCEPT ![s] = Cleared]
          /\ inFlight' = [inFlight EXCEPT ![h.reader.ch] = Minus(@, 1)]
          /\ total' = Minus(total, 1)
          /\ returned' = returned + 1
  /\ UNCHANGED <<chanVars, flowVars, readers, loopVars, dispatched, timedOut, reclaimed, pass>>

\* The test of delegation_handle_tcp_channel_lost on its (channel, fd): a late
\* notice passes it when the channel has the descriptor again.
IsCurrent(c, k) == state[c] = "ACTIVE" /\ fd[c] = k

\* Mutant: reclaimed slots are not taken off deleg_inflight_total.
LoseChannelTotalKept(c) ==
  LET gone == Reclaimable({c})
  IN  /\ pending' = [s \in Slot |-> IF s \in gone THEN Cleared ELSE pending[s]]
      /\ reclaimed' = reclaimed + Cardinality(gone)
      /\ inFlight' = [inFlight EXCEPT ![c] = 0]
      /\ UNCHANGED total
      /\ Rewire({c}, {})

\* The slots a lost channel gives back, and its counter.
LoseChannel(c) ==
  LET gone == Reclaimable({c})
  IN  /\ pending' = [s \in Slot |-> IF s \in gone THEN Cleared ELSE pending[s]]
      /\ total' = Minus(total, Cardinality(gone))
      /\ reclaimed' = reclaimed + Cardinality(gone)
      /\ inFlight' = [inFlight EXCEPT ![c] = 0]
      /\ Rewire({c}, {})

\* work_recv_task leaves its loop (end of file, error, its socket closed
\* under it) and reports its channel and socket lost.
ReaderEnds(r) ==
  /\ ~Holding(r)
  /\ readers' = readers \ {r}
  /\ \/ IsCurrent(r.ch, r.fd) /\ LoseChannel(r.ch)
     \/ ~IsCurrent(r.ch, r.fd) /\ UNCHANGED <<chanVars, flowVars, tableVars, reclaimed>>
  /\ UNCHANGED <<held, loopVars, dispatched, returned, timedOut, pass>>

\* work_sender_task: send_exact fails or times out.
SendFails(c) ==
  /\ queue[c] # <<>>
  /\ IsCurrent(c, fd[c])
  /\ LoseChannel(c)
  /\ UNCHANGED <<readers, held, loopVars, dispatched, returned, timedOut, pass>>
-----------------------------------------------------------------------------
(***************************************************************************)
(* delegation_tick, one pass of manager_task.                              *)
(***************************************************************************)

Older(s, u) ==
  \/ pending[s].cycle < pending[u].cycle
  \/ pending[s].cycle = pending[u].cycle /\ pending[s].block < pending[u].block

\* Mutant: no slot ever times out.
ExpiredNever(X) == X = {}

\* Slots found older than the timeout: with a slot every older one, and
\* every slot that has seen PassLimit passes.
Expired(X) ==
  /\ {s \in Pending : pending[s].age >= PassLimit} \subseteq X
  /\ \A s \in X, u \in Pending : Older(u, s) => u \in X

\* Mutant: the drain closes a channel without waiting for its results.
FatesHastyDrain(c, low, n) ==
  CASE state[c] = "IDLE"       -> {"keep"}
    [] state[c] = "REQUESTING" -> {"keep", "reset"}
    [] state[c] = "ACTIVE"     ->
         {"drop"} \cup IF fd[c] = NoFd THEN {"keep", "dial"}
                       ELSE IF low THEN {"reset"} ELSE {"keep"}

\* What a pass may do to channel c, low telling STRESS_LOW and n its
\* in_flight_count after the timeouts: leave it, reset it (request timed out,
\* drain complete), drop it with its pending slots (peer dead, or the retried
\* connect failed), or connect it.
Fates(c, low, n) ==
  CASE state[c] = "IDLE"       -> {"keep"}
    [] state[c] = "REQUESTING" -> {"keep", "reset"}
    [] state[c] = "ACTIVE"     ->
         {"drop"} \cup IF fd[c] = NoFd THEN {"keep", "dial"}
                       ELSE IF low /\ n = 0 THEN {"reset"} ELSE {"keep"}

\* A slot the pass leaves in flight; ages beyond PassLimit do not differ.
Aged(e) == IF e.age < PassLimit THEN [e EXCEPT !.age = @ + 1] ELSE e

Pass(X, left, fate) ==
  LET dropped == {c \in Channel : fate[c] = "drop"}
      closed  == {c \in Channel : fate[c] \in {"drop", "reset"}}
      dialed  == {c \in Channel : fate[c] = "dial"}
      gone    == Reclaimable(dropped) \ X
  IN  /\ \A c \in dialed : dials[c] < MaxDials
      /\ inFlight' = [c \in Channel |-> IF c \in closed THEN 0 ELSE left[c]]
      /\ pending' = [s \in Slot |->
           IF s \in X \cup gone THEN Cleared
           ELSE IF s \in Pending THEN Aged(pending[s]) ELSE pending[s]]
      /\ total' = Minus(Minus(total, Cardinality(X)), Cardinality(gone))
      /\ timedOut' = timedOut + Cardinality(X)
      /\ reclaimed' = reclaimed + Cardinality(gone)
      /\ Rewire(closed, dialed)
      /\ readers' = readers \cup {Receiver(c, fd'[c]) : c \in dialed}

\* A pass that finds the slots of X older than the timeout.
PassFinding(X) ==
  /\ LET left == [c \in Channel |-> Minus(inFlight[c], Cardinality(X \cap Owned(c)))]
     IN  \E low \in BOOLEAN, fate \in [Channel -> {"keep", "reset", "drop", "dial"}] :
           /\ \A c \in Channel : fate[c] \in Fates(c, low, left[c])
           /\ Pass(X, left, fate)
  /\ pass' = ~pass
  /\ UNCHANGED <<held, loopVars, dispatched, returned>>

Tick == \E X \in SUBSET Pending : Expired(X) /\ PassFinding(X)
-----------------------------------------------------------------------------
Next ==
  \/ TryOffload
  \/ \E c \in Channel : Accepted(c) \/ Refused(c) \/ Send(c) \/ HostGone(c) \/ SendFails(c)
  \/ StartCycle \/ DispatchBusy \/ DispatchUnsent \/ DispatchSent
  \/ \E r \in readers : ReadResult(r) \/ SplitResult(r) \/ ReaderEnds(r)
  \/ \E h \in held : HandleResult(h)
  \/ Tick

Spec == Init /\ [][Next]_vars

\* manager_task runs for ever, once per MANAGER_PERIOD_MS; nothing is assumed
\* of what its passes find, nor of any other task.
FairSpec == Spec /\ WF_vars(Tick)
-----------------------------------------------------------------------------
(***************************************************************************)
(* Properties.                                                             *)
(***************************************************************************)

\* Every variable keeps the type of the field it stands for; rr_index stays
\* an index of eligible_slots.
TypeOK ==
  /\ state \in [Channel -> {"IDLE", "REQUESTING", "ACTIVE"}]
  /\ fd \in [Channel -> Fd \cup {NoFd}]
  /\ inFlight \in [Channel -> Nat]
  /\ queue \in [Channel -> Seq(Key)]
  /\ wire \in [Channel -> Seq(Key)]
  /\ mixed \subseteq Channel
  /\ up \in [Channel -> BOOLEAN]
  /\ dials \in [Channel -> Nat]
  /\ readers \subseteq Reader
  /\ held \subseteq Result
  /\ pending \in [Slot -> Entry]
  /\ total \in Nat /\ cycle \in Nat /\ next \in Nat /\ todo \in Nat
  /\ rr \in Channel
  /\ dispatched \in Nat /\ returned \in Nat /\ timedOut \in Nat /\ reclaimed \in Nat
  /\ pass \in BOOLEAN

\* The two caches of the pending table are exact: in_flight_count is the number
\* of slots owned by its channel and deleg_inflight_total the number in flight,
\* although five handlers adjust them with subtractions that saturate.
InFlightExact ==
  /\ \A c \in Channel : inFlight[c] = Cardinality(Owned(c))
  /\ total = Cardinality(Pending)

\* No channel ever has more than DELEGATION_MAX_INFLIGHT_PER_CHANNEL blocks out.
CapRespected == \A c \in Channel : inFlight[c] <= MaxInflight

\* RUNBOOK.md: deleg_inflight_total stays within the number of ACTIVE channels
\* times the cap, so a channel that closes takes all its slots with it.
InflightBounded == total <= MaxInflight * Cardinality(Active)

\* Every block ever dispatched came back, timed out, was reclaimed with its
\* channel, or is still in flight; none is counted twice, none is forgotten.
Conservation == dispatched = returned + timedOut + reclaimed + total

\* A (cycle, block) pair, which is all that a result frame carries to name its
\* dispatch, belongs to one pending slot at most.
KeysUnique ==
  \A s, u \in Pending :
    pending[s].cycle = pending[u].cycle /\ pending[s].block = pending[u].block => s = u

Elements(q) == {q[i] : i \in DOMAIN q}

\* A slot in flight waits for something: while the far end of its channel is
\* there, its frame is queued, on the wire or in a receiver's hands, on the
\* connection the channel has now; unless a receiver left from an earlier
\* connection has read from this one.
PendingOnItsWay ==
  \A s \in Pending :
    LET c == pending[s].ch
        On(f) == f.conn = dials[c] /\ Matches(s, f, c)
    IN  up[c] /\ c \notin mixed =>
          \/ \E f \in Elements(queue[c]) \cup Elements(wire[c]) : On(f)
          \/ \E h \in held : h.reader.ch = c /\ On(h.frame)

\* A result that came over a connection since closed is never credited, not even
\* when its channel is connected again and has work out; nor is one read by the
\* receiver of another channel.
StaleResultIgnored ==
  [][returned' # returned =>
       \E h \in held \ held' :
         LET c == h.frame.ch IN c = h.reader.ch /\ fd[c] # NoFd /\ dials[c] = h.frame.conn]_vars

\* docs/decisions.md DEC-014: with manager_task running, no pending slot is held
\* for ever by a result that does not come.
SlotFreed == \A s \in Slot : s \in Pending ~> s \notin Pending

\* The abstract specification: the blocks out on a channel are those of the
\* slots it owns.  Five handlers and the manager's pass keep its promises, among
\* them that a channel leaves nothing out when it closes.
Flow == INSTANCE ChannelFlow WITH
  Key <- Nat \X Nat,
  out <- [c \in Channel |-> {<<pending[s].cycle, pending[s].block>> : s \in Owned(c)}]

ImplementsFlow == Flow!FlowSpec
=============================================================================
