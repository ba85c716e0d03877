# Formal model of distributed_rtos

TLA+ modules, TLC configurations and TLAPS proofs for the cluster of ESP32 nodes
in this repository: nodes that watch their own load and, when stressed, delegate
matrix blocks to peers, and the dashboard that commands them.  Each definition
is translated from the code under `firmware-esp32/main/` or from
`dashboard/app.py`; `PROJECT.json` maps it to its lines.

## 1. The system

| Part | State it keeps | Operations | Hard behaviour |
|---|---|---|---|
| Delegation (`network/delegation.c`) | `channels[4]`: IDLE, REQUESTING, ACTIVE, HOSTING, with peer, blocks, socket; `active_blocks` | `delegation_tick`, `_try_offload`, `_handle_request`, `_handle_reply`, `_handle_tcp_channel_lost` | QoS 0 messages lost or late; requests that cross; crashes; a slot used for both roles |
| Work pipeline (`delegation.c`, `tasks/compute_task.c`) | `pending_work[20]`, `in_flight_count` per channel, `deleg_inflight_total`, `compute_cycle_id`, `rr_index` | dispatch, result, timeout, reclaim, drain | two counters cache one table and five handlers adjust them; results of closed connections |
| Work transport (`network/work_transport.c`) | a socket, a send queue, a sender task (priority 1) and a receiver task (priority 3) per channel; a server and a hosting task | connect, enqueue, teardown, loss notices | tasks outlive the connection they serve; connect blocks its caller |
| Peer table (`mqtt.c`, `delegation.c`, `manager_task.c`) | `peers[8]`: id, stress, address, last seen, valid | refresh and replace (mutex), evict (no lock), force stale (no lock) | a 32-bit clock; ages that underflow; searches that differ |
| MQTT (`network/mqtt.c`) | subscriptions; control state (`load_factor`, `active_blocks`, time offset) | telemetry in and out, control actions, routing of the handshake | control races the tasks |
| Manager (`tasks/manager_task.c`, priority 3, every second) | stress level, adaptation streaks, the last window read | tick, offload, eviction, adaptation, telemetry | everything else runs around it |
| Compute (`tasks/compute_task.c`, priority 2, every 100 ms) | cycle, exec statistics per window | local blocks, dispatch, statistics | is preempted anywhere |
| Sensor and control (priorities 5, 4), metrics, boot, Wi-Fi | a queue of sixteen samples; an idle baseline | | |
| Dashboard (`dashboard/app.py`) | fault mode, last sight, time sync per node | control, state update, failover list | request threads and the MQTT thread share dictionaries without order; commands lost at QoS 0 |
| ESP8266 firmware, experiments, lab harness | | superseded, or offline | |

The parts share one `system_context_t` with almost no locking (a mutex guards
the writes of `peers[]` by the MQTT task and the reads of `try_offload`).  One
core runs all tasks (`CONFIG_FREERTOS_UNICORE`), so the order of priorities
decides which interleavings exist: sensor and MQTT 5, control 4, manager and
receivers 3, compute 2, senders 1.  Nodes talk over MQTT for telemetry and the
handshake and over TCP for the work.

What makes the parts correct:

* handshake: no block of load is ever forgotten; a channel is active only to a
  peer that agreed; one channel per peer; a dead peer is dropped;
* pipeline: the counters are exact, the cap holds, every dispatched block is
  accounted for once, results are credited only to their own dispatch, no slot
  leaks;
* peer table: all searches by id agree; eviction hits silent peers only; a peer
  marked stale is not chosen again before it is heard;
* connection: whoever notices its end, everything made for it is released once,
  its block comes back once, and the peer's end is released too;
* load: it stays within its clamp, the idle baseline holds none of the blocks
  that wait for it, an overload is answered;
* dashboard: a node that speaks is in the end not shown as off, one that is gone
  for good is reported, whatever was lost or overtaken.

## 2. Modules

`WorkPipeline` **(core)** — the delegator's data plane.  One action per handler:
`TryOffload`, `Accepted`, `Refused` (the handshake as the data plane sees it);
`StartCycle`, `DispatchBusy`, `DispatchUnsent`, `DispatchSent` (the three results
of `delegation_dispatch_work_item`); `Send`, `SendFails` (sender task),
`ReadResult`, `HandleResult`, `ReaderEnds` (receiver task, with the gap between
reading a frame and handling it), `HostGone` (the host, external) and `Tick`
(all of `delegation_tick`: the scan for timeouts, then every channel in order).
The send queue exists exactly when there is a socket.  A descriptor (`Fd`, `NoFd`
for -1) is what the code stores and compares; it is free again as soon as its
socket is closed, and the next connection of any channel may get it.  Receiver
tasks survive their connection, as in the code, so an old one may find its
descriptor in use again: it then reads from the new connection (`ReadResult`), or
takes part of one of its frames (`SplitResult`, after which the frame is lost), and
its loss notice is obeyed and closes that connection (`ReaderEnds` with
`IsCurrent`).  `dials` numbers the connections of a channel, which the code
cannot do: it is there for the properties to tell them apart, and so is `mixed`, the
channels from whose connection an older receiver has read.  `age` counts manager
passes: with `PassLimit` passes a slot is surely older than the timeout, before
that it may be.  `dispatched`, `returned`, `timedOut` are the code's telemetry
counters; `reclaimed` sums what `channel_reclaim_pending` returns.

`WorkPipelineTasks` — the same taken access by access, the dispatch and every
handler: one step is one load, store or test of `pending_work`, `in_flight_count` or
`deleg_inflight_total`.  A dispatch (`chosen`) enqueues, writes the fields of its
entry, then its time stamp, then loads and stores each counter.  A handler
(`busy`) of the manager, a receiver, the MQTT task or a sender tests, loads and
stores the two counters (`CountTested` to `TotalStored`), clears its slot
(`SlotCleared`) or sweeps the table (`Swept`), and resets the channel
(`QueueDeleted`, `ChannelReset`).  Manager and receivers share a priority and
MQTT is above them, so these interleave freely; compute_task runs only while none
of them is in the middle, except where a reset waits for lwIP to close the socket,
and a sender only while compute_task is not dispatching either.  Time is left out:
any slot may be old, the one being dispatched only while its `sent_ms` is still 0.
The total is a number modulo `Word`.

`ChannelFlow` — the abstract specification: per channel a state and the set of
blocks out.  It promises that dispatch happens on ACTIVE channels under the cap,
that a block is out on one channel only, and that a channel that closes leaves
nothing out.  `WorkPipeline` is shown to implement it (`ImplementsFlow`, with
`out` the keys of the slots a channel owns), by TLC on an instance and by proof
for all.

`PeerTable` — the table with the three tasks that touch it, the eviction loop
taken entry by entry (test, then write), and the clock modulo `Wrap`.  `shunned`
is a history variable.

`Delegation` — the handshake of a whole cluster, each node with its channel
table, its view of the peers and its `active_blocks`; messages form a set whose
members are delivered in any order or lost; nodes crash and come back empty. The
manager's pass is taken in steps: `ManagerPass` is the tick with the choice of
the candidates and of their share, then for each candidate `Search` finds an
idle slot and `Claim` writes it and publishes the request.  MQTT outranks the
manager, so by then `HandleRequest` may have given that slot to a delegator; the
claim writes over it all the same, and the delegator goes into `forgot`.
`asking` holds what the offload has in its locals.  `SetBlocks` is the command
that overwrites `active_blocks`; `Laden` and `Fragile` say who may report stress
and who may crash.  `wanted` (the load last given) and `forgot` are history
variables.  The data plane is abstract: a drain or a loss may happen whenever
the channel's state allows.

`TransportChannel` — one channel's fields and the tasks that write them, a step
at a time: `work_transport_connect` with its failing exits (`Dial`, `DialEnds`,
`MakeQueue`, `MakeSender`, `MakeReader`, then `Store` by the caller), the loss
notice and the teardown (`ReportFailure`, `ReaderEnds`, `SendFails`,
`RestoreBlocks`, `DeleteSender`, `DeleteQueue`, `CloseSocket`, `ClearChannel`),
and what starts them (`Accept`, `Reject`, `Host`, `TickDials`, `TickResets`,
`Offload`).  `at` says where each task is, `Runs` that a step needs every task of
higher priority to wait: the MQTT task is interruptible only while it blocks in
connect().  Sockets are numbered; a queue, a sender and a receiver carry the
number of theirs.  `fd[n]` is the descriptor of socket n, free for a later one once
n is closed, and what the code compares (`Obeyed`) and closes (`CloseSocket`) is
the descriptor.  An address that is unknown or malformed leaves -1 (`Accept`,
`TickDials`).  `Overlap` names what one task may be in the middle of when
another begins to handle the channel.  The code has no lock, so everything may;
the empty set shows what would hold if the handlers excluded one another.

`AtomicChannel` — the abstract specification of that: the channel as
`Delegation` and `WorkPipeline` take it, each handler one step (`Take`,
`Charge`, `Connect`, `Drop`, `Close`), a connection there or not, the blocks off
`active_blocks` exactly while it is ACTIVE.  `TransportChannel` implements it as
long as no handler begins in the middle of another (`ImplementsAtomic`, checked
with `Overlap` empty, and proved of any `Overlap` until the first such step).
The mapping takes a reset for done once the blocks are back (`Unwinding` from
there to its end) and a connect once its socket is stored; `spent` is the set of
connections stored or given up.

`TransportLink` — extends it with the other end: the server task's accept with its
backlog, and the hosting task of each connection from its allocations through
`recv`, compute and send to its exit.  The host keeps no table of these tasks;
each learns of its connection from its socket alone.  TCP keeps a connection's
frames in order and tells each end that the other closed.

`TransportOverlap` — extends that with a history variable, `crossed`: whether a task
has begun to handle the channel in the middle of another's connect or reset
(`Crossing`).  `LeaksCross`, `FieldsCross`, `SendersCross`, `BlocksCross` and
`AtomicTillCrossed` are the properties of the channel up to that point; they are
stated of every run of the code, whatever overlaps later.

`NodeLoad` — one node's load as a control loop: compute_task counts cycles and
missed deadlines and hands over a window (`Cycle`, `WriteWindow`, `FlagWindow`);
manager_task takes a pass in the steps between which others may run: `Wake` (the
CPU sample, the stress level), `Delegate` (tick and offload), `Decide` and
`Store` (the next `load_factor`, worked out and written), `Published` (the ready
flag is cleared); `SetLoad` comes from the MQTT task at any moment.  The idle
baseline of `metrics.c` is taken by the same pass; it gates the node's own
blocks and not those of its ACTIVE channels, which `Cycle` hands out, or runs,
before it too.  Loads are counted in steps, time in cycles.

`ControlLoop` — the dashboard and one node: `Give` publishes a command and
`RecordMode`, later and in another order, its fault mode; `UpdateState` is the
MQTT thread, `Poll` the failover list, `SightAges` and `SyncAges` the clock; the
node obeys, publishes, restarts, loses power.  Both directions are queues that
may lose any message.  Sequence numbers are times of day in milliseconds, which
do not fit the node's `long` (`LongMax`), as in the code.

`WorkPipelineProofs`, `WorkPipelineFlowProofs`, `WorkPipelineTasksProofs`,
`PeerTableProofs`, `DelegationProofs`, `NodeLoadProofs`, `TransportProofs` (of
`TransportChannel`, `TransportLink` and `TransportOverlap`), `ControlLoopProofs`
— theorems and proofs.  `MC*` — instances for TLC.

`TransportLink` composes `TransportChannel` with the host; `WorkPipelineTasks`
extends `WorkPipeline`; the other modules meet only in variables that one of them
leaves free (the blocks to dispatch, the stress level, a drain, a loss).

## 3. Runs

| Run | Checks | Bounds |
|---|---|---|
| `MCWorkPipelineTable` | `TypeOK`, `InFlightExact`, `CapRespected`, `InflightBounded`, `Conservation`, refinement `ImplementsFlow` | 2 channels, 3 slots, cap 2, 1 cycle of up to 3 blocks, 1 connection each, 2 descriptors |
| `MCWorkPipelineReconnect` | `KeysUnique`, `PendingOnItsWay`, `StaleResultIgnored`, `SlotFreed` | 1 channel, 2 slots, 2 cycles, 2 connections, 1 descriptor |
| `MCWorkPipelineTasks` | `ExactAtRest` — violated | 1 channel, 2 slots, 2 cycles, 2 connections, 1 descriptor, a word of 16 |
| `MCPeerTable` | `TypeOK`, `FirstMatchIsLive`, `ShunnedUntilHeard` | 3 publishers, 2 entries, clock modulo 5, timeout 1 |
| `MCPeerTableEviction` | `EvictedWasSilent` — violated | 1 publisher, clock modulo 8 |
| `MCDelegationStar` | `TypeOK`, `BlocksCovered`, `OneChannelPerPeer`, `ActiveIsHosted` | 1 stressed node, 2 hosts, 2 slots each, 2 blocks, SET_BLOCKS to half of them, 2 messages on their way, requests expired at every pass, stress reported by the hosts only, no crash |
| `MCDelegationPair` | `ActiveIsHosted`, `FailoverCompletes` | 2 stressed nodes that report LOW, 1 crash, of one of them, requests that may outlive a pass |
| `MCDelegationLoad` | `LoadShared` — violated | 1 stressed node, 1 host, 2 blocks |
| `MCTransportLink` | `LinkTypeOK`, `NothingLeaked`, `OnlyActiveHolds`, `SenderHasItsOwn`, `RestoredOnce`, `SocketFollows`, `HostReleases`, `ItemsServedOrConnectionOver`, refinement `ImplementsAtomic` | 1 channel, 2 connections, 1 descriptor, 1 item in a connection's buffers, 1 block and 1 lent on another channel, handlers one at a time, a host short of memory |
| `MCTransportChannelOverlap` | `NothingLeaked` — violated | 1 channel, 2 connections, 2 descriptors, handlers may begin during a connect |
| `MCNodeLoad` | `TypeOK`, `BaselineUnloaded`, `OverloadAnswered` | loads 1 to 3 of which 1 is sustainable, windows of 2 cycles, 1 baseline sample, 2 cycles of lag, 1 SET_LOAD of 0, 4 or 9 in a word of 8 |
| `MCControlLoop` | `TypeOK`, `PowerShown`, `FailureNoticed`, `SyncedInTheEnd` | 2 commands, 1 outage, 2 messages per direction |

Why the bounds are enough for the cases that matter.  Three slots over two
channels with a cap of two fill the table before the caps, and the caps before
the table; one connection per channel still lets a channel be closed and asked
for again.  What needs a second connection (late results, late notices) needs
only one channel, and a single descriptor forces the second connection to get
that of the first while its receiver lives; two cycles make a block number
ambiguous without its cycle, and two blocks make it ambiguous without its
number.  Two entries for three publishers force both reuse of freed entries and
replacement of live ones, and the clock wraps.  Two hosts give two simultaneous
channels, hence the ledger of blocks its sums, and two messages let a late
answer meet a second request. `MaxMsgs` loses what is published beyond it, which
QoS 0 allows; `MaxCycles`, `MaxDials`, `MaxBlocks` and `MaxCrashes` stop new
activity and no handler. Two connections of one channel let the receiver of an
old one coexist with a new one, and one block lent elsewhere is what a second
restore would invent.  One frame in the buffers is what the delegator's close
may leave unread.  Three loads allow two steps down from the highest, two cycles
make a window that SET_LOAD can split, and 0, 4 and 9 are below, above and
beyond the word (9 is 1).  Two commands are enough for a pair whose modes are
recorded in the other order, with one outage between them. Hosts are
interchangeable in the star, publishers in the peer table, descriptors in the
pending table: all three use symmetry, and no liveness property is checked
there.  In the pair a node reports LOW only: a pass beside a peer that is MEDIUM
or HIGH does what one does that does not get the mutex of the peer table.

### What the violated runs show

* **Neither a dispatch nor a handler is atomic** (`MCWorkPipelineTasks`).
  docs/system-state-model.md:127 says that `deleg_inflight_total` is the number of
  slots in flight.  In the trace compute_task sets `in_flight` of a slot
  (delegation.c:619) and is preempted before it writes `sent_ms` (620), which is
  still 0; the manager's scan (276-303) finds the slot older than the timeout, both
  saturating decrements find nothing to take off, and the slot is cleared.
  compute_task then goes on to count it (623-624): the total is 1, no slot is in
  flight and nothing is under way.  The total is only ever counted up and down, so
  the error stays.  It errs the other way too: the manager and a receiver share a
  priority and may both take one slot off, an update may be lost between its
  load and its store, and the test before a decrement and the decrement load a
  volatile twice, so that it may wrap below zero.  `in_flight_count` may be wrong
  either way as well.  It stays within the cap (`CountWithinCap`, proved); the slots
  it stands for need not.
* **A peer just heard is evicted** (`MCPeerTableEviction`).  The loop uses a
  reading of the clock made before `delegation_tick`, which can block in a TCP
  connect; telemetry handled meanwhile is newer than the reading, the unsigned
  age wraps, and the entry is dropped as timed out.
* **Delegated blocks are subtracted twice** (`MCDelegationLoad`).  The accept
  takes a channel's blocks off `active_blocks`, which caps what a cycle runs;
  the cycle then takes the delegated blocks off once more.  `BlocksCovered` says
  the ledger is right (`active_blocks` and the channels' blocks cover the load);
  `LoadShared` that what a cycle does with it is not: with 20 blocks and 10
  delegated, none run locally.  DEC-011 says that local compute drops by the
  delegated fraction.
* **A channel is connected twice** (`MCTransportChannelOverlap`).  The accept
  makes the channel ACTIVE and blocks in connect() with `tcp_fd` still -1; the
  manager's tick reads that as a connect that failed and connects too.  In the
  run the accept's connect succeeds and stores its socket; the tick's fails, its
  loss notice (socket -1) is ignored because a socket is stored, and it then
  stores -1 over it.  No reset closes that socket any more, and the next tick
  connects over its queue and its sender.  `MCTransportLink` shows the other half:
  with handlers one at a time every exit releases what it made.  The same overlap
  breaks `OnlyActiveHolds`, `SenderHasItsOwn`, `RestoredOnce` and the refinement
  of `AtomicChannel`; what is proved of these (section 4) is that each of them
  needs such an overlap first.

### Fairness

`WorkPipeline!FairSpec` assumes weak fairness of `Tick` alone: `manager_task`
loops for ever and outranks compute and senders.  Nothing is assumed of hosts,
sockets or results; that is what makes `SlotFreed` worth having.
`Delegation!FairSpec` assumes weak fairness of each running node's manager
(`Manages`: a pass, or the next search or claim of one under way) and that the entry
of a peer that is down grows old (`WF` of `PeerSilent` only while the peer is
down).  Messages and replies are not assumed to arrive.
`TransportLink!LinkSpec` assumes that a task that is not waiting goes on
(connect() returns in the end; senders run when compute sleeps), that the
manager, which visits every channel each second, dials one without a socket (so
that it comes to know a well-formed address of a peer that is alive, which the
peer's telemetry carries), that
the host's tasks run, and that a receiver whose connection is over gets its turn:
that last one is strong fairness, because tasks of higher priority interrupt it.
`NodeLoad!FairSpec` assumes that compute, manager and the clock go on.  Peers,
channels and commands are free; `OverloadAnswered` holds for any of them.
`ControlLoop!FairSpec` assumes that the tasks and threads go on, that a node
that restarts comes up, and, by strong fairness of the two receptions, that the
network is fair: a message sent again and again comes through.  The code repeats
telemetry and SYNC_TIME for ever, so that is what QoS 0 gives; no single message
is assumed to arrive.

## 4. Proofs

TLAPS checks, for all values of the constants that the named assumptions allow
(`PipelineConstants`, `PeerTableConstants`, `DelegationConstants`,
`ChannelConstants`, `LinkConstants`, `LoadConstants`, `LoopConstants`):

* `WorkPipelineProofs`: `TypeCorrect`, and, from one inductive invariant, the
  theorems `InFlightCorrect`, `CapCorrect` and `ConservationCorrect`.
  `InFlightExact` is not inductive: `Refused` and the request timeout zero
  `in_flight_count` without touching the table, which is right only because a
  channel that is not ACTIVE owns no slot.  `IInv` adds that (`OwnersActive`).
  `CapRespected` needs nothing more; `Conservation` needs exactness, because the
  subtractions saturate and lose nothing only when the total is what it says.
  The proof has one lemma per action; counting lemmas on `Cardinality` of
  `Owned` come first.
* `WorkPipelineFlowProofs`: a second inductive invariant, `RInv`, about frames
  and results.  A result names its dispatch by a (cycle, block) pair only.  That
  is enough because pairs are never used twice (`KeysOld`: every pair in the
  table, in a queue, on the wire or in a receiver's hands was passed by the
  dispatch loop), because the frames in a channel's queue and on its wire are of
  the connection it has now (`FramesOwn`), whoever reads them, and because only
  a connected ACTIVE channel has slots (`SlotsConnected`).  That a descriptor is
  in use again weakens one of the facts only: a slot may have no frame under way
  on a channel of `mixed`, whose frames an older receiver has taken.  Every
  action but the dispatch is shown to do one of two things to a channel: leave
  it with nothing (`Void`), or keep its connection and all that its slots wait
  for (`Kept`); one lemma, `ShrinkKeeps`, then does for all of them.  From it
  follow `KeysCorrect` and `OnItsWay`, and the action property `StaleIgnored`.
  `BoundCorrect` counts: a pending slot is mapped to its channel and the number
  of that channel's slots before it, an injection into the ACTIVE channels times
  the cap.  `FlowImplemented` is the refinement: initial states map to initial
  states, and every step of the pipeline to one of `ChannelFlow` or to a
  stutter.
* `WorkPipelineTasksProofs`: what is left of the counters when dispatch and handlers
  are interleaved access by access (`TasksSpec`), for any `Word` that is not 0
  (`WordIsPositive`, a hypothesis of each theorem).  `TasksTyped`: every variable
  keeps its type, one dispatch at most is under way and each task runs one handler.
  `CountWithinCap`: the cap is tested several accesses before the count is
  stored.  Handlers store less than they loaded, a load is never above the cap,
  and none that has loaded waits while compute_task runs; so between the test and
  the store the count does not rise (`RoomLeft`).  `TasksKeysUnique` needs that the
  loop stands at the key of the slot just recorded until it is counted
  (`KeysBehind`).  No bound on the total is proved, because none holds:
  handlers of one priority may take one slot off twice, so that it is too low, or
  wraps, as well as too high.
* `PeerTableProofs`: `TypeCorrect`; `FirstMatchCorrect`, inductive together with
  types: a fresh entry is taken only when no valid one has the id, and the first
  free one, so an evicted twin can only follow; `ShunnedCorrect`, from the
  stronger fact that the first entry named after a shunned peer carries the mark
  zero, for which `FirstMatchIsLive` is needed.
* `DelegationProofs`: `TypeCorrect`; `SoleChannel`; `Agreement`, that a channel is
  ACTIVE only towards a node that hosts it or that forgot the delegator since.
  That is inductive only with the answers still on their way: an accept in
  `msgs` already stands for a hosted channel (`AcceptIsHosted`), whatever
  request of the same pair has timed out or been sent again meanwhile.  A host
  also forgets a delegator when it claims, for a request of its own, the slot it has
  just given away; the theorem says so.  `SoleChannel` is inductive with
  `AskedAreNew`: no channel leads yet to a candidate that an offload has still to
  ask, however MQTT comes in between.
  `NothingForgotten` is `BlocksCovered` for any number of channels and blocks,
  with the blocks lent counted as pairs of a channel and a number, so that
  closing channels adds the sizes of disjoint sets.  That a claim writes over a
  slot is harmless here because of `FoundIsSpare`: a slot found idle may come to
  host, but carries no blocks of this node when it is claimed.
* `NodeLoadProofs`: `TypeCorrect` needs the gate of the window counter (a window
  is closed before it is longer than it should be) and the gate of the baseline
  (it is there exactly when the calls exceed its samples).  `BaselineCorrect`
  adds to `BaselineUnloaded` what took idle time since the last sample: the boot
  only while no call was made, and the node's own blocks only once the baseline
  is there, when no call is a sample any more.  Both rest on `LoadConstants`: a
  floor not above the ceiling, both of them less than the word.

* `TransportProofs`: `ChannelTyped` and `LinkTyped` hold whatever overlaps; they
  need only that a client in a connect has its socket, or 0 once it gave it up
  (`MineOK`).  The other theorems are about every run of the code too, for any
  `Overlap`, any number of connections and descriptors, and the failure of any
  call, and say what holds until a handler first begins in the middle of another
  (`Crossing`, remembered in `crossed`): `LeaksFollowOverlap`,
  `OnlyActiveHoldsTillOverlap`, `SendersOwnTillOverlap`, `BlocksOnceTillOverlap`.
  Nothing in the code prevents an overlap, and `MCTransportChannelOverlap` is what
  comes of one; these theorems say that there is no other cause.  No failing
  exit, no second notice, no reused descriptor breaks the properties by itself.
  The invariant is `XInv`, which holds while `~crossed`.  `Serial`: either nobody
  is in a handler and socket, queue and sender are those of one connection or of
  none (`Calm`), or one task is, and what there is depends on how far it got
  (`Stage`, one line per place).  `SenderOwn`: a sender that waits is the
  channel's, so the one that reports a failure is obeyed and the reset deletes no
  other.  `Accounts`: `active_blocks` and the blocks of an ACTIVE channel add up to
  what the other channels leave, until `RestoreBlocks`.  Only the absence of a
  crossing is used, not priorities.  `ChannelIsAtomicTillOverlap` is the
  refinement: `RestoreBlocks` is `Close`, a connect that gives up or stores its
  socket is `Connect`, a reset of a channel that is not ACTIVE is `Drop` at its
  first step, and all else stutters.  In that direction `Accounts` shows that the
  floor and the cap on `active_blocks` never bite.  `LinkImplementsChannel`
  carries the four safety properties to both ends (`LinkSafe`).
* `ControlLoopProofs`: `LoopTyped`, for which the queues must be sequences of
  messages (`Queues`).  `SeqSaturates`: when the time of day does not fit the node's
  `long`, as on the ESP32, every `last_ctrl_seq` is 0 or the largest long.

Model-checked only: the liveness properties (`SlotFreed`, `FailoverCompletes`,
`SocketFollows`, `HostReleases`, `ItemsServedOrConnectionOver`, `OverloadAnswered`,
`PowerShown`, `FailureNoticed`, `SyncedInTheEnd`), which are outside the prover.
Every other property of a passing run is a theorem.  Those of the channel
(`NothingLeaked`, `OnlyActiveHolds`, `SenderHasItsOwn`, `RestoredOnce`,
`ImplementsAtomic`) are theorems up to the first overlap, which for the run's empty
`Overlap` never comes.

## 5. Abstractions

* Handlers are atomic except where said (`WorkPipelineTasks`, `HandleResult`
  after `ReadResult`, the eviction loop, the passes of `NodeLoad` and `Delegation`).
  What is proved of `WorkPipeline` is proved of whole handlers; `WorkPipelineTasks`
  shows what preemption does to it: the cap on the counter and the uniqueness of
  keys survive; `InFlightExact`, `InflightBounded`, `Conservation`,
  `PendingOnItsWay` and `StaleResultIgnored` do not.  There the dispatch is one step
  up to the return of the enqueue; a queue deleted between the choice of its
  channel and the enqueue is a use after free, and no outcome of it is modelled.
* The steps inside a connect are in `TransportChannel`.  There, work in flight, the
  peer's mark and the frames are left out (they are in the other modules), and the
  test and the start of a handler are one step.
* In `Delegation` the tick, with its connects, is one step, and so are the writes
  of a claim (`delegation.c:450-454`) and each load and store of `active_blocks`
  (330, 354, 818, 906).  The code does the last without a lock from three tasks, so
  an update can be lost, and `BlocksCovered` does not cover that.
* The payload of frames, the topics, the JSON, the logs and the counters
  `deleg_busy_skip`, `deleg_dispatch_err` and `deleg_failover_count` are left out.
* The number of blocks dispatched per cycle is any number up to `MaxBlocks` in
  `WorkPipeline`; where it comes from is in `Delegation`.
* Descriptors are taken from a fixed set, any free one at a time; lwIP takes the
  lowest free.  Sockets of other parts (MQTT, the work server) may hold some.  A
  late loss notice may close the new connection of its channel, which loses no
  block (they are reclaimed and restored) and costs a connection.
* `channel_reclaim_pending` has an arm for slots with no channel; none exists
  while in flight.
* A node's stress is LOW or not; each pass chooses, and only `Stressed` nodes
  may choose otherwise.  CPU headroom is a free choice when a request comes.
* `view` takes a peer whose channel was lost for dead at once; the exception
  near the zero of the clock is in `PeerTable` (`ShunnedUntilHeard`).
* Messages of the handshake are delivered in any order, more than the broker
  would do; those of `ControlLoop` in order, some of them not at all.
* In `NodeLoad` a load takes the whole period or does not, by `Sustainable`; a
  window with no miss leaves the stress level free, since CPU readings decide it;
  `MaxLag` bounds how far compute may be behind.  Hosting during the baseline is
  allowed, and so is an ACTIVE channel: the dispatch loop of compute_task, and
  the kernel it runs when a dispatch fails (`compute_task.c:113-134`), are behind
  no gate, and count as idle time lost.  How long a cycle takes with an ACTIVE
  channel is left open (`Overruns`).
* In `TransportLink` the step where `xTaskCreate` fails unnoticed exists
  (`"task"`) and the run leaves it out: the socket then stays open for ever, which
  is listed as a hazard.  A peer that vanishes without closing leaves a half-open
  connection at a host, with no keepalive in the code.
* `ControlLoop` has one node: the dashboard keeps nodes apart by their id.  The
  saturation of `strtol` on `seq` makes every `last_ctrl_seq` the same
  (`SeqSaturates`); only the latency figure depends on it, and that is not modelled.

Not modelled: the sensor queue (a producer and a consumer of samples that
nothing else reads), the CPU ratio and drift statistics (only published), Wi-Fi
(calls of the vendor's driver), the dashboard's page, logging sessions and
latency figures, the ESP8266 firmware (superseded), the experiment scripts
(offline), and the MQTT work path, which has no caller any more.

## 6. Plan

Done: the pipeline with its abstract specification and reused descriptors, whole
handlers and access by access; the peer table; the handshake with SET_BLOCKS,
crashes and an offload in steps; the connection step by step, alone and with its
host; the load of a node; the dashboard's control loop; proofs of every safety
property of a passing run, of both refinements, of what the counters keep under
preemption, and of the channel up to the first overlap of two handlers.

Left, in order of use:

1. `MCDelegationStar` with requests that outlive a pass and a crash together,
   which takes longer than is useful beside the code;
2. the updates of `active_blocks` access by access, as those of the pipeline's
   counters are;
3. two nodes in `ControlLoop`, for the failover list as a whole.
