------------------------- MODULE WorkPipelineTasks -------------------------
(***************************************************************************)
(* WorkPipeline with the preemption the firmware allows.  No lock guards   *)
(* the pending table or its two caches: compute_task (priority 2)          *)
(* dispatches, and the manager and the receivers (3), MQTT (5) and the     *)
(* senders (1) take results, timeouts and lost channels off, each in       *)
(* several accesses.  One action here is one access to pending_work,       *)
(* in_flight_count or deleg_inflight_total.                                *)
(*                                                                         *)
(* The manager, the receivers and MQTT interleave freely: the first two    *)
(* share a priority and are sliced by the tick, MQTT is above them.  The   *)
(* build has one core (CONFIG_FREERTOS_UNICORE), so compute_task runs only *)
(* while none of them is in the middle, except where reset_channel waits   *)
(* for lwIP to close the socket; and a sender only while compute_task is   *)
(* not dispatching either.                                                 *)
(*                                                                         *)
(* Time is left out: a pass may find any slot old, but for that of the     *)
(* dispatch under way once its sent_ms is written.                         *)
(***************************************************************************)
EXTENDS WorkPipeline

CONSTANT Word  \* deleg_inflight_total counts modulo Word: 2^32

\* The assumption of the theorems.
WordIsPositive == Word \in Nat \ {0}

VARIABLES
  chosen,  \* the dispatch under way: its slot and ch_idx, the access it
           \* made last and the counter it has loaded
  busy     \* the handlers under way: task, kind, channel index, slot, the
           \* access that comes next, how much to take off and what was loaded

taskVars == <<vars, chosen, busy>>

TasksInit == Init /\ chosen = {} /\ busy = {}
-----------------------------------------------------------------------------
(***************************************************************************)
(* Tasks and their handlers.                                               *)
(***************************************************************************)

Task == [who : {"manager", "mqtt", "receiver", "sender"}, ch : Channel, conn : Nat]

Manager     == [who |-> "manager", ch |-> 0, conn |-> 0]
Mqtt        == [who |-> "mqtt", ch |-> 0, conn |-> 0]
Receives(r) == [who |-> "receiver", ch |-> r.ch, conn |-> r.conn]
Sender(c)   == [who |-> "sender", ch |-> c, conn |-> dials[c]]

Idle(task) == \A x \in busy : x.by # task

\* A slot to take off its channel and the total, for a result or a timeout.
Takes(task, job, c, s) ==
  [by |-> task, job |-> job, ch |-> c, slot |-> s, at |-> "found", amount |-> 1, loaded |-> 0]

\* channel_reclaim_pending, its scan at slot 0, then reset_channel.
Reclaims(task, c) ==
  [by |-> task, job |-> "reclaim", ch |-> c, slot |-> 0, at |-> "sweep", amount |-> 0, loaded |-> 0]

Begins(x) == Idle(x.by) /\ busy' = busy \cup {x}
Becomes(x, y) == busy' = (busy \ {x}) \cup {y}

\* reset_channel alone: a refusal, a request timed out, a drain complete.
Resets(task, c) == [Reclaims(task, c) EXCEPT !.at = "taken"]

\* The queue of c is gone, its socket is being closed, its fields are as they were.
Closing(c) == \E x \in busy : x.ch = c /\ x.at = "closing"

\* A handler of the manager, a receiver or MQTT that does not wait.
InTheWay(x) == x.by.who # "sender" /\ ~(x.at = "closing" /\ fd[x.ch] # NoFd)

ComputeRuns == \A x \in busy : ~InTheWay(x)
SenderRuns  == ComputeRuns /\ chosen = {}

\* A sender task is deleted with its queue, unless that is its own doing.
Survivors(c) == {x \in busy : x.by.who # "sender" \/ x.ch # c \/ x.at = "closing"}
-----------------------------------------------------------------------------
(***************************************************************************)
(* The dispatch, access by access.                                         *)
(***************************************************************************)

\* delegation_dispatch_work_item up to the return of work_transport_enqueue_item.
DispatchQueued ==
  /\ ComputeRuns
  /\ chosen = {}
  /\ next < todo
  /\ \E s \in Slot, c \in Channel :
       /\ FirstFree(s)
       /\ Turn(c)
       /\ CanEnqueue(c) /\ ~Closing(c)
       /\ Enqueue(c)
       /\ chosen' = {[slot |-> s, ch |-> c, at |-> "queued", loaded |-> 0]}
  /\ rr' = NextTurn
  /\ UNCHANGED <<chanVars, wire, mixed, readers, held, tableVars, cycle, next, todo, countVars, busy>>

Reached(x, from, to, value) ==
  /\ x.at = from
  /\ chosen' = {[x EXCEPT !.at = to, !.loaded = value]}

\* cycle_id, block_id, channel_idx and in_flight, which makes the entry visible
\* before its sent_ms is written.
EnterSlot(x) ==
  /\ Reached(x, "queued", "entered", 0)
  /\ pending' = [pending EXCEPT ![x.slot] =
       [on |-> TRUE, cycle |-> cycle, block |-> next, ch |-> x.ch, age |-> 0]]
  /\ UNCHANGED <<inFlight, total, dispatched, next>>

\* sent_ms, then in_flight_count++, a load and a store.
LoadCount(x) ==
  /\ Reached(x, "entered", "loaded count", inFlight[x.ch])
  /\ UNCHANGED <<pending, inFlight, total, dispatched, next>>

StoreCount(x) ==
  /\ Reached(x, "loaded count", "counted", 0)
  /\ inFlight' = [inFlight EXCEPT ![x.ch] = x.loaded + 1]
  /\ UNCHANGED <<pending, total, dispatched, next>>

\* deleg_inflight_total++, then the counter that only this task writes, and on
\* to the next block.
LoadTotal(x) ==
  /\ Reached(x, "counted", "loaded total", total)
  /\ UNCHANGED <<pending, inFlight, total, dispatched, next>>

StoreTotal(x) ==
  /\ x.at = "loaded total"
  /\ chosen' = {}
  /\ total' = (x.loaded + 1) % Word
  /\ dispatched' = dispatched + 1
  /\ next' = next + 1
  /\ UNCHANGED <<pending, inFlight>>

DispatchStep ==
  /\ ComputeRuns
  /\ \E x \in chosen :
       EnterSlot(x) \/ LoadCount(x) \/ StoreCount(x) \/ LoadTotal(x) \/ StoreTotal(x)
  /\ UNCHANGED <<chanVars, flowVars, readers, held, cycle, todo, rr,
                 returned, timedOut, reclaimed, pass, busy>>
-----------------------------------------------------------------------------
(***************************************************************************)
(* What begins a handler.                                                  *)
(***************************************************************************)

beside == <<inFlight, total, loopVars, countVars, chosen>>

\* delegation_handle_work_result_tcp: the scan finds a slot, or it ends.
ResultComes(h) ==
  /\ Idle(Receives(h.reader))
  /\ held' = held \ {h}
  /\ \/ (\A s \in Slot : ~Credits(s, h)) /\ UNCHANGED busy
     \/ \E s \in Slot :
          /\ Credits(s, h)
          /\ \A u \in Slot : u < s => ~Credits(u, h)
          /\ Begins(Takes(Receives(h.reader), "result", h.reader.ch, s))
  /\ UNCHANGED <<chanVars, flowVars, readers, pending, beside>>

\* The scan of delegation_tick finds a slot too old, or one that a dispatch has
\* entered with sent_ms still 0.
TimeoutFound(s) ==
  /\ s \in Pending
  /\ \A x \in chosen : x.slot = s => x.at = "entered"
  /\ pending[s].ch \in Channel
  /\ Begins(Takes(Manager, "timeout", pending[s].ch, s))
  /\ UNCHANGED <<chanVars, flowVars, readers, held, pending, beside>>

\* Its peer is dead, or the connect it retries fails.
ChannelDropped(c) ==
  /\ state[c] = "ACTIVE"
  /\ Begins(Reclaims(Manager, c))
  /\ UNCHANGED <<chanVars, flowVars, readers, held, pending, beside>>

\* delegation_tick: a request timed out, a drain complete.
ManagerResets(c) ==
  /\ \E low \in BOOLEAN : "reset" \in Fates(c, low, inFlight[c])
  /\ Begins(Resets(Manager, c))
  /\ UNCHANGED <<chanVars, flowVars, readers, held, pending, beside>>

\* delegation_handle_reply: DELEGATE_REJECT, or DELEGATE_ACCEPT and the connect fails.
ReplyFails(c) ==
  /\ state[c] = "REQUESTING"
  /\ \/ Begins(Resets(Mqtt, c)) /\ UNCHANGED state
     \/ Begins(Reclaims(Mqtt, c)) /\ state' = [state EXCEPT ![c] = "ACTIVE"]
  /\ UNCHANGED <<fd, dials, up, flowVars, readers, held, pending, beside>>

ReceiverEnds(r) ==
  /\ Idle(Receives(r)) /\ ~Holding(r)
  /\ readers' = readers \ {r}
  /\ \/ IsCurrent(r.ch, r.fd) /\ Begins(Reclaims(Receives(r), r.ch))
     \/ ~IsCurrent(r.ch, r.fd) /\ UNCHANGED busy
  /\ UNCHANGED <<chanVars, flowVars, held, pending, beside>>

SendBreaks(c) ==
  /\ SenderRuns
  /\ queue[c] # <<>>
  /\ IsCurrent(c, fd[c])
  /\ Begins(Reclaims(Sender(c), c))
  /\ UNCHANGED <<chanVars, flowVars, readers, held, pending, beside>>
-----------------------------------------------------------------------------
(***************************************************************************)
(* The accesses of a handler.                                              *)
(***************************************************************************)

\* if (in_flight_count > 0) in_flight_count--
CountTested(x) ==
  /\ x.at = "found"
  /\ Becomes(x, IF inFlight[x.ch] > 0
                THEN [x EXCEPT !.at = "count", !.loaded = inFlight[x.ch]]
                ELSE [x EXCEPT !.at = "counted"])
  /\ UNCHANGED <<pending, inFlight, total>>

CountStored(x) ==
  /\ x.at = "count"
  /\ Becomes(x, [x EXCEPT !.at = "counted"])
  /\ inFlight' = [inFlight EXCEPT ![x.ch] = x.loaded - 1]
  /\ UNCHANGED <<pending, total>>

\* The test of deleg_inflight_total, which is volatile: it is loaded again to be
\* lowered.  Only the reclaim sets it to 0 when it falls short.
TotalTested(x) ==
  /\ x.at = "counted"
  /\ Becomes(x, [x EXCEPT !.at = IF total >= x.amount THEN "enough"
                                 ELSE IF x.job = "reclaim" THEN "short" ELSE "taken"])
  /\ UNCHANGED <<pending, inFlight, total>>

TotalLoaded(x) ==
  /\ x.at = "enough"
  /\ Becomes(x, [x EXCEPT !.at = "total", !.loaded = total])
  /\ UNCHANGED <<pending, inFlight, total>>

TotalStored(x) ==
  /\ x.at \in {"total", "short"}
  /\ Becomes(x, [x EXCEPT !.at = "taken"])
  /\ total' = IF x.at = "total" THEN (x.loaded - x.amount) % Word ELSE 0
  /\ UNCHANGED <<pending, inFlight>>

\* One slot of the scan of channel_reclaim_pending.
Swept(x) ==
  /\ x.at = "sweep"
  /\ LET mine   == x.slot \in Owned(x.ch)
         amount == IF mine THEN x.amount + 1 ELSE x.amount
     IN  /\ pending' = IF mine THEN [pending EXCEPT ![x.slot] = Cleared] ELSE pending
         /\ Becomes(x, [x EXCEPT !.slot = @ + 1, !.amount = amount,
                          !.at = IF x.slot + 1 \in Slot THEN "sweep"
                                 ELSE IF amount > 0 THEN "counted" ELSE "taken"])
  /\ UNCHANGED <<inFlight, total>>

\* clear_pending_entry, and the counter of what was done.
SlotCleared(x) ==
  /\ x.at = "taken" /\ x.job # "reclaim"
  /\ busy' = busy \ {x}
  /\ pending' = [pending EXCEPT ![x.slot] = Cleared]
  /\ returned' = IF x.job = "result" THEN returned + 1 ELSE returned
  /\ timedOut' = IF x.job = "timeout" THEN timedOut + 1 ELSE timedOut
  /\ UNCHANGED <<inFlight, total, reclaimed>>

\* reset_channel up to the closing of the socket.
QueueDeleted(x) ==
  /\ x.at = "taken" /\ x.job = "reclaim"
  /\ busy' = (Survivors(x.ch) \ {x}) \cup {[x EXCEPT !.at = "closing"]}
  /\ queue' = [queue EXCEPT ![x.ch] = <<>>]
  /\ UNCHANGED <<chanVars, wire, mixed, tableVars, returned, timedOut, reclaimed>>

\* The rest of it.
ChannelReset(x) ==
  /\ x.at = "closing"
  /\ busy' = busy \ {x}
  /\ Rewire({x.ch}, {})
  /\ inFlight' = [inFlight EXCEPT ![x.ch] = 0]
  /\ reclaimed' = reclaimed + x.amount
  /\ UNCHANGED <<pending, total, returned, timedOut>>

HandlerStep ==
  /\ \E x \in busy :
       /\ x.by.who = "sender" => SenderRuns
       /\ \/ /\ \/ CountTested(x) \/ CountStored(x) \/ TotalTested(x) \/ TotalLoaded(x)
                \/ TotalStored(x) \/ Swept(x)
             /\ UNCHANGED <<chanVars, flowVars, returned, timedOut, reclaimed>>
          \/ SlotCleared(x) /\ UNCHANGED <<chanVars, flowVars>>
          \/ QueueDeleted(x) \/ ChannelReset(x)
  /\ UNCHANGED <<readers, held, loopVars, dispatched, pass, chosen>>
-----------------------------------------------------------------------------
(***************************************************************************)
(* What is one access, or none, to the table and its caches.               *)
(***************************************************************************)

\* delegation_tick connects a channel that has no socket.
ManagerDials(c) ==
  /\ Idle(Manager)
  /\ "dial" \in Fates(c, FALSE, inFlight[c])
  /\ dials[c] < MaxDials
  /\ Rewire({}, {c})
  /\ readers' = readers \cup {Receiver(c, fd'[c])}
  /\ UNCHANGED <<held, tableVars, loopVars, countVars, chosen, busy>>

ComputeElse == ComputeRuns /\ chosen = {} /\ (StartCycle \/ DispatchBusy \/ DispatchUnsent)

Elsewhere ==
  \/ Idle(Manager) /\ TryOffload
  \/ \E c \in Channel : Idle(Mqtt) /\ Accepted(c)
  \/ \E c \in Channel : HostGone(c)
  \/ \E c \in Channel : SenderRuns /\ Idle(Sender(c)) /\ Send(c)
  \/ \E r \in readers : Idle(Receives(r)) /\ (ReadResult(r) \/ SplitResult(r))

TasksNext ==
  \/ DispatchQueued \/ DispatchStep \/ HandlerStep
  \/ \E h \in held : ResultComes(h)
  \/ \E s \in Slot : TimeoutFound(s)
  \/ \E r \in readers : ReceiverEnds(r)
  \/ \E c \in Channel :
       ChannelDropped(c) \/ ManagerResets(c) \/ ReplyFails(c) \/ SendBreaks(c) \/ ManagerDials(c)
  \/ (ComputeElse \/ Elsewhere) /\ UNCHANGED <<chosen, busy>>

TasksSpec == TasksInit /\ [][TasksNext]_taskVars

\* docs/system-state-model.md: `deleg_inflight_total` is the "Total pending slots
\* currently in flight across all channels", here whenever no dispatch and no
\* handler is half done.
ExactAtRest == chosen = {} /\ busy = {} => total = Cardinality(Pending)
=============================================================================
