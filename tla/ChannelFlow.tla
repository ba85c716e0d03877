---------------------------- MODULE ChannelFlow ----------------------------
(***************************************************************************)
(* What the delegator's pending table promises, without its slots, queues, *)
(* sockets and counters: per channel, its state and the set of blocks out  *)
(* on it.  WorkPipeline implements it.                                     *)
(***************************************************************************)
EXTENDS Integers, FiniteSets

CONSTANTS
  Channel,     \* the channel slots of the node
  Key,         \* (cycle_id, block_id) pairs
  MaxInflight  \* DELEGATION_MAX_INFLIGHT_PER_CHANNEL

VARIABLES
  state,  \* channels[c].state, the delegator's three
  out     \* the blocks in flight on each channel

flowVars == <<state, out>>

FlowInit ==
  /\ state = [c \in Channel |-> "IDLE"]
  /\ out = [c \in Channel |-> {}]

\* Results come, or time out.
Give(c) == state'[c] = state[c] /\ out'[c] \subseteq out[c]

\* delegation_try_offload, and the answer that opens the channel.
Open(c) ==
  /\ <<state[c], state'[c]>> \in {<<"IDLE", "REQUESTING">>, <<"REQUESTING", "ACTIVE">>}
  /\ out'[c] = out[c]

\* delegation_dispatch_work_item, under the cap.
Dispatch(c) ==
  /\ state[c] = "ACTIVE" /\ state'[c] = "ACTIVE"
  /\ Cardinality(out[c]) < MaxInflight
  /\ out[c] \subseteq out'[c] /\ Cardinality(out'[c] \ out[c]) = 1

\* A channel that closes, for whatever reason, leaves nothing out.
Close(c) == state[c] # "IDLE" /\ state'[c] = "IDLE" /\ out'[c] = {}

\* A handler may serve several channels; no block is out on two of them.
FlowNext ==
  /\ state' \in [Channel -> {"IDLE", "REQUESTING", "ACTIVE"}]
  /\ out' \in [Channel -> SUBSET Key]
  /\ \A c \in Channel : Give(c) \/ Open(c) \/ Dispatch(c) \/ Close(c)
  /\ \A c, d \in Channel : c # d => out'[c] \cap out'[d] = {}

FlowSpec == FlowInit /\ [][FlowNext]_flowVars
=============================================================================
