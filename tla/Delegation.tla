----------------------------- MODULE Delegation -----------------------------
(***************************************************************************)
(* The delegation handshake across a cluster (firmware-esp32/main/network/ *)
(* delegation.c): a stressed node asks its LOW peers to host blocks, over  *)
(* MQTT at QoS 0, and keeps one channel per peer that agreed.  A channel   *)
(* slot is also what a host spends on a delegator.                         *)
(*                                                                         *)
(* Each action is one run of a handler, or a step of the manager's pass:   *)
(* the tick with the choice of the peers to ask, then for each of them the *)
(* search for a slot and its claim, between which MQTT may take the slot.  *)
(* What flows over a channel is the matter of WorkPipeline: here a drained *)
(* channel and a lost connection are things that may happen.               *)
(***************************************************************************)
EXTENDS Integers, FiniteSets

CONSTANTS
  Node,         \* node ids
  NoNode,       \* the empty peer_id
  Stressed,     \* the nodes whose load ever takes them to STRESS_MEDIUM
  Heard,        \* the pairs <<n, m>> such that telemetry of m may reach n
  Laden,        \* those in which it may tell MEDIUM or HIGH
  NumChannels,  \* MAX_DELEGATION_CHANNELS
  Blocks,       \* PROCESSING_BLOCKS, also ACTIVE_BLOCKS
  ReqLimit,     \* manager passes after which a request is surely older than
                \* DELEGATION_TIMEOUT_MS
  Settings,     \* bound: the pairs <<n, k>> such that n may be sent SET_BLOCKS k
  MaxMsgs,      \* bound: messages on their way; what is published beyond is lost
  Fragile,      \* bound: the nodes that may reboot or lose power
  MaxCrashes    \* bound: how often

ASSUME DelegationConstants ==
  /\ IsFiniteSet(Node) /\ NoNode \notin Node
  /\ Stressed \subseteq Node
  /\ Heard \subseteq Node \X Node /\ Laden \subseteq Heard
  /\ NumChannels \in Nat \ {0}
  /\ Blocks \in Nat \ {0}
  /\ ReqLimit \in Nat
  /\ Settings \subseteq Node \X (0 .. Blocks)
  /\ MaxMsgs \in Nat
  /\ Fragile \subseteq Node
  /\ MaxCrashes \in Nat

Channel == 0 .. NumChannels - 1

VARIABLES
  channels,  \* channels[n][c]: channel c of node n; fd tells tcp_fd >= 0
  active,    \* active_blocks of each node
  view,      \* view[n][m]: m in the peer table of n: "dead" (absent or older
             \* than PEER_TIMEOUT_MS), "low", or "busy" (MEDIUM, HIGH)
  asking,    \* asking[n]: the rest of delegation_try_offload of n
  up,        \* the nodes that run
  msgs,      \* MQTT messages not yet delivered; any of them may be lost
  wanted,    \* the last SET_BLOCKS, at first the whole load (history)
  forgot,    \* forgot[m]: nodes m dropped, by a crash, as silent or by writing over
             \* their slot, and did not accept since (history)
  crashes

vars == <<channels, active, wanted, view, asking, up, msgs, forgot, crashes>>

Chan == [state  : {"IDLE", "REQUESTING", "ACTIVE", "HOSTING"},
         peer   : Node \cup {NoNode},
         blocks : 0 .. Blocks,
         fd     : BOOLEAN,
         age    : 0 .. ReqLimit]

\* A channel as a handler leaves it.
As(s, p, b, fd) == [state |-> s, peer |-> p, blocks |-> b, fd |-> fd, age |-> 0]

\* reset_channel
Idle == As("IDLE", NoNode, 0, FALSE)

\* What delegation_try_offload has in its locals: the candidates to come, the
\* blocks for each, and the slot found for the next, NumChannels for none.
Asking == [who : SUBSET Node, share : 0 .. Blocks, slot : 0 .. NumChannels]

Done == [who |-> {}, share |-> 0, slot |-> NumChannels]

Request == [type : {"request"}, from : Node, to : Node, blocks : 1 .. Blocks]
Reply   == [type : {"accept", "reject"}, from : Node, to : Node]

Init ==
  /\ channels = [n \in Node |-> [c \in Channel |-> Idle]]
  /\ active = [n \in Node |-> Blocks]
  /\ wanted = [n \in Node |-> Blocks]
  /\ view = [n \in Node |-> [m \in Node |-> "dead"]]
  /\ asking = [n \in Node |-> Done]
  /\ up = Node
  /\ msgs = {}
  /\ forgot = [n \in Node |-> {}]
  /\ crashes = 0

Sent(old, new) == IF Cardinality(old \cup new) <= MaxMsgs THEN old \cup new ELSE old

Is(ch, s)    == {c \in Channel : ch[c].state = s}
First(c, S)  == c \in S /\ \A d \in S : c <= d
Lesser(a, b) == IF a <= b THEN a ELSE b
Greater(a, b) == IF a >= b THEN a ELSE b

\* The blocks of the channels in C, one by one.
Lent(ch, C) == {p \in C \X (1 .. Blocks) : p[2] <= ch[p[1]].blocks}

\* Mutant: the channels are reset before their blocks are read.
RestoredAfterReset(have, ch, C) ==
  Lesser(Blocks, have + Cardinality(Lent([c \in Channel |-> Idle], C)))

\* active_blocks after the blocks of the channels in C came back, each addition
\* capped at PROCESSING_BLOCKS.
Restored(have, ch, C) == Lesser(Blocks, have + Cardinality(Lent(ch, C)))
-----------------------------------------------------------------------------
(***************************************************************************)
(* The environment: telemetry, silence, losses, crashes.                   *)
(***************************************************************************)

\* update_peer_state at n for the telemetry of m.
Telemetry(n, m) ==
  /\ <<n, m>> \in Heard /\ n # m
  /\ {n, m} \subseteq up
  /\ \E s \in {"low"} \cup IF <<n, m>> \in Laden THEN {"busy"} ELSE {} :
       view' = [view EXCEPT ![n][m] = s]
  /\ UNCHANGED <<channels, active, wanted, asking, up, msgs, forgot, crashes>>

\* The entry of m at n grows older than PEER_TIMEOUT_MS.
PeerSilent(n, m) ==
  /\ n \in up
  /\ view[n][m] # "dead"
  /\ view' = [view EXCEPT ![n][m] = "dead"]
  /\ UNCHANGED <<channels, active, wanted, asking, up, msgs, forgot, crashes>>

Lose(x) ==
  /\ msgs' = msgs \ {x}
  /\ UNCHANGED <<channels, active, wanted, view, asking, up, forgot, crashes>>

\* Nothing survives a reboot, and what is published meanwhile is not kept.
Crash(n) ==
  /\ n \in up \cap Fragile
  /\ crashes < MaxCrashes
  /\ crashes' = crashes + 1
  /\ up' = up \ {n}
  /\ channels' = [channels EXCEPT ![n] = [c \in Channel |-> Idle]]
  /\ active' = [active EXCEPT ![n] = Blocks]
  /\ wanted' = [wanted EXCEPT ![n] = Blocks]
  /\ view' = [view EXCEPT ![n] = [m \in Node |-> "dead"]]
  /\ asking' = [asking EXCEPT ![n] = Done]
  /\ msgs' = {x \in msgs : x.to # n}
  /\ forgot' = [forgot EXCEPT ![n] = Node]

Restart(n) ==
  /\ n \notin up
  /\ up' = up \cup {n}
  /\ UNCHANGED <<channels, active, wanted, view, asking, msgs, forgot, crashes>>

\* mqtt_event_handler, SET_BLOCKS: whatever is delegated at the time.
SetBlocks(n, k) ==
  /\ n \in up /\ <<n, k>> \in Settings
  /\ active' = [active EXCEPT ![n] = k]
  /\ wanted' = [wanted EXCEPT ![n] = k]
  /\ UNCHANGED <<channels, view, asking, up, msgs, forgot, crashes>>
-----------------------------------------------------------------------------
(***************************************************************************)
(* manager_task: delegation_tick, then delegation_try_offload.             *)
(***************************************************************************)

\* Mutant: only a failed connect tells that a peer is dead.
AliveUnlessFailed(n, c, fate) ==
  \A d \in Channel : d < c /\ fate[d] = "fail" => channels[n][d].peer # channels[n][c].peer

\* peer_is_alive for channel c: a connect that failed for an earlier channel of
\* this pass has marked its peer stale.
Alive(n, c, fate) ==
  LET p == channels[n][c].peer
  IN  /\ view[n][p] # "dead"
      /\ \A d \in Channel : d < c /\ fate[d] = "fail" => channels[n][d].peer # p

\* What delegation_tick may do to channel c, low telling STRESS_LOW: "back"
\* closes it and restores its blocks, "fail" also marks its peer stale.
Fates(n, c, low, fate) ==
  LET ch == channels[n][c]
  IN  CASE ch.state = "IDLE"       -> {"keep"}
        [] ch.state = "REQUESTING" -> {"reset"} \cup IF ch.age < ReqLimit THEN {"keep"} ELSE {}
        [] ch.state = "ACTIVE"     ->
             IF ~Alive(n, c, fate) THEN {"back"}
             ELSE IF ~ch.fd THEN {"keep", "dial", "fail"}
             ELSE {"keep"} \cup IF low THEN {"back"} ELSE {}
        [] ch.state = "HOSTING"    -> IF Alive(n, c, fate) THEN {"keep"} ELSE {"reset"}

Ticked(n, fate) ==
  [c \in Channel |->
     LET ch == channels[n][c]
     IN  CASE fate[c] \in {"reset", "back", "fail"} -> Idle
           [] fate[c] = "dial"                      -> [ch EXCEPT !.fd = TRUE]
           [] fate[c] = "keep" /\ ch.state = "REQUESTING" -> [ch EXCEPT !.age = @ + 1]
           [] OTHER -> ch]

\* Mutant: only a request on its way counts as an open channel.
CandidatesNotAsked(ch, seen) ==
  {m \in Node : seen[m] = "low"
                /\ \A c \in Channel : ch[c].state = "REQUESTING" => ch[c].peer # m}

\* LOW peers with no channel open to or from them.
Candidates(ch, seen) == {m \in Node : seen[m] = "low" /\ \A c \in Channel : ch[c].peer # m}

\* Mutant: no minimum, so that a peer may be asked to host nothing.
PerPeerUnbounded(have, n) == (have \div 2) \div n

\* The split of delegation_try_offload, minimum 1.
PerPeer(have, n) == Greater(1, Greater(1, have \div 2) \div n)

\* The offload asks no one while hosting, without candidates, or when it does not
\* get the mutex of the peer table in 10 ms.
Offload(n, ch, seen, have) ==
  LET cands == Candidates(ch, seen)
  IN  /\ Is(ch, "HOSTING") = {}
      /\ cands # {}
      /\ asking' = [asking EXCEPT ![n] =
           [who |-> cands, share |-> PerPeer(have, Cardinality(cands)), slot |-> NumChannels]]

ManagerPass(n) ==
  /\ n \in up
  /\ asking[n] = Done
  /\ UNCHANGED <<wanted, up, msgs, crashes>>
  /\ \E fate \in [Channel -> {"keep", "reset", "back", "dial", "fail"}], low \in BOOLEAN :
       /\ ~low => n \in Stressed
       /\ \A c \in Channel : fate[c] \in Fates(n, c, low, fate)
       /\ LET ch   == Ticked(n, fate)
              seen == [m \in Node |->
                         IF \E c \in Channel : fate[c] = "fail" /\ channels[n][c].peer = m
                         THEN "dead" ELSE view[n][m]]
              have == Restored(active[n], channels[n],
                               {c \in Channel : fate[c] \in {"back", "fail"}})
          IN  /\ channels' = [channels EXCEPT ![n] = ch]
              /\ active' = [active EXCEPT ![n] = have]
              /\ view' = [view EXCEPT ![n] = seen]
              /\ forgot' = [forgot EXCEPT ![n] = @ \cup
                   {channels[n][c].peer : c \in {d \in Is(channels[n], "HOSTING") : fate[d] = "reset"}}]
              /\ UNCHANGED asking \/ (~low /\ Offload(n, ch, seen, have))

\* The search for an idle slot for the next candidate; without one, no more are
\* asked.
Search(n) ==
  /\ n \in up
  /\ asking[n].who # {} /\ asking[n].slot = NumChannels
  /\ \/ \E c \in Channel :
          /\ First(c, Is(channels[n], "IDLE"))
          /\ asking' = [asking EXCEPT ![n].slot = c]
     \/ /\ Is(channels[n], "IDLE") = {}
        /\ asking' = [asking EXCEPT ![n] = Done]
  /\ UNCHANGED <<channels, active, wanted, view, up, msgs, forgot, crashes>>

\* The delegator that delegation_handle_request put in the slot since.
Overwritten(x) == IF x.state = "HOSTING" THEN {x.peer} ELSE {}

\* The slot is written, whatever is in it by now, and the request is published.
Claim(n) ==
  LET a == asking[n]
      x == channels[n][a.slot]
  IN  /\ n \in up
      /\ a.slot \in Channel
      /\ \E m \in a.who :
           /\ channels' = [channels EXCEPT ![n][a.slot] = As("REQUESTING", m, a.share, FALSE)]
           /\ msgs' = Sent(msgs, {[type |-> "request", from |-> n, to |-> m, blocks |-> a.share]})
           /\ asking' = [asking EXCEPT ![n] =
                IF a.who = {m} THEN Done ELSE [a EXCEPT !.who = @ \ {m}, !.slot = NumChannels]]
      /\ forgot' = [forgot EXCEPT ![n] = @ \cup Overwritten(x)]
      /\ UNCHANGED <<active, wanted, view, up, crashes>>

Manages(n) == ManagerPass(n) \/ Search(n) \/ Claim(n)
-----------------------------------------------------------------------------
(***************************************************************************)
(* The MQTT handlers.                                                      *)
(***************************************************************************)

\* Mutant: the request is accepted whether or not a slot is idle.
HandleRequestNoSlot(x) ==
  /\ x.type = "request"
  /\ x.to \in up
  /\ msgs' = Sent(msgs \ {x}, {[type |-> "accept", from |-> x.to, to |-> x.from]})
  /\ UNCHANGED <<channels, forgot, active, wanted, view, asking, up, crashes>>

\* delegation_handle_request: the first idle slot is spent on the delegator,
\* unless the CPU has no headroom or no slot is idle.
HandleRequest(x) ==
  LET n == x.to
      answer(a) == msgs' = Sent(msgs \ {x}, {[type |-> a, from |-> n, to |-> x.from]})
  IN  /\ x.type = "request"
      /\ n \in up
      /\ \/ answer("reject") /\ UNCHANGED <<channels, forgot>>
         \/ \E c \in Channel :
              /\ First(c, Is(channels[n], "IDLE"))
              /\ channels' = [channels EXCEPT ![n][c] = As("HOSTING", x.from, x.blocks, FALSE)]
              /\ forgot' = [forgot EXCEPT ![n] = @ \ {x.from}]
              /\ answer("accept")
      /\ UNCHANGED <<active, wanted, view, asking, up, crashes>>

\* Mutant: an answer is for the first request, whoever sends it.
AskedAnyone(n, m) == {c \in Channel : First(c, Is(channels[n], "REQUESTING"))}

\* The channels an answer of m is for: the first that is requesting from m.
Asked(n, m) == {c \in Channel :
  First(c, {d \in Is(channels[n], "REQUESTING") : channels[n][d].peer = m})}

\* delegation_handle_reply, DELEGATE_ACCEPT: the socket is open, or there is no
\* usable address; or the connect fails, and the channel is lost before the
\* handler returns.
HandleAccept(x) ==
  LET n == x.to
  IN  /\ x.type = "accept"
      /\ n \in up
      /\ msgs' = msgs \ {x}
      /\ \/ Asked(n, x.from) = {} /\ UNCHANGED <<channels, active, view>>
         \/ \E c \in Asked(n, x.from) :
              LET ch   == channels[n][c]
                  left == Greater(0, active[n] - ch.blocks)
              IN  \/ /\ \E fd \in BOOLEAN :
                          channels' = [channels EXCEPT ![n][c] = As("ACTIVE", ch.peer, ch.blocks, fd)]
                     /\ active' = [active EXCEPT ![n] = left]
                     /\ UNCHANGED view
                  \/ /\ channels' = [channels EXCEPT ![n][c] = Idle]
                     /\ active' = [active EXCEPT ![n] = Restored(left, channels[n], {c})]
                     /\ view' = [view EXCEPT ![n][x.from] = "dead"]
      /\ UNCHANGED <<wanted, asking, up, forgot, crashes>>

HandleReject(x) ==
  /\ x.type = "reject"
  /\ x.to \in up
  /\ msgs' = msgs \ {x}
  /\ channels' = [channels EXCEPT ![x.to] =
       [c \in Channel |-> IF c \in Asked(x.to, x.from) THEN Idle ELSE @[c]]]
  /\ UNCHANGED <<active, wanted, view, asking, up, forgot, crashes>>

\* delegation_handle_tcp_channel_lost for the socket the channel has.
ChannelLost(n, c) ==
  LET ch == channels[n][c]
  IN  /\ n \in up
      /\ ch.state = "ACTIVE" /\ ch.fd
      /\ channels' = [channels EXCEPT ![n][c] = Idle]
      /\ active' = [active EXCEPT ![n] = Restored(@, channels[n], {c})]
      /\ view' = [view EXCEPT ![n][ch.peer] = "dead"]
      /\ UNCHANGED <<wanted, asking, up, msgs, forgot, crashes>>
-----------------------------------------------------------------------------
(***************************************************************************)
(* compute_task, at the largest load_factor: what a cycle runs.            *)
(***************************************************************************)

\* delegation_total_delegated_blocks, which a cycle dispatches.
Delegated(n) == Cardinality(Lent(channels[n], Is(channels[n], "ACTIVE")))

\* local_blocks: active_blocks less the delegated ones.
LocalBlocks(n) == Greater(0, Lesser(Blocks, active[n]) - Delegated(n))
-----------------------------------------------------------------------------
Next ==
  \/ \E n, m \in Node : Telemetry(n, m) \/ PeerSilent(n, m)
  \/ \E n \in Node : Crash(n) \/ Restart(n) \/ Manages(n)
  \/ \E n \in Node, k \in 0 .. Blocks : SetBlocks(n, k)
  \/ \E x \in msgs : Lose(x) \/ HandleRequest(x) \/ HandleAccept(x) \/ HandleReject(x)
  \/ \E n \in Node, c \in Channel : ChannelLost(n, c)

Spec == Init /\ [][Next]_vars

\* The manager of a node that runs is scheduled for ever, and the entry of a
\* peer that publishes nothing grows old.
FairSpec ==
  /\ Spec
  /\ \A n \in Node : WF_vars(Manages(n))
  /\ \A n \in Node : \A m \in Node \ {n} : WF_vars(m \notin up /\ PeerSilent(n, m))
-----------------------------------------------------------------------------
(***************************************************************************)
(* Properties.                                                             *)
(***************************************************************************)

\* Every variable keeps its type; an idle channel is wholly reset.
TypeOK ==
  /\ channels \in [Node -> [Channel -> Chan]]
  /\ \A n \in Node, c \in Channel :
       channels[n][c].state = "IDLE" <=> channels[n][c].peer = NoNode
  /\ {active, wanted} \subseteq [Node -> 0 .. Blocks]
  /\ view \in [Node -> [Node -> {"dead", "low", "busy"}]]
  /\ up \subseteq Node
  /\ asking \in [Node -> Asking]
  /\ \A n \in Node : asking[n].who # {} => asking[n].share # 0
  /\ msgs \subseteq Request \cup Reply
  /\ forgot \in [Node -> SUBSET Node]
  /\ crashes \in 0 .. MaxCrashes

\* No block is ever forgotten: what a node keeps and what its ACTIVE channels
\* carry is never less than the load it was last told to carry, although the
\* subtraction floors at zero, the additions are capped, and SET_BLOCKS overwrites
\* active_blocks while blocks are out.  So with no channel it has all of it back.
BlocksCovered == \A n \in Node : active[n] + Delegated(n) >= wanted[n]

Serving(n) == Is(channels[n], "REQUESTING") \cup Is(channels[n], "ACTIVE")

\* A node never asks, nor delegates to, the same peer twice at a time: neither
\* late answers nor timeouts leave two channels to one peer.
OneChannelPerPeer ==
  \A n \in Node : \A c, d \in Serving(n) :
    channels[n][c].peer = channels[n][d].peer => c = d

Hosts(m, n) == \E c \in Is(channels[m], "HOSTING") : channels[m][c].peer = n

\* A channel is ACTIVE only towards a node that spends a slot on it, unless that
\* node crashed, found the delegator silent or claimed the slot for a request of
\* its own since it agreed: lost, late and crossing messages do not break the
\* agreement.
ActiveIsHosted ==
  \A n \in Node : \A c \in Is(channels[n], "ACTIVE") :
    LET m == channels[n][c].peer IN Hosts(m, n) \/ n \in forgot[m]

Bound(n, m) == \E c \in Channel : channels[n][c].peer = m

\* delegation.h: a node that stays down is dropped from every channel, delegated
\* or hosted, of every node that runs; BlocksCovered gives the blocks back.
FailoverCompletes ==
  \A m \in Node : <>[](m \notin up) => <>[](\A n \in up : ~Bound(n, m))

\* docs/decisions.md DEC-011: local compute drops by the delegated fraction; so
\* the blocks a node runs and those it dispatches are together its whole load.
LoadShared == \A n \in Node : LocalBlocks(n) + Delegated(n) >= Blocks
=============================================================================
