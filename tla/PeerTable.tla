------------------------------ MODULE PeerTable ------------------------------
(***************************************************************************)
(* The table of peers a node keeps from their telemetry.  Three tasks use  *)
(* it: the MQTT task refreshes entries (mqtt.c, update_peer_state, under   *)
(* peers_mutex), the manager evicts the silent ones (manager_task.c, with  *)
(* no lock and with a clock reading taken earlier in its pass), and        *)
(* whichever task loses a TCP channel marks its peer stale (delegation.c). *)
(* The clock is the 32-bit millisecond tick, modulo Wrap.                  *)
(***************************************************************************)
EXTENDS Integers

CONSTANTS
  Node,         \* the node ids that publish telemetry
  NoId,         \* an empty string: no node id, no address
  NumPeers,     \* MAX_PEERS
  PeerTimeout,  \* PEER_TIMEOUT_MS
  Wrap          \* 2^32

ASSUME PeerTableConstants ==
  /\ NoId \notin Node
  /\ NumPeers \in Nat \ {0}
  /\ PeerTimeout \in Nat
  /\ Wrap \in Nat
  /\ PeerTimeout < Wrap - 1

Index == 0 .. NumPeers - 1
Time  == 0 .. Wrap - 1

VARIABLES
  now,      \* the tick, in milliseconds
  peers,    \* peers[]
  at,       \* the manager's loop over peers[]: its index, NumPeers when idle
  tPub,     \* t_pub_ms, read by the manager at the start of its pass
  doomed,   \* it has found entry at timed out and not yet written valid = 0
  shunned   \* nodes marked stale since their last telemetry (history)

vars == <<now, peers, at, tPub, doomed, shunned>>

\* An address is named by the node it leads to.
Peer == [id : Node \cup {NoId}, ip : Node \cup {NoId}, seen : Time, valid : BOOLEAN]

Age(t, s) == (t - peers[s].seen) % Wrap

Init ==
  /\ now \in Time
  /\ peers = [s \in Index |-> [id |-> NoId, ip |-> NoId, seen |-> 0, valid |-> FALSE]]
  /\ at = NumPeers
  /\ tPub = 0
  /\ doomed = FALSE
  /\ shunned = {}

\* Mutant: a clock wider than the field it is stored in.
NextMsWide == now + 1

NextMs == (now + 1) % Wrap

Elapse ==
  /\ now' = NextMs
  /\ UNCHANGED <<peers, at, tPub, doomed, shunned>>
-----------------------------------------------------------------------------
(***************************************************************************)
(* update_peer_state, in the MQTT task (priority 5).                       *)
(***************************************************************************)

Live(n) == {s \in Index : peers[s].valid /\ peers[s].id = n}
Free    == {s \in Index : ~peers[s].valid}

First(s, S) == s \in S /\ \A u \in S : s <= u

\* Mutant: the scan keeps the last free entry.
LastFree(s) == s \in Free /\ \A u \in Free : u <= s

FirstFree(s) == First(s, Free)

\* replace_idx: the first entry with the least last_seen_ms, as numbers.
Oldest(s) ==
  First(s, {u \in Index : peers[u].seen < Wrap - 1
                          /\ \A v \in Index : peers[u].seen <= peers[v].seen})

\* The entry that takes the telemetry of n.
Place(n, s) ==
  \/ First(s, Live(n))
  \/ Live(n) = {} /\ FirstFree(s)
  \/ Live(n) = {} /\ Free = {} /\ Oldest(s)

\* Telemetry of n; ip is empty when its payload has none, and the entry then
\* keeps the address it has.
Telemetry(n) ==
  /\ \E s \in Index, ip \in {n, NoId} :
       /\ Place(n, s)
       /\ peers' = [peers EXCEPT ![s] =
            [id |-> n, ip |-> IF ip = NoId THEN @.ip ELSE ip, seen |-> now, valid |-> TRUE]]
  /\ shunned' = shunned \ {n}
  /\ UNCHANGED <<now, at, tPub, doomed>>
-----------------------------------------------------------------------------
\* Mutant: the search for the lost peer does not stop at its first entry.
LastNamed(s, n) ==
  LET S == {u \in Index : peers[u].id = n} IN s \in S /\ \A u \in S : u <= s

\* The first entry named n, valid or not.
FirstNamed(s, n) == First(s, {u \in Index : peers[u].id = n})

\* delegation_handle_tcp_channel_lost: the peer of the channel goes stale by
\* last_seen_ms = 0.  A channel may outlive its peer's entry.
ForceStale(n) ==
  /\ peers' = [s \in Index |-> IF FirstNamed(s, n) THEN [peers[s] EXCEPT !.seen = 0]
                               ELSE peers[s]]
  /\ shunned' = shunned \cup {n}
  /\ UNCHANGED <<now, at, tPub, doomed>>
-----------------------------------------------------------------------------
(***************************************************************************)
(* The manager's eviction loop.  Its reading of the clock is as old as     *)
(* delegation_tick and delegation_try_offload, which run in between and    *)
(* may wait for a TCP connect, took; and it has no lock.                   *)
(***************************************************************************)
PassBegins ==
  /\ at = NumPeers
  /\ at' = 0
  /\ tPub' = now
  /\ UNCHANGED <<now, peers, doomed, shunned>>

\* Entry at is skipped, found in time, or found timed out.
Inspect ==
  /\ at < NumPeers
  /\ ~doomed
  /\ IF peers[at].valid /\ Age(tPub, at) > PeerTimeout
     THEN doomed' = TRUE /\ UNCHANGED at
     ELSE at' = at + 1 /\ UNCHANGED doomed
  /\ UNCHANGED <<now, peers, tPub, shunned>>

Evict ==
  /\ doomed
  /\ peers' = [peers EXCEPT ![at].valid = FALSE]
  /\ at' = at + 1
  /\ doomed' = FALSE
  /\ UNCHANGED <<now, tPub, shunned>>
-----------------------------------------------------------------------------
Next ==
  \/ Elapse
  \/ \E n \in Node : Telemetry(n) \/ ForceStale(n)
  \/ PassBegins \/ Inspect \/ Evict

Spec == Init /\ [][Next]_vars
-----------------------------------------------------------------------------
(***************************************************************************)
(* Properties.                                                             *)
(***************************************************************************)

\* Every variable keeps its type; a doomed entry is one of the table.
TypeOK ==
  /\ now \in Time
  /\ peers \in [Index -> Peer]
  /\ at \in 0 .. NumPeers
  /\ tPub \in Time
  /\ doomed \in BOOLEAN
  /\ doomed => at \in Index
  /\ shunned \subseteq Node

\* The searches by node id that look at valid entries only and those that look
\* at all of them find the same one: no entry before a valid one, not even an
\* evicted one, has its id.  So a node has one valid entry at most.
FirstMatchIsLive ==
  \A s, u \in Index : peers[s].valid /\ u < s => peers[u].id # peers[s].id

\* The test delegation_try_offload makes of a peer.
Fresh(s) == peers[s].valid /\ Age(now, s) <= PeerTimeout

\* A peer whose channel was lost is no candidate for another before it is heard
\* again, except while the tick is within PeerTimeout of zero, where the mark
\* last_seen_ms = 0 does not read as stale.
ShunnedUntilHeard ==
  \A s \in Index : peers[s].id \in shunned /\ Fresh(s) => now <= PeerTimeout

\* Only a peer that was silent for longer than PEER_TIMEOUT_MS is evicted.
EvictedWasSilent ==
  [][\A s \in Index : peers[s].valid /\ ~peers'[s].valid => Age(now, s) > PeerTimeout]_vars
=============================================================================
