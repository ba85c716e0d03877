--------------------------- MODULE PeerTableProofs ---------------------------
(***************************************************************************)
(* Proofs about PeerTable, for any number of nodes and entries, any        *)
(* timeout and any clock width.                                            *)
(***************************************************************************)
EXTENDS PeerTable, TLAPS

\* What arithmetic needs of the constants: the clock reads something, zero.
LEMMA TimeFacts ==
  /\ NumPeers \in Nat \ {0} /\ Wrap \in Nat \ {0}
  /\ 0 \in Time
  /\ \A t \in Time : (t + 1) % Wrap \in Time
BY PeerTableConstants, SMT DEF Time

\* Every variable keeps its type.
THEOREM TypeCorrect == Spec => []TypeOK
<1>1. Init => TypeOK
  <2> SUFFICES ASSUME Init PROVE TypeOK
    OBVIOUS
  <2>1. [id |-> NoId, ip |-> NoId, seen |-> 0, valid |-> FALSE] \in Peer
    BY TimeFacts DEF Peer
  <2>2. peers \in [Index -> Peer]
    BY <2>1 DEF Init
  <2>3. at \in 0 .. NumPeers
    BY TimeFacts DEF Init
  <2> QED
    BY <2>2, <2>3, TimeFacts DEF Init, TypeOK
<1>2. TypeOK /\ [Next]_vars => TypeOK'
  <2> SUFFICES ASSUME TypeOK, [Next]_vars PROVE TypeOK'
    OBVIOUS
  <2> USE TimeFacts DEF TypeOK
  <2>1. CASE Elapse
    BY <2>1 DEF Elapse, NextMs
  <2>2. ASSUME NEW n \in Node, Telemetry(n) PROVE TypeOK'
    <3>1. PICK s \in Index, ip \in {n, NoId} :
            peers' = [peers EXCEPT ![s] =
              [id |-> n, ip |-> IF ip = NoId THEN @.ip ELSE ip, seen |-> now, valid |-> TRUE]]
      BY <2>2 DEF Telemetry
    <3>2. peers[s] \in Peer
      OBVIOUS
    <3>3. [id |-> n, ip |-> IF ip = NoId THEN peers[s].ip ELSE ip,
           seen |-> now, valid |-> TRUE] \in Peer
      BY <3>2 DEF Peer
    <3>4. peers' \in [Index -> Peer]
      BY <3>1, <3>3
    <3> QED
      BY <2>2, <3>4 DEF Telemetry
  <2>3. ASSUME NEW n \in Node, ForceStale(n) PROVE TypeOK'
    <3>1. \A s \in Index : [peers[s] EXCEPT !.seen = 0] \in Peer
      BY DEF Peer
    <3> QED
      BY <2>3, <3>1 DEF ForceStale
  <2>4. CASE PassBegins
    <3>1. 0 \in 0 .. NumPeers /\ 0 \in Index
      BY DEF Index
    <3> QED
      BY <2>4, <3>1 DEF PassBegins
  <2>5. CASE Inspect
    <3>1. at \in Index /\ at + 1 \in 0 .. NumPeers
      BY <2>5 DEF Inspect, Index
    <3>2. CASE doomed'
      BY <2>5, <3>1, <3>2 DEF Inspect
    <3>3. CASE ~doomed'
      BY <2>5, <3>1, <3>3 DEF Inspect
    <3> QED
      BY <3>2, <3>3
  <2>6. CASE Evict
    <3>1. [peers[at] EXCEPT !.valid = FALSE] \in Peer
      BY <2>6 DEF Evict, Peer
    <3>2. at \in Index
      BY <2>6 DEF Evict
    <3>3. at + 1 \in 0 .. NumPeers
      BY <3>2 DEF Index
    <3> QED
      BY <2>6, <3>1, <3>3 DEF Evict
  <2>7. CASE UNCHANGED vars
    BY <2>7 DEF vars
  <2> QED
    BY <2>1, <2>2, <2>3, <2>4, <2>5, <2>6, <2>7 DEF Next
<1> QED
  BY <1>1, <1>2, PTL DEF Spec
-----------------------------------------------------------------------------
\* What a telemetry message does to the table: one entry is now live for its
\* sender, and it was live for it already or no entry was.
LEMMA TelemetryPlaces ==
  ASSUME TypeOK, NEW n \in Node, Telemetry(n)
  PROVE  \E s \in Index :
           /\ peers'[s].id = n /\ peers'[s].seen = now /\ peers'[s].valid = TRUE
           /\ \A u \in Index : u # s => peers'[u] = peers[u]
           /\ \/ peers[s].id = n /\ peers[s].valid
              \/ /\ \A u \in Index : peers[u].valid => peers[u].id # n
                 /\ \A u \in Index : u < s => peers[u].valid
              \/ \A u \in Index : peers[u].valid /\ peers[u].id # n
<1>1. PICK s \in Index, ip \in {n, NoId} :
        /\ Place(n, s)
        /\ peers' = [peers EXCEPT ![s] =
             [id |-> n, ip |-> IF ip = NoId THEN @.ip ELSE ip, seen |-> now, valid |-> TRUE]]
  BY DEF Telemetry
<1>2. peers'[s].id = n /\ peers'[s].seen = now /\ peers'[s].valid = TRUE
  BY <1>1 DEF TypeOK
<1>3. \A u \in Index : u # s => peers'[u] = peers[u]
  BY <1>1 DEF TypeOK
<1>4. \A u \in Index : peers[u].valid \in BOOLEAN
  BY DEF TypeOK, Peer
<1>5. CASE First(s, Live(n))
  BY <1>2, <1>3, <1>5 DEF First, Live
<1>6. CASE Live(n) = {} /\ FirstFree(s)
  <2>1. \A u \in Index : peers[u].valid => peers[u].id # n
    BY <1>6 DEF Live
  <2>2. \A u \in Index : ~peers[u].valid => s <= u
    BY <1>6 DEF FirstFree, First, Free
  <2>3. \A u \in Index : u < s => peers[u].valid
    BY <2>2 DEF Index
  <2> QED
    BY <1>2, <1>3, <2>1, <2>3
<1>7. CASE Live(n) = {} /\ Free = {}
  <2>1. \A u \in Index : peers[u].valid /\ peers[u].id # n
    BY <1>7 DEF Live, Free
  <2> QED
    BY <1>2, <1>3, <2>1
<1> QED
  BY <1>1, <1>5, <1>6, <1>7 DEF Place

\* Every step but the arrival of telemetry.
Quiet ==
  \/ \E n \in Node : ForceStale(n)
  \/ Elapse \/ PassBegins \/ Inspect \/ Evict \/ UNCHANGED vars

\* Telling a peer stale and evicting it change no id, and make no entry valid.
LEMMA OthersKeepIds ==
  ASSUME TypeOK, Quiet
  PROVE  \A s \in Index :
           /\ peers'[s].id = peers[s].id
           /\ peers'[s].valid => peers[s].valid
           /\ peers'[s].seen # peers[s].seen => peers'[s].seen = 0
<1> USE DEF TypeOK, Peer
<1>1. ASSUME NEW n \in Node, ForceStale(n) 
      PROVE \A s \in Index :
              /\ peers'[s].id = peers[s].id
              /\ peers'[s].valid => peers[s].valid
              /\ peers'[s].seen # peers[s].seen => peers'[s].seen = 0
  BY <1>1 DEF ForceStale
<1>2. CASE Evict
  BY <1>2 DEF Evict
<1>3. CASE Elapse \/ PassBegins \/ Inspect \/ UNCHANGED vars
  BY <1>3 DEF Elapse, PassBegins, Inspect, vars
<1> QED
  BY <1>1, <1>2, <1>3 DEF Quiet

\* No entry before a valid one has its id, so every search by id finds the same
\* entry.  The property is inductive: a new entry takes the first free place,
\* behind valid entries only, and only if its node has no valid entry.
THEOREM FirstMatchCorrect == Spec => []FirstMatchIsLive
<1>1. Init => FirstMatchIsLive
  BY DEF Init, FirstMatchIsLive
<1>2. TypeOK /\ FirstMatchIsLive /\ [Next]_vars => FirstMatchIsLive'
  <2> SUFFICES ASSUME TypeOK, FirstMatchIsLive, [Next]_vars,
                      NEW s \in Index, NEW u \in Index, peers'[s].valid, u < s
               PROVE  peers'[u].id # peers'[s].id
    BY DEF FirstMatchIsLive
  <2>1. ASSUME NEW n \in Node, Telemetry(n) PROVE peers'[u].id # peers'[s].id
    <3>1. PICK p \in Index :
            /\ peers'[p].id = n /\ peers'[p].seen = now /\ peers'[p].valid = TRUE
            /\ \A v \in Index : v # p => peers'[v] = peers[v]
            /\ \/ peers[p].id = n /\ peers[p].valid
               \/ /\ \A v \in Index : peers[v].valid => peers[v].id # n
                  /\ \A v \in Index : v < p => peers[v].valid
               \/ \A v \in Index : peers[v].valid /\ peers[v].id # n
      BY <2>1, TelemetryPlaces
    <3>2. CASE s = p
      BY <3>1, <3>2 DEF FirstMatchIsLive, Index
    <3>3. CASE s # p /\ u = p
      BY <3>1, <3>3 DEF FirstMatchIsLive
    <3>4. CASE s # p /\ u # p
      BY <3>1, <3>4 DEF FirstMatchIsLive
    <3> QED
      BY <3>2, <3>3, <3>4
  <2>2. CASE ~\E n \in Node : Telemetry(n)
    <3>1. Quiet
      BY <2>2 DEF Next, Quiet
    <3>2. \A v \in Index : peers'[v].id = peers[v].id /\ (peers'[v].valid => peers[v].valid)
      BY <3>1, OthersKeepIds
    <3> QED
      BY <3>2 DEF FirstMatchIsLive
  <2> QED
    BY <2>1, <2>2
<1> QED
  BY <1>1, <1>2, TypeCorrect, PTL DEF Spec

\* The strengthening of ShunnedUntilHeard: the mark is still in the entry.
StaleMark == \A s \in Index : peers[s].valid /\ peers[s].id \in shunned => peers[s].seen = 0

\* A peer whose channel was lost is not selected before it is heard again,
\* outside the first PeerTimeout of the clock.  The mark would be lost if the
\* search by id stopped at an entry that is not the valid one.
THEOREM ShunnedCorrect == Spec => []ShunnedUntilHeard
<1>1. Init => StaleMark
  BY DEF Init, StaleMark
<1>2. TypeOK /\ FirstMatchIsLive /\ StaleMark /\ [Next]_vars => StaleMark'
  <2> SUFFICES ASSUME TypeOK, FirstMatchIsLive, StaleMark, [Next]_vars,
                      NEW s \in Index, peers'[s].valid, peers'[s].id \in shunned'
               PROVE  peers'[s].seen = 0
    BY DEF StaleMark
  <2>1. ASSUME NEW n \in Node, Telemetry(n) PROVE peers'[s].seen = 0
    <3>1. PICK p \in Index :
            /\ peers'[p].id = n /\ peers'[p].seen = now /\ peers'[p].valid = TRUE
            /\ \A v \in Index : v # p => peers'[v] = peers[v]
            /\ \/ peers[p].id = n /\ peers[p].valid
               \/ /\ \A v \in Index : peers[v].valid => peers[v].id # n
                  /\ \A v \in Index : v < p => peers[v].valid
               \/ \A v \in Index : peers[v].valid /\ peers[v].id # n
      BY <2>1, TelemetryPlaces
    <3>2. shunned' = shunned \ {n}
      BY <2>1 DEF Telemetry
    <3> QED
      BY <3>1, <3>2 DEF StaleMark
  <2>2. ASSUME NEW n \in Node, ForceStale(n) PROVE peers'[s].seen = 0
    <3>1. /\ peers[s].valid /\ peers'[s].id = peers[s].id
          /\ peers'[s].seen # peers[s].seen => peers'[s].seen = 0
      <4>1. Quiet
        BY <2>2 DEF Quiet
      <4> QED
        BY <4>1, OthersKeepIds
    <3>2. shunned' = shunned \cup {n}
      BY <2>2 DEF ForceStale
    <3>3. CASE peers[s].id = n
      <4>1. \A v \in Index : peers[v].id = n => s <= v
        BY <3>1, <3>3 DEF FirstMatchIsLive, Index
      <4>2. FirstNamed(s, n)
        BY <3>3, <4>1 DEF FirstNamed, First
      <4> QED
        BY <2>2, <4>2 DEF ForceStale, TypeOK, Peer
    <3>4. CASE peers[s].id # n
      BY <3>1, <3>2, <3>4 DEF StaleMark
    <3> QED
      BY <3>3, <3>4
  <2>3. CASE Elapse \/ PassBegins \/ Inspect \/ Evict \/ UNCHANGED vars
    <3>1. shunned' = shunned
      BY <2>3 DEF Elapse, PassBegins, Inspect, Evict, vars
    <3>2. /\ peers[s].valid /\ peers'[s].id = peers[s].id
          /\ peers'[s].seen # peers[s].seen => peers'[s].seen = 0
      <4>1. Quiet
        BY <2>3 DEF Quiet
      <4> QED
        BY <4>1, OthersKeepIds
    <3> QED
      BY <3>1, <3>2 DEF StaleMark
  <2> QED
    BY <2>1, <2>2, <2>3 DEF Next
<1>3. TypeOK /\ StaleMark => ShunnedUntilHeard
  <2> SUFFICES ASSUME TypeOK, StaleMark,
                      NEW s \in Index, peers[s].id \in shunned, Fresh(s)
               PROVE  now <= PeerTimeout
    BY DEF ShunnedUntilHeard
  <2>1. peers[s].seen = 0
    BY DEF StaleMark, Fresh
  <2>2. now % Wrap = now
    BY TimeFacts DEF TypeOK, Time
  <2> QED
    BY <2>1, <2>2 DEF Fresh, Age, TypeOK, Time
<1> QED
  BY <1>1, <1>2, <1>3, TypeCorrect, FirstMatchCorrect, PTL DEF Spec
=============================================================================
