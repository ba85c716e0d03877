-------------------------- MODULE DelegationProofs --------------------------
(***************************************************************************)
(* Proofs about Delegation, for any set of nodes, any number of channels,  *)
(* any load, any telemetry heard and any number of messages and crashes.   *)
(***************************************************************************)
EXTENDS Delegation, FiniteSetTheorems, TLAPS

Fate == {"keep", "reset", "back", "dial", "fail"}

\* A channel is its old self, as far as the agreement goes.
Same(x, y) == x.state = y.state /\ x.peer = y.peer /\ x.blocks = y.blocks

LEMMA Constants ==
  /\ Blocks \in Nat \ {0} /\ ReqLimit \in Nat /\ NoNode \notin Node
  /\ Channel \subseteq Int /\ IsFiniteSet(Node)
  /\ Idle \in Chan
BY DelegationConstants DEF Channel, Chan, Idle, As

\* The split of delegation_try_offload asks a peer for one block at least and
\* for no more than the node has.
LEMMA ShareIsALoad ==
  ASSUME NEW have \in 0 .. Blocks, NEW k \in Nat \ {0}
  PROVE  PerPeer(have, k) \in 1 .. Blocks
<1>1. have \div 2 \in 0 .. Blocks
  BY Constants
<1> DEFINE half == Greater(1, have \div 2)
<1>2. half \in 1 .. Blocks
  BY <1>1, Constants DEF Greater
<1>3. \A h \in 1 .. Blocks : h \div k \in 0 .. h
  <2> SUFFICES ASSUME NEW h \in 1 .. Blocks PROVE h \div k \in 0 .. h
    OBVIOUS
  <2> h \in Nat /\ k \in Nat /\ k > 0
    BY Constants
  <2> QED
    OBVIOUS
<1>4. half \div k \in 0 .. half
  BY <1>2, <1>3
<1> QED
  BY <1>2, <1>4, Constants DEF PerPeer, Greater

-----------------------------------------------------------------------------
\* What delegation_tick makes of one channel.
LEMMA TickedChannel ==
  ASSUME TypeOK, NEW n \in Node, NEW c \in Channel, NEW low \in BOOLEAN,
         NEW fate \in [Channel -> Fate], fate[c] \in Fates(n, c, low, fate)
  PROVE  LET x == channels[n][c]
             y == Ticked(n, fate)[c]
         IN  /\ y \in Chan
             /\ y.state = "IDLE" <=> y.peer = NoNode
             /\ fate[c] \in {"back", "fail"} => x.state = "ACTIVE" /\ y = Idle
             /\ fate[c] \notin {"back", "fail"} /\ x.state = "ACTIVE" => Same(x, y)
             /\ fate[c] # "reset" /\ x.state = "HOSTING" => y = x
             /\ y = Idle \/ Same(x, y)
<1> DEFINE x == channels[n][c]
           y == Ticked(n, fate)[c]
<1>1. x \in Chan /\ (x.state = "IDLE" <=> x.peer = NoNode)
  BY DEF TypeOK
<1>2. y = CASE fate[c] \in {"reset", "back", "fail"} -> Idle
            [] fate[c] = "dial"                      -> [x EXCEPT !.fd = TRUE]
            [] fate[c] = "keep" /\ x.state = "REQUESTING" -> [x EXCEPT !.age = @ + 1]
            [] OTHER -> x
  BY DEF Ticked
<1>3. fate[c] \in Fate
  OBVIOUS
<1> HIDE DEF x, y
<1>4. CASE x.state = "IDLE"
  <2>1. fate[c] = "keep"
    BY <1>4 DEF Fates, x
  <2> QED
    BY <1>1, <1>2, <1>4, <2>1 DEF Same, x, y
<1>5. CASE x.state = "REQUESTING"
  <2>1. fate[c] = "reset" \/ (fate[c] = "keep" /\ x.age < ReqLimit)
    BY <1>5 DEF Fates, x
  <2>2. CASE fate[c] = "reset"
    BY <1>1, <1>2, <1>5, <2>2, Constants DEF Same, Idle, As, x, y
  <2>3. CASE fate[c] = "keep" /\ x.age < ReqLimit
    <3>1. y = [x EXCEPT !.age = @ + 1]
      BY <1>2, <1>5, <2>3
    <3>2. x.age + 1 \in 0 .. ReqLimit
      BY <1>1, <2>3, Constants DEF Chan
    <3>3. y \in Chan
      BY <1>1, <3>1, <3>2 DEF Chan
    <3> QED
      BY <1>1, <1>5, <2>3, <3>1, <3>3 DEF Same, Chan, x, y
  <2> QED
    BY <2>1, <2>2, <2>3
<1>6. CASE x.state = "ACTIVE"
  <2>1. fate[c] \in {"back", "keep", "dial", "fail"}
    BY <1>6, <1>3 DEF Fates, Fate, x
  <2>2. CASE fate[c] \in {"back", "fail"}
    BY <1>2, <1>6, <2>2, Constants DEF Idle, As, x, y
  <2>3. CASE fate[c] = "dial"
    <3>1. y = [x EXCEPT !.fd = TRUE]
      BY <1>2, <2>3
    <3> QED
      BY <1>1, <1>6, <2>3, <3>1 DEF Same, Chan, x, y
  <2>4. CASE fate[c] = "keep"
    BY <1>1, <1>2, <1>6, <2>4 DEF Same, x, y
  <2> QED
    BY <2>1, <2>2, <2>3, <2>4
<1>7. CASE x.state = "HOSTING"
  <2>1. fate[c] \in {"keep", "reset"}
    BY <1>7 DEF Fates, x
  <2>2. CASE fate[c] = "reset"
    BY <1>2, <1>7, <2>2, Constants DEF Idle, As, x, y
  <2>3. CASE fate[c] = "keep"
    BY <1>1, <1>2, <1>7, <2>3 DEF Same, x, y
  <2> QED
    BY <2>1, <2>2, <2>3
<1> QED
  BY <1>1, <1>4, <1>5, <1>6, <1>7 DEF Chan, x

\* n turns to other peers, or to none: what it has to ask of them is a load, and
\* no slot is found yet.
AsksNext(n) ==
  /\ asking' \in [Node -> Asking]
  /\ \A k \in Node \ {n} : asking'[k] = asking[k]
  /\ asking'[n].slot = NumChannels
  /\ asking'[n].who # {} => asking'[n].share # 0

\* What delegation_try_offload chooses: peers that no channel names, and a load.
LEMMA OffloadShape ==
  ASSUME TypeOK, NEW n \in Node, NEW ch, NEW seen, NEW have \in 0 .. Blocks,
         Offload(n, ch, seen, have)
  PROVE  AsksNext(n) /\ \A m \in asking'[n].who, c \in Channel : ch[c].peer # m
<1> DEFINE cands == Candidates(ch, seen)
           share == PerPeer(have, Cardinality(cands))
           a     == [who |-> cands, share |-> share, slot |-> NumChannels]
<1>1. cands \in SUBSET Node /\ cands # {} /\ \A m \in cands, c \in Channel : ch[c].peer # m
  BY DEF Candidates, Offload
<1>2. asking' = [asking EXCEPT ![n] = a]
  BY DEF Offload
<1> HIDE DEF cands
<1>3. Cardinality(cands) \in Nat \ {0}
  BY <1>1, Constants, FS_Subset, FS_CardinalityType, FS_EmptySet
<1>4. share \in 1 .. Blocks
  BY <1>3, ShareIsALoad
<1> HIDE DEF share
<1>5. a \in Asking /\ a.who = cands /\ a.slot = NumChannels /\ a.share # 0
  BY <1>1, <1>4, DelegationConstants DEF Asking
<1> HIDE DEF a
<1> QED
  BY <1>1, <1>2, <1>5 DEF TypeOK, AsksNext

\* One pass of the manager: closed are the channels whose blocks come back, ended
\* the hostings given up; ch is what delegation_tick leaves.
PassMakes(n, closed, ended, ch) ==
  /\ channels' = [channels EXCEPT ![n] = ch]
  /\ active' = [active EXCEPT ![n] = Restored(active[n], channels[n], closed)]
  /\ forgot' = [forgot EXCEPT ![n] = @ \cup {channels[n][c].peer : c \in ended}]
  /\ view' \in [Node -> [Node -> {"dead", "low", "busy"}]]
  /\ msgs' = msgs
  /\ AsksNext(n)
  /\ \A m \in asking'[n].who, c \in Channel : ch[c].peer # m
  /\ \A c \in Channel :
       /\ ch[c].state = "IDLE" <=> ch[c].peer = NoNode
       /\ ch[c] = Idle \/ Same(channels[n][c], ch[c])
       /\ c \in closed => ch[c] = Idle
       /\ channels[n][c].state = "ACTIVE" /\ c \notin closed => Same(channels[n][c], ch[c])
       /\ channels[n][c].state = "HOSTING" /\ c \notin ended => ch[c] = channels[n][c]

\* The blocks a set of channels carries are finitely many, and what comes back
\* never exceeds PROCESSING_BLOCKS.
LEMMA LentIsFinite ==
  ASSUME NEW ch, NEW C \in SUBSET Channel
  PROVE  IsFiniteSet(Lent(ch, C)) /\ Cardinality(Lent(ch, C)) \in Nat
<1>1. IsFiniteSet(Channel) /\ IsFiniteSet(1 .. Blocks)
  BY DelegationConstants, FS_Interval DEF Channel
<1>2. IsFiniteSet(C)
  BY <1>1, FS_Subset
<1>3. IsFiniteSet(C \X (1 .. Blocks))
  BY ONLY <1>1, <1>2, FS_Product
<1>4. Lent(ch, C) \subseteq C \X (1 .. Blocks)
  BY DEF Lent
<1> QED
  BY <1>3, <1>4, FS_Subset, FS_CardinalityType

LEMMA RestoredIsALoad ==
  ASSUME NEW have \in Nat, NEW ch, NEW C \in SUBSET Channel
  PROVE  Restored(have, ch, C) \in 0 .. Blocks
BY LentIsFinite, Constants DEF Restored, Lesser

LEMMA PassShape ==
  ASSUME TypeOK, NEW n \in Node, ManagerPass(n)
  PROVE  \E closed \in SUBSET Is(channels[n], "ACTIVE"), ended \in SUBSET Is(channels[n], "HOSTING"),
            ch \in [Channel -> Chan] : PassMakes(n, closed, ended, ch)
<1>1. PICK fate \in [Channel -> Fate], low \in BOOLEAN :
       /\ \A c \in Channel : fate[c] \in Fates(n, c, low, fate)
       /\ LET ch   == Ticked(n, fate)
              seen == [m \in Node |->
                         IF \E c \in Channel : fate[c] = "fail" /\ channels[n][c].peer = m
                         THEN "dead" ELSE view[n][m]]
              have == Restored(active[n], channels[n],
                               {c \in Channel : fate[c] \in {"back", "fail"}})
          IN  /\ active' = [active EXCEPT ![n] = have]
              /\ view' = [view EXCEPT ![n] = seen]
              /\ forgot' = [forgot EXCEPT ![n] = @ \cup
                   {channels[n][c].peer : c \in {d \in Is(channels[n], "HOSTING") : fate[d] = "reset"}}]
              /\ channels' = [channels EXCEPT ![n] = ch]
              /\ UNCHANGED asking \/ (~low /\ Offload(n, ch, seen, have))
  BY DEF ManagerPass, Fate
<1> DEFINE ch     == Ticked(n, fate)
           closed == {c \in Channel : fate[c] \in {"back", "fail"}}
           ended  == {d \in Is(channels[n], "HOSTING") : fate[d] = "reset"}
           seen   == [m \in Node |->
                        IF \E c \in Channel : fate[c] = "fail" /\ channels[n][c].peer = m
                        THEN "dead" ELSE view[n][m]]
           have   == Restored(active[n], channels[n], closed)
<1>2. \A c \in Channel :
        LET x == channels[n][c]
            y == ch[c]
        IN  /\ y \in Chan
            /\ y.state = "IDLE" <=> y.peer = NoNode
            /\ fate[c] \in {"back", "fail"} => x.state = "ACTIVE" /\ y = Idle
            /\ fate[c] \notin {"back", "fail"} /\ x.state = "ACTIVE" => Same(x, y)
            /\ fate[c] # "reset" /\ x.state = "HOSTING" => y = x
            /\ y = Idle \/ Same(x, y)
  BY <1>1, TickedChannel
<1>3. ch \in [Channel -> Chan]
  <2>1. ch = [c \in Channel |-> ch[c]]
    BY DEF Ticked
  <2> HIDE DEF ch
  <2> QED
    BY <1>2, <2>1
<1>4. closed \in SUBSET Is(channels[n], "ACTIVE") /\ ended \in SUBSET Is(channels[n], "HOSTING")
  <2> HIDE DEF ch
  <2> QED
    BY <1>2 DEF Is
<1>5. have \in 0 .. Blocks
  <2>1. active[n] \in Nat /\ closed \in SUBSET Channel
    BY DEF TypeOK
  <2> QED
    BY <2>1, RestoredIsALoad
<1>6. view' \in [Node -> [Node -> {"dead", "low", "busy"}]]
  <2>1. seen \in [Node -> {"dead", "low", "busy"}]
    BY DEF TypeOK
  <2>2. view' = [view EXCEPT ![n] = seen]
    BY <1>1
  <2> HIDE DEF seen
  <2> QED
    BY <2>1, <2>2 DEF TypeOK
<1>7. /\ active' = [active EXCEPT ![n] = have]
      /\ forgot' = [forgot EXCEPT ![n] = @ \cup {channels[n][c].peer : c \in ended}]
      /\ channels' = [channels EXCEPT ![n] = ch]
      /\ UNCHANGED asking \/ Offload(n, ch, seen, have)
  BY <1>1
<1> HIDE DEF ch, seen
<1>8. asking[n] = Done /\ msgs' = msgs
  BY DEF ManagerPass
<1>9. AsksNext(n) /\ \A m \in asking'[n].who, c \in Channel : ch[c].peer # m
  <2>1. CASE UNCHANGED asking
    BY <1>8, <2>1 DEF TypeOK, AsksNext, Done
  <2>2. CASE Offload(n, ch, seen, have)
    <3> HIDE DEF have
    <3> QED
      BY <1>5, <2>2, OffloadShape
  <2> QED
    BY <1>7, <2>1, <2>2
<1>10. PassMakes(n, closed, ended, ch)
  BY <1>2, <1>6, <1>7, <1>8, <1>9 DEF PassMakes, Is
<1> QED
  BY <1>3, <1>4, <1>10
-----------------------------------------------------------------------------
\* The channel a handler leaves.
LEMMA ChannelAs ==
  ASSUME NEW s \in {"IDLE", "REQUESTING", "ACTIVE", "HOSTING"}, NEW p \in Node \cup {NoNode},
         NEW b \in 0 .. Blocks, NEW fd \in BOOLEAN
  PROVE  /\ As(s, p, b, fd) \in Chan
         /\ As(s, p, b, fd).state = s /\ As(s, p, b, fd).peer = p /\ As(s, p, b, fd).blocks = b
BY DelegationConstants DEF As, Chan

\* The slot found is made to request, whatever it holds, and one candidate less
\* is left.
ClaimMakes(n, m, y) ==
  LET s == asking[n].slot
  IN  /\ m \in asking[n].who /\ s \in Channel
      /\ y.state = "REQUESTING" /\ y.peer = m
      /\ channels' = [channels EXCEPT ![n][s] = y]
      /\ AsksNext(n) /\ asking'[n].who = asking[n].who \ {m}
      /\ forgot' = [forgot EXCEPT ![n] = @ \cup Overwritten(channels[n][s])]
      /\ msgs' \subseteq msgs \cup Request

LEMMA ClaimShape ==
  ASSUME TypeOK, NEW n \in Node, Claim(n)
  PROVE  \E m \in Node, y \in Chan : ClaimMakes(n, m, y)
<1> DEFINE a == asking[n]
<1>1. PICK m \in a.who :
        /\ a.slot \in Channel
        /\ channels' = [channels EXCEPT ![n][a.slot] = As("REQUESTING", m, a.share, FALSE)]
        /\ msgs' = Sent(msgs, {[type |-> "request", from |-> n, to |-> m, blocks |-> a.share]})
        /\ asking' = [asking EXCEPT ![n] =
             IF a.who = {m} THEN Done ELSE [a EXCEPT !.who = @ \ {m}, !.slot = NumChannels]]
        /\ forgot' = [forgot EXCEPT ![n] = @ \cup Overwritten(channels[n][a.slot])]
  BY DEF Claim
<1>2. a \in Asking /\ m \in Node /\ a.share \in 1 .. Blocks
  BY Constants DEF TypeOK, Asking
<1> DEFINE y == As("REQUESTING", m, a.share, FALSE)
<1>3. y \in Chan /\ y.state = "REQUESTING" /\ y.peer = m
  <2>1. m \in Node \cup {NoNode} /\ a.share \in 0 .. Blocks
    BY <1>2, Constants
  <2> HIDE DEF a
  <2> QED
    BY <2>1, DelegationConstants DEF As, Chan
<1>4. msgs' \subseteq msgs \cup Request
  <2>1. [type |-> "request", from |-> n, to |-> m, blocks |-> a.share] \in Request
    BY <1>2 DEF Request
  <2> QED
    BY <1>1, <2>1 DEF Sent
<1> DEFINE b == IF a.who = {m} THEN Done ELSE [a EXCEPT !.who = @ \ {m}, !.slot = NumChannels]
<1>5. b \in Asking /\ b.who = a.who \ {m} /\ b.slot = NumChannels /\ (b.who # {} => b.share # 0)
  <2>1. CASE a.who = {m}
    BY <2>1, DelegationConstants DEF Done, Asking
  <2>2. CASE a.who # {m}
    <3>1. b = [who |-> a.who \ {m}, share |-> a.share, slot |-> NumChannels]
      BY <1>2, <2>2 DEF Asking
    <3> QED
      BY <1>2, <3>1, DelegationConstants DEF Asking
  <2> QED
    BY <2>1, <2>2
<1>6. asking' = [asking EXCEPT ![n] = b]
  BY <1>1
<1> HIDE DEF b
<1>7. AsksNext(n) /\ asking'[n].who = a.who \ {m}
  BY <1>5, <1>6 DEF TypeOK, AsksNext
<1>8. channels' = [channels EXCEPT ![n][a.slot] = y]
  BY <1>1
<1> HIDE DEF y
<1>9. ClaimMakes(n, m, y)
  BY <1>1, <1>3, <1>4, <1>7, <1>8 DEF ClaimMakes
<1> QED
  BY <1>2, <1>3, <1>9

\* The search for a slot finds an idle one or gives up.
LEMMA SearchShape ==
  ASSUME TypeOK, NEW n \in Node, Search(n)
  PROVE  /\ UNCHANGED <<channels, active, wanted, view, up, msgs, forgot, crashes>>
         /\ asking' \in [Node -> Asking]
         /\ \A k \in Node : asking'[k].who \subseteq asking[k].who
         /\ \A k \in Node : asking'[k].who # {} => asking'[k].share # 0
         /\ \A k \in Node : \/ asking'[k].slot = asking[k].slot
                            \/ asking'[k].slot = NumChannels
                            \/ /\ asking'[k].slot \in Channel
                               /\ channels[k][asking'[k].slot].state = "IDLE"
<1>1. asking[n] \in Asking
  BY DEF TypeOK
<1>2. UNCHANGED <<channels, active, wanted, view, up, msgs, forgot, crashes>>
  BY DEF Search
<1>3. \/ \E c \in Channel : /\ channels[n][c].state = "IDLE"
                            /\ asking' = [asking EXCEPT ![n].slot = c]
      \/ asking' = [asking EXCEPT ![n] = Done]
  BY DEF Search, First, Is
<1>4. ASSUME NEW c \in Channel, channels[n][c].state = "IDLE", asking' = [asking EXCEPT ![n].slot = c]
      PROVE  /\ asking' \in [Node -> Asking]
             /\ \A k \in Node : asking'[k].who = asking[k].who /\ asking'[k].share = asking[k].share
             /\ \A k \in Node : asking'[k].slot = asking[k].slot \/ (k = n /\ asking'[k].slot = c)
  <2>1. c \in 0 .. NumChannels
    BY DelegationConstants DEF Channel
  <2> QED
    BY <1>1, <1>4, <2>1 DEF TypeOK, Asking
<1>5. CASE asking' = [asking EXCEPT ![n] = Done]
  <2>1. Done \in Asking /\ Done.who = {} /\ Done.slot = NumChannels
    BY DelegationConstants DEF Done, Asking
  <2> QED
    BY <1>2, <1>5, <2>1 DEF TypeOK
<1>6. ASSUME NEW c \in Channel, channels[n][c].state = "IDLE", asking' = [asking EXCEPT ![n].slot = c]
      PROVE  /\ \A k \in Node : asking'[k].who \subseteq asking[k].who
             /\ \A k \in Node : asking'[k].who # {} => asking'[k].share # 0
             /\ \A k \in Node : \/ asking'[k].slot = asking[k].slot
                                \/ /\ asking'[k].slot \in Channel
                                   /\ channels[k][asking'[k].slot].state = "IDLE"
  <2>1. \A k \in Node : asking[k].who # {} => asking[k].share # 0
    BY DEF TypeOK
  <2> QED
    BY <1>4, <1>6, <2>1
<1> QED
  BY <1>2, <1>3, <1>4, <1>5, <1>6

\* delegation_handle_request rejects, or spends an idle slot and accepts.
LEMMA RequestShape ==
  ASSUME TypeOK, NEW x \in msgs, HandleRequest(x)
  PROVE  /\ x.to \in Node /\ x.from \in Node
         /\ \/ /\ UNCHANGED <<channels, forgot>>
               /\ msgs' \subseteq msgs \cup {[type |-> "reject", from |-> x.to, to |-> x.from]}
            \/ /\ msgs' \subseteq msgs \cup {[type |-> "accept", from |-> x.to, to |-> x.from]}
               /\ forgot' = [forgot EXCEPT ![x.to] = @ \ {x.from}]
               /\ \E c \in Channel, y \in Chan :
                    /\ channels[x.to][c].state = "IDLE"
                    /\ y.state = "HOSTING" /\ y.peer = x.from
                    /\ channels' = [channels EXCEPT ![x.to][c] = y]
<1>1. x \in Request
  BY DEF TypeOK, HandleRequest, Request, Reply
<1>2. x.to \in Node /\ x.from \in Node /\ x.blocks \in 1 .. Blocks
  BY <1>1 DEF Request
<1> DEFINE answer(a) == msgs' = Sent(msgs \ {x}, {[type |-> a, from |-> x.to, to |-> x.from]})
<1>3. \A a \in {"accept", "reject"} :
        answer(a) => msgs' \subseteq msgs \cup {[type |-> a, from |-> x.to, to |-> x.from]}
  BY DEF Sent
<1>4. \/ answer("reject") /\ UNCHANGED <<channels, forgot>>
      \/ \E c \in Channel :
           /\ First(c, Is(channels[x.to], "IDLE"))
           /\ channels' = [channels EXCEPT ![x.to][c] = As("HOSTING", x.from, x.blocks, FALSE)]
           /\ forgot' = [forgot EXCEPT ![x.to] = @ \ {x.from}]
           /\ answer("accept")
  BY DEF HandleRequest
<1> HIDE DEF answer
<1>5. ASSUME NEW c \in Channel,
             First(c, Is(channels[x.to], "IDLE")),
             channels' = [channels EXCEPT ![x.to][c] = As("HOSTING", x.from, x.blocks, FALSE)]
      PROVE  \E y \in Chan :
               /\ channels[x.to][c].state = "IDLE"
               /\ y.state = "HOSTING" /\ y.peer = x.from
               /\ channels' = [channels EXCEPT ![x.to][c] = y]
  <2> DEFINE y == As("HOSTING", x.from, x.blocks, FALSE)
  <2>1. y \in Chan /\ y.state = "HOSTING" /\ y.peer = x.from
    <3>1. x.blocks \in 0 .. Blocks /\ x.from \in Node \cup {NoNode}
      BY <1>2, Constants
    <3> QED
      BY <3>1, Constants DEF As, Chan
  <2>2. channels[x.to][c].state = "IDLE"
    BY <1>5 DEF First, Is
  <2>3. channels' = [channels EXCEPT ![x.to][c] = y]
    BY <1>5
  <2> HIDE DEF y
  <2> QED
    BY <2>1, <2>2, <2>3
<1> QED
  BY <1>2, <1>3, <1>4, <1>5

\* The load a node keeps when an acceptance takes b blocks off it.
Left(n, b) == Greater(0, active[n] - b)

\* An acceptance of m makes y of the channel c of n that asked for it.
AcceptMakes(n, m, c, y) ==
  LET ch == channels[n][c]
  IN  /\ ch.state = "REQUESTING" /\ ch.peer = m /\ Left(n, ch.blocks) \in 0 .. Blocks
      /\ channels' = [channels EXCEPT ![n][c] = y]
      /\ \/ /\ y.state = "ACTIVE" /\ y.peer = m /\ y.blocks = ch.blocks
            /\ active' = [active EXCEPT ![n] = Left(n, ch.blocks)]
         \/ /\ y = Idle
            /\ active' = [active EXCEPT ![n] = Restored(Left(n, ch.blocks), channels[n], {c})]

\* delegation_handle_reply ignores an acceptance nobody waits for, opens the
\* channel that waits for it, or loses it at once.
LEMMA AcceptShape ==
  ASSUME TypeOK, NEW x \in msgs, HandleAccept(x)
  PROVE  /\ x.to \in Node /\ x.from \in Node /\ x.type = "accept" /\ msgs' \subseteq msgs
         /\ UNCHANGED <<wanted, forgot>>
         /\ view' \in [Node -> [Node -> {"dead", "low", "busy"}]]
         /\ \/ UNCHANGED <<channels, active>>
            \/ \E c \in Channel, y \in Chan : AcceptMakes(x.to, x.from, c, y)
<1>1. x.to \in Node /\ x.from \in Node /\ x.type = "accept" /\ msgs' \subseteq msgs
      /\ UNCHANGED <<wanted, forgot>>
  BY DEF TypeOK, HandleAccept, Request, Reply
<1>2. \/ UNCHANGED <<channels, active, view>>
      \/ \E c \in Asked(x.to, x.from) :
           LET ch   == channels[x.to][c]
               left == Left(x.to, ch.blocks)
           IN  \/ /\ \E fd \in BOOLEAN :
                       channels' = [channels EXCEPT ![x.to][c] =
                         As("ACTIVE", ch.peer, ch.blocks, fd)]
                  /\ active' = [active EXCEPT ![x.to] = left]
                  /\ UNCHANGED view
               \/ /\ channels' = [channels EXCEPT ![x.to][c] = Idle]
                  /\ active' = [active EXCEPT ![x.to] = Restored(left, channels[x.to], {c})]
                  /\ view' = [view EXCEPT ![x.to][x.from] = "dead"]
  BY DEF HandleAccept, Left
<1>3. view' \in [Node -> [Node -> {"dead", "low", "busy"}]]
  <2>1. view' = view \/ view' = [view EXCEPT ![x.to][x.from] = "dead"]
    BY <1>2
  <2>2. view \in [Node -> [Node -> {"dead", "low", "busy"}]]
    BY DEF TypeOK
  <2>3. CASE view' = view
    BY <2>2, <2>3
  <2>4. CASE view' = [view EXCEPT ![x.to][x.from] = "dead"]
    BY <1>1, <2>2, <2>4
  <2> QED
    BY <2>1, <2>3, <2>4
<1>4. ASSUME NEW c \in Asked(x.to, x.from)
      PROVE  /\ c \in Channel /\ channels[x.to][c] \in Chan
             /\ channels[x.to][c].state = "REQUESTING" /\ channels[x.to][c].peer = x.from
             /\ Left(x.to, channels[x.to][c].blocks) \in 0 .. Blocks
  <2>1. c \in Channel /\ channels[x.to][c].state = "REQUESTING" /\ channels[x.to][c].peer = x.from
    BY DEF Asked, Is, First
  <2>2. channels[x.to][c] \in Chan
    BY <1>1, <2>1 DEF TypeOK
  <2>3. active[x.to] \in 0 .. Blocks /\ channels[x.to][c].blocks \in 0 .. Blocks
    BY <1>1, <2>2 DEF TypeOK, Chan
  <2> QED
    BY <2>1, <2>2, <2>3, Constants DEF Left, Greater
<1>5. CASE UNCHANGED <<channels, active, view>>
  BY <1>1, <1>3, <1>5
<1>6. ASSUME NEW c \in Asked(x.to, x.from), NEW fd \in BOOLEAN,
             channels' = [channels EXCEPT ![x.to][c] =
               As("ACTIVE", channels[x.to][c].peer, channels[x.to][c].blocks, fd)],
             active' = [active EXCEPT ![x.to] = Left(x.to, channels[x.to][c].blocks)]
      PROVE  \E d \in Channel, y \in Chan : AcceptMakes(x.to, x.from, d, y)
  <2> DEFINE y == As("ACTIVE", channels[x.to][c].peer, channels[x.to][c].blocks, fd)
  <2>1. y \in Chan /\ y.state = "ACTIVE" /\ y.peer = channels[x.to][c].peer
        /\ y.blocks = channels[x.to][c].blocks
    <3>1. channels[x.to][c].peer \in Node \cup {NoNode} /\ channels[x.to][c].blocks \in 0 .. Blocks
      BY <1>4 DEF Chan
    <3> QED
      BY <3>1, ChannelAs
  <2>2. channels' = [channels EXCEPT ![x.to][c] = y]
    BY <1>6
  <2> HIDE DEF y
  <2>3. AcceptMakes(x.to, x.from, c, y)
    BY <1>4, <1>6, <2>1, <2>2 DEF AcceptMakes
  <2> QED
    BY <1>4, <2>1, <2>3
<1>7. ASSUME NEW c \in Asked(x.to, x.from),
             channels' = [channels EXCEPT ![x.to][c] = Idle],
             active' = [active EXCEPT ![x.to] =
               Restored(Left(x.to, channels[x.to][c].blocks), channels[x.to], {c})]
      PROVE  \E d \in Channel, y \in Chan : AcceptMakes(x.to, x.from, d, y)
  <2>1. AcceptMakes(x.to, x.from, c, Idle)
    BY <1>4, <1>7 DEF AcceptMakes
  <2> QED
    BY <1>4, <2>1, Constants
<1> QED
  BY <1>1, <1>2, <1>3, <1>4, <1>5, <1>6, <1>7
-----------------------------------------------------------------------------
\* Every variable keeps its type; an idle channel is wholly reset.
LEMMA TypeKept == TypeOK /\ [Next]_vars => TypeOK'
<1> SUFFICES ASSUME TypeOK, [Next]_vars PROVE TypeOK'
  OBVIOUS
<1> USE Constants DEF TypeOK
<1>a. \A ch \in [Channel -> Chan], m \in Node :
        (\A c \in Channel : ch[c].state = "IDLE" <=> ch[c].peer = NoNode)
        /\ channels' = [channels EXCEPT ![m] = ch]
        => /\ channels' \in [Node -> [Channel -> Chan]]
           /\ \A n \in Node, c \in Channel :
                channels'[n][c].state = "IDLE" <=> channels'[n][c].peer = NoNode
  OBVIOUS
<1>b. \A x \in Chan, m \in Node, d \in Channel :
        (x.state = "IDLE" <=> x.peer = NoNode)
        /\ channels' = [channels EXCEPT ![m][d] = x]
        => /\ channels' \in [Node -> [Channel -> Chan]]
           /\ \A n \in Node, c \in Channel :
                channels'[n][c].state = "IDLE" <=> channels'[n][c].peer = NoNode
  OBVIOUS
<1>c. Idle.state = "IDLE" /\ Idle.peer = NoNode
  BY DEF Idle, As
<1>d. Done \in Asking /\ Done.who = {}
  BY DelegationConstants DEF Done, Asking
<1>p. \A n \in Node, c \in Channel :
        channels[n][c].state # "IDLE" => channels[n][c].peer \in Node
  <2>1. SUFFICES ASSUME NEW n \in Node, NEW c \in Channel, channels[n][c].state # "IDLE"
                 PROVE  channels[n][c].peer \in Node
    OBVIOUS
  <2>2. channels \in [Node -> [Channel -> Chan]] /\ channels[n][c].peer # NoNode
    BY <2>1
  <2> HIDE DEF TypeOK
  <2>3. channels[n][c] \in Chan
    BY <2>2
  <2> QED
    BY <2>2, <2>3 DEF Chan
<1>1. ASSUME NEW n \in Node, NEW m \in Node, Telemetry(n, m) PROVE TypeOK'
  BY <1>1 DEF Telemetry
<1>2. ASSUME NEW n \in Node, NEW m \in Node, PeerSilent(n, m) PROVE TypeOK'
  BY <1>2 DEF PeerSilent
<1>3. ASSUME NEW n \in Node, Crash(n) PROVE TypeOK'
  <2>1. [c \in Channel |-> Idle] \in [Channel -> Chan]
    OBVIOUS
  <2>2. channels' \in [Node -> [Channel -> Chan]]
        /\ \A k \in Node, c \in Channel :
             channels'[k][c].state = "IDLE" <=> channels'[k][c].peer = NoNode
    BY <1>3, <1>a, <1>c, <2>1 DEF Crash
  <2>3. crashes' \in 0 .. MaxCrashes
    BY <1>3, DelegationConstants DEF Crash
  <2>4. asking' \in [Node -> Asking] /\ \A k \in Node : asking'[k].who # {} => asking'[k].share # 0
    BY <1>3, <1>d DEF Crash
  <2> QED
    BY <1>3, <2>2, <2>3, <2>4 DEF Crash
<1>4. ASSUME NEW n \in Node, Restart(n) PROVE TypeOK'
  BY <1>4 DEF Restart
<1>5. ASSUME NEW n \in Node, ManagerPass(n) PROVE TypeOK'
  <2>1. PICK closed \in SUBSET Is(channels[n], "ACTIVE"), ended \in SUBSET Is(channels[n], "HOSTING"),
             ch \in [Channel -> Chan] : PassMakes(n, closed, ended, ch)
    BY <1>5, PassShape
  <2>2. \A c \in Channel : ch[c].state = "IDLE" <=> ch[c].peer = NoNode
    BY <2>1 DEF PassMakes
  <2>3. channels' \in [Node -> [Channel -> Chan]]
        /\ \A k \in Node, c \in Channel :
             channels'[k][c].state = "IDLE" <=> channels'[k][c].peer = NoNode
    BY <1>a, <2>1, <2>2 DEF PassMakes
  <2>4. active' \in [Node -> 0 .. Blocks]
    <3>1. closed \in SUBSET Channel /\ active[n] \in Nat
      BY <2>1 DEF Is
    <3>2. Restored(active[n], channels[n], closed) \in 0 .. Blocks
      BY <3>1, RestoredIsALoad
    <3> QED
      BY <2>1, <3>2 DEF PassMakes
  <2>5. forgot' \in [Node -> SUBSET Node]
    <3>1. \A c \in ended : channels[n][c].peer \in Node
      BY <1>p DEF Is
    <3> QED
      BY <2>1, <3>1 DEF PassMakes
  <2>6. msgs' \subseteq Request \cup Reply /\ view' \in [Node -> [Node -> {"dead", "low", "busy"}]]
    BY <2>1 DEF PassMakes
  <2>7. asking' \in [Node -> Asking] /\ \A k \in Node : asking'[k].who # {} => asking'[k].share # 0
    BY <2>1 DEF PassMakes, AsksNext
  <2> QED
    BY <1>5, <2>3, <2>4, <2>5, <2>6, <2>7 DEF ManagerPass
<1>6. ASSUME NEW n \in Node, NEW k \in 0 .. Blocks, SetBlocks(n, k) PROVE TypeOK'
  BY <1>6 DEF SetBlocks
<1>7. ASSUME NEW x \in msgs, Lose(x) PROVE TypeOK'
  BY <1>7 DEF Lose
<1>8. ASSUME NEW x \in msgs, HandleRequest(x) PROVE TypeOK'
  <2> HIDE DEF TypeOK
  <2>1. x.to \in Node /\ x.from \in Node /\ x.from # NoNode
    BY <1>8, RequestShape
  <2>2. \A a \in {"accept", "reject"} : [type |-> a, from |-> x.to, to |-> x.from] \in Reply
    BY <2>1 DEF Reply
  <2>3. \/ /\ UNCHANGED <<channels, forgot>>
           /\ msgs' \subseteq msgs \cup {[type |-> "reject", from |-> x.to, to |-> x.from]}
        \/ /\ msgs' \subseteq msgs \cup {[type |-> "accept", from |-> x.to, to |-> x.from]}
           /\ forgot' = [forgot EXCEPT ![x.to] = @ \ {x.from}]
           /\ \E c \in Channel, y \in Chan :
                /\ y.state = "HOSTING" /\ y.peer = x.from
                /\ channels' = [channels EXCEPT ![x.to][c] = y]
    BY <1>8, RequestShape
  <2>4. CASE UNCHANGED <<channels, forgot>>
    <3>1. msgs' \subseteq Request \cup Reply
      BY <2>2, <2>3 DEF TypeOK
    <3> QED
      BY <1>8, <2>4, <3>1 DEF HandleRequest, TypeOK
  <2>5. ASSUME NEW c \in Channel, NEW y \in Chan,
               y.state = "HOSTING", y.peer = x.from,
               channels' = [channels EXCEPT ![x.to][c] = y],
               forgot' = [forgot EXCEPT ![x.to] = @ \ {x.from}]
        PROVE  TypeOK'
    <3>1. msgs' \subseteq Request \cup Reply
      BY <2>2, <2>3 DEF TypeOK
    <3>2. channels' \in [Node -> [Channel -> Chan]]
          /\ \A k \in Node, d \in Channel :
               channels'[k][d].state = "IDLE" <=> channels'[k][d].peer = NoNode
      BY <1>b, <2>1, <2>5
    <3>3. forgot' \in [Node -> SUBSET Node]
      BY <2>1, <2>5 DEF TypeOK
    <3> QED
      BY <1>8, <3>1, <3>2, <3>3 DEF HandleRequest, TypeOK
  <2> QED
    BY <2>3, <2>4, <2>5
<1>9. ASSUME NEW x \in msgs, HandleAccept(x) PROVE TypeOK'
  <2> HIDE DEF TypeOK
  <2>1. x.to \in Node /\ x.from \in Node /\ x.from # NoNode /\ msgs' \subseteq msgs
        /\ view' \in [Node -> [Node -> {"dead", "low", "busy"}]]
    BY <1>9, AcceptShape
  <2>2. CASE UNCHANGED <<channels, active>>
    BY <1>9, <2>1, <2>2 DEF HandleAccept, TypeOK
  <2>3. ASSUME NEW c \in Channel, NEW y \in Chan, AcceptMakes(x.to, x.from, c, y)
        PROVE  TypeOK'
    <3>1. channels' \in [Node -> [Channel -> Chan]]
          /\ \A k \in Node, d \in Channel :
               channels'[k][d].state = "IDLE" <=> channels'[k][d].peer = NoNode
      BY <1>b, <1>c, <2>1, <2>3 DEF AcceptMakes
    <3> DEFINE left == Left(x.to, channels[x.to][c].blocks)
    <3>2. left \in 0 .. Blocks
      BY <2>3 DEF AcceptMakes
    <3>3. \/ active' = [active EXCEPT ![x.to] = left]
          \/ active' = [active EXCEPT ![x.to] = Restored(left, channels[x.to], {c})]
      BY <2>3 DEF AcceptMakes
    <3> HIDE DEF left
    <3>4. Restored(left, channels[x.to], {c}) \in 0 .. Blocks
      BY <3>2, RestoredIsALoad
    <3>5. active' \in [Node -> 0 .. Blocks]
      <4>1. PICK b \in 0 .. Blocks : active' = [active EXCEPT ![x.to] = b]
        BY <3>2, <3>3, <3>4
      <4>2. active \in [Node -> 0 .. Blocks]
        BY DEF TypeOK
      <4> QED
        BY <4>1, <4>2
    <3> QED
      BY <1>9, <2>1, <3>1, <3>5 DEF HandleAccept, TypeOK
  <2> QED
    BY <1>9, <2>2, <2>3, AcceptShape
<1>10. ASSUME NEW x \in msgs, HandleReject(x) PROVE TypeOK'
  <2>1. x.to \in Node
    BY <1>10 DEF HandleReject, Request, Reply
  <2> DEFINE ch == [c \in Channel |-> IF c \in Asked(x.to, x.from) THEN Idle ELSE channels[x.to][c]]
  <2>2. ch \in [Channel -> Chan] /\ \A c \in Channel : ch[c].state = "IDLE" <=> ch[c].peer = NoNode
    BY <1>c, <2>1
  <2>3. channels' = [channels EXCEPT ![x.to] = ch]
    BY <1>10, <2>1 DEF HandleReject
  <2> HIDE DEF ch
  <2> QED
    BY <1>10, <1>a, <2>1, <2>2, <2>3 DEF HandleReject
<1>11. ASSUME NEW n \in Node, NEW c \in Channel, ChannelLost(n, c) PROVE TypeOK'
  <2>1. channels[n][c] \in Chan /\ channels[n][c].peer \in Node
    BY <1>11, <1>p DEF ChannelLost
  <2>2. Restored(active[n], channels[n], {c}) \in 0 .. Blocks
    BY RestoredIsALoad
  <2>3. channels' \in [Node -> [Channel -> Chan]]
        /\ \A k \in Node, d \in Channel :
             channels'[k][d].state = "IDLE" <=> channels'[k][d].peer = NoNode
    BY <1>11, <1>b, <1>c DEF ChannelLost
  <2> QED
    BY <1>11, <2>1, <2>2, <2>3 DEF ChannelLost
<1>12. ASSUME NEW n \in Node, Search(n) PROVE TypeOK'
  BY <1>12, SearchShape
<1>13. ASSUME NEW n \in Node, Claim(n) PROVE TypeOK'
  <2>1. PICK m \in Node, y \in Chan : ClaimMakes(n, m, y)
    BY <1>13, ClaimShape
  <2>2. channels' \in [Node -> [Channel -> Chan]]
        /\ \A k \in Node, d \in Channel :
             channels'[k][d].state = "IDLE" <=> channels'[k][d].peer = NoNode
    BY <1>b, <2>1 DEF ClaimMakes
  <2>3. forgot' \in [Node -> SUBSET Node]
    <3>1. asking[n].slot \in Channel
      BY <2>1 DEF ClaimMakes
    <3>2. channels[n][asking[n].slot].state = "HOSTING" => channels[n][asking[n].slot].peer \in Node
      BY <1>p, <3>1
    <3>3. Overwritten(channels[n][asking[n].slot]) \in SUBSET Node
      BY <3>2 DEF Overwritten
    <3> QED
      BY <2>1, <3>3 DEF ClaimMakes
  <2>4. msgs' \subseteq Request \cup Reply
    BY <2>1 DEF ClaimMakes
  <2>5. asking' \in [Node -> Asking] /\ \A k \in Node : asking'[k].who # {} => asking'[k].share # 0
    BY <2>1 DEF ClaimMakes, AsksNext
  <2> QED
    BY <1>13, <2>2, <2>3, <2>4, <2>5 DEF Claim
<1>14. CASE UNCHANGED vars
  BY <1>14 DEF vars
<1> QED
  BY <1>1, <1>2, <1>3, <1>4, <1>5, <1>6, <1>7, <1>8, <1>9, <1>10, <1>11, <1>12, <1>13, <1>14
     DEF Next, Manages

\* Whatever the handlers do, every variable keeps its type.
THEOREM TypeCorrect == Spec => []TypeOK
<1>1. Init => TypeOK
  BY Constants, DelegationConstants DEF Init, TypeOK, Idle, As, Done, Asking
<1> QED
  BY <1>1, TypeKept, PTL DEF Spec
-----------------------------------------------------------------------------
\* The strengthening: a peer still to be asked is not asked, nor delegated to, yet.
AskedAreNew ==
  \A n \in Node : \A m \in asking[n].who, c \in Serving(n) : channels[n][c].peer # m

SoleInv == OneChannelPerPeer /\ AskedAreNew

\* A step that opens no channel and asks no peer leaves no two to one peer.
LEMMA NoneAdded ==
  ASSUME SoleInv,
         \A n \in Node, c \in Channel : channels'[n][c].state \in {"REQUESTING", "ACTIVE"} =>
           /\ channels[n][c].state \in {"REQUESTING", "ACTIVE"}
           /\ channels'[n][c].peer = channels[n][c].peer,
         \A n \in Node : asking'[n].who \subseteq asking[n].who
  PROVE  SoleInv'
BY DEF SoleInv, OneChannelPerPeer, AskedAreNew, Serving, Is

LEMMA SoleKept == TypeOK /\ SoleInv /\ [Next]_vars => SoleInv'
<1> SUFFICES ASSUME TypeOK, SoleInv, [Next]_vars PROVE SoleInv'
  OBVIOUS
<1>t. channels \in [Node -> [Channel -> Chan]] /\ asking \in [Node -> Asking]
  BY DEF TypeOK
<1>i. Idle.state = "IDLE"
  BY DEF Idle, As
<1>1. CASE UNCHANGED <<channels, asking>>
  BY <1>1, NoneAdded
<1>2. ASSUME NEW n \in Node, Crash(n) PROVE SoleInv'
  <2>1. channels' = [channels EXCEPT ![n] = [c \in Channel |-> Idle]]
    BY <1>2 DEF Crash
  <2>2. \A k \in Node : asking'[k].who \subseteq asking[k].who
    BY <1>t, <1>2 DEF Crash, Done
  <2> QED
    BY <1>t, <1>i, <2>1, <2>2, NoneAdded
<1>3. ASSUME NEW n \in Node, ManagerPass(n) PROVE SoleInv'
  <2>1. PICK closed \in SUBSET Is(channels[n], "ACTIVE"), ended \in SUBSET Is(channels[n], "HOSTING"),
             ch \in [Channel -> Chan] : PassMakes(n, closed, ended, ch)
    BY <1>3, PassShape
  <2>2. channels'[n] = ch /\ \A k \in Node \ {n} : channels'[k] = channels[k] /\ asking'[k] = asking[k]
    BY <1>t, <2>1 DEF PassMakes, AsksNext
  <2>3. ASSUME NEW c \in Serving(n)', NEW d \in Serving(n)', ch[c].peer = ch[d].peer
        PROVE  c = d
    <3>1. Same(channels[n][c], ch[c]) /\ Same(channels[n][d], ch[d])
      BY <1>i, <2>1, <2>2 DEF PassMakes, Serving, Is
    <3> QED
      BY <2>2, <2>3, <3>1 DEF Same, SoleInv, OneChannelPerPeer, Serving, Is
  <2>4. \A m \in asking'[n].who, c \in Serving(n)' : channels'[n][c].peer # m
    BY <2>1, <2>2 DEF PassMakes, Serving, Is
  <2>5. \A k \in Node \ {n} :
          /\ \A c, d \in Serving(k)' : channels'[k][c].peer = channels'[k][d].peer => c = d
          /\ \A m \in asking'[k].who, c \in Serving(k)' : channels'[k][c].peer # m
    BY <2>2 DEF SoleInv, OneChannelPerPeer, AskedAreNew, Serving, Is
  <2> QED
    BY <2>2, <2>3, <2>4, <2>5 DEF SoleInv, OneChannelPerPeer, AskedAreNew
<1>4. ASSUME NEW x \in msgs, HandleRequest(x) PROVE SoleInv'
  <2>a. UNCHANGED asking
    BY <1>4 DEF HandleRequest
  <2>1. CASE UNCHANGED channels
    BY <2>a, <2>1, NoneAdded
  <2>2. ASSUME NEW c \in Channel, NEW y \in Chan, y.state = "HOSTING",
               channels' = [channels EXCEPT ![x.to][c] = y], x.to \in Node
        PROVE  SoleInv'
    BY <1>t, <2>a, <2>2, NoneAdded
  <2>3. x.to \in Node
    BY <1>4, RequestShape
  <2>4. \/ /\ UNCHANGED <<channels, forgot>>
           /\ msgs' \subseteq msgs \cup {[type |-> "reject", from |-> x.to, to |-> x.from]}
        \/ /\ msgs' \subseteq msgs \cup {[type |-> "accept", from |-> x.to, to |-> x.from]}
           /\ forgot' = [forgot EXCEPT ![x.to] = @ \ {x.from}]
           /\ \E c \in Channel, y \in Chan :
                /\ y.state = "HOSTING" /\ y.peer = x.from
                /\ channels' = [channels EXCEPT ![x.to][c] = y]
    BY <1>4, RequestShape
  <2> QED
    BY <2>1, <2>2, <2>3, <2>4
<1>5. ASSUME NEW x \in msgs, HandleAccept(x) PROVE SoleInv'
  <2>a. UNCHANGED asking
    BY <1>5 DEF HandleAccept
  <2>1. CASE UNCHANGED channels
    BY <2>a, <2>1, NoneAdded
  <2>2. ASSUME NEW c \in Channel, NEW y \in Chan, AcceptMakes(x.to, x.from, c, y), x.to \in Node
        PROVE  SoleInv'
    BY <1>t, <1>i, <2>a, <2>2, NoneAdded DEF AcceptMakes
  <2> QED
    BY <1>5, <2>1, <2>2, AcceptShape
<1>6. ASSUME NEW x \in msgs, HandleReject(x) PROVE SoleInv'
  <2>1. x.to \in Node
    BY <1>6 DEF HandleReject, TypeOK, Request, Reply
  <2>2. channels' = [channels EXCEPT ![x.to] =
          [c \in Channel |-> IF c \in Asked(x.to, x.from) THEN Idle ELSE channels[x.to][c]]]
    BY <1>6, <1>t, <2>1 DEF HandleReject
  <2>3. UNCHANGED asking
    BY <1>6 DEF HandleReject
  <2> QED
    BY <1>t, <1>i, <2>1, <2>2, <2>3, NoneAdded
<1>7. ASSUME NEW n \in Node, NEW c \in Channel, ChannelLost(n, c) PROVE SoleInv'
  <2>1. channels' = [channels EXCEPT ![n][c] = Idle] /\ UNCHANGED asking
    BY <1>7 DEF ChannelLost
  <2> QED
    BY <1>t, <1>i, <2>1, NoneAdded
<1>8. ASSUME NEW n \in Node, Search(n) PROVE SoleInv'
  BY <1>8, SearchShape, NoneAdded
<1>9. ASSUME NEW n \in Node, Claim(n) PROVE SoleInv'
  <2>1. PICK m \in Node, y \in Chan : ClaimMakes(n, m, y)
    BY <1>9, ClaimShape
  <2> DEFINE s == asking[n].slot
  <2>2. /\ s \in Channel /\ m \in asking[n].who /\ y.peer = m
        /\ channels'[n][s] = y /\ \A c \in Channel \ {s} : channels'[n][c] = channels[n][c]
        /\ \A k \in Node \ {n} : channels'[k] = channels[k] /\ asking'[k] = asking[k]
        /\ asking'[n].who = asking[n].who \ {m}
    BY <1>t, <2>1 DEF ClaimMakes, AsksNext
  <2> HIDE DEF s
  <2>3. \A c \in Serving(n)' \ {s} : c \in Serving(n) /\ channels'[n][c].peer = channels[n][c].peer
    BY <2>2 DEF Serving, Is
  <2>4. \A c \in Serving(n) : channels[n][c].peer \notin asking[n].who
    BY DEF SoleInv, AskedAreNew
  <2>5. \A c, d \in Serving(n)' : channels'[n][c].peer = channels'[n][d].peer => c = d
    BY <2>2, <2>3, <2>4 DEF SoleInv, OneChannelPerPeer
  <2>6. \A p \in asking'[n].who, c \in Serving(n)' : channels'[n][c].peer # p
    BY <2>2, <2>3, <2>4
  <2>7. \A k \in Node \ {n} :
          /\ \A c, d \in Serving(k)' : channels'[k][c].peer = channels'[k][d].peer => c = d
          /\ \A p \in asking'[k].who, c \in Serving(k)' : channels'[k][c].peer # p
    BY <2>2 DEF SoleInv, OneChannelPerPeer, AskedAreNew, Serving, Is
  <2> QED
    BY <2>5, <2>6, <2>7 DEF SoleInv, OneChannelPerPeer, AskedAreNew
<1>10. CASE UNCHANGED vars
  BY <1>1, <1>10 DEF vars
<1> QED
  BY <1>1, <1>2, <1>3, <1>4, <1>5, <1>6, <1>7, <1>8, <1>9, <1>10
     DEF Next, Manages, Telemetry, PeerSilent, Lose, Restart, SetBlocks

\* A node never has two channels towards one peer, whatever the order of
\* answers, timeouts and losses.
THEOREM SoleChannel == Spec => []OneChannelPerPeer
<1>1. Init => SoleInv
  BY DEF Init, SoleInv, OneChannelPerPeer, AskedAreNew, Serving, Is, Idle, As, Done
<1>2. SoleInv => OneChannelPerPeer
  BY DEF SoleInv
<1> QED
  BY <1>1, <1>2, SoleKept, TypeCorrect, PTL DEF Spec
-----------------------------------------------------------------------------
\* m spends a slot on n, or has dropped n since it last agreed.
Agreed(m, n) == Hosts(m, n) \/ n \in forgot[m]

\* The strengthening: an acceptance on its way is of an agreement that stands.
AcceptIsHosted == \A x \in msgs : x.type = "accept" => Agreed(x.from, x.to)

AgreementInv == ActiveIsHosted /\ AcceptIsHosted

\* A host ends an agreement by dropping the delegator only.
LEMMA AgreedKept ==
  ASSUME TypeOK, [Next]_vars, NEW m \in Node, NEW n \in Node, Agreed(m, n)
  PROVE  Agreed(m, n)'
<1>t. channels \in [Node -> [Channel -> Chan]] /\ forgot \in [Node -> SUBSET Node]
  BY DEF TypeOK
<1>h. ASSUME forgot[m] \subseteq forgot'[m],
             \A c \in Channel : channels[m][c].state = "HOSTING" =>
               \/ channels'[m][c] = channels[m][c]
               \/ channels[m][c].peer \in forgot'[m]
      PROVE  Agreed(m, n)'
  BY <1>h DEF Agreed, Hosts, Is
<1>1. CASE UNCHANGED <<channels, forgot>>
  BY <1>1, <1>h
<1>2. ASSUME NEW k \in Node, Crash(k) PROVE Agreed(m, n)'
  <2>1. channels' = [channels EXCEPT ![k] = [c \in Channel |-> Idle]]
        /\ forgot' = [forgot EXCEPT ![k] = Node]
    BY <1>2 DEF Crash
  <2>2. CASE k = m
    BY <1>t, <2>1, <2>2 DEF Agreed
  <2>3. CASE k # m
    BY <1>t, <1>h, <2>1, <2>3
  <2> QED
    BY <2>2, <2>3
<1>3. ASSUME NEW k \in Node, ManagerPass(k) PROVE Agreed(m, n)'
  <2>1. PICK closed \in SUBSET Is(channels[k], "ACTIVE"), ended \in SUBSET Is(channels[k], "HOSTING"),
             ch \in [Channel -> Chan] : PassMakes(k, closed, ended, ch)
    BY <1>3, PassShape
  <2>2. /\ channels' = [channels EXCEPT ![k] = ch]
        /\ forgot' = [forgot EXCEPT ![k] = @ \cup {channels[k][c].peer : c \in ended}]
    BY <2>1 DEF PassMakes
  <2>3. CASE k = m
    <3>1. forgot'[m] = forgot[m] \cup {channels[m][c].peer : c \in ended}
      BY <1>t, <2>2, <2>3
    <3>2. ASSUME NEW c \in Channel, channels[m][c].state = "HOSTING"
          PROVE  channels'[m][c] = channels[m][c] \/ channels[m][c].peer \in forgot'[m]
      <4>1. CASE c \in ended
        BY <3>1, <4>1
      <4>2. CASE c \notin ended
        <5>1. ch[c] = channels[m][c]
          BY <2>1, <2>3, <3>2, <4>2 DEF PassMakes
        <5> QED
          BY <1>t, <2>2, <2>3, <5>1
      <4> QED
        BY <4>1, <4>2
    <3> QED
      BY <1>h, <3>1, <3>2
  <2>4. CASE k # m
    BY <1>t, <1>h, <2>2, <2>4
  <2> QED
    BY <2>3, <2>4
<1>4. ASSUME NEW x \in msgs, HandleRequest(x) PROVE Agreed(m, n)'
  <2>1. ASSUME NEW c \in Channel, NEW y \in Chan, x.to \in Node, x.from \in Node,
               channels[x.to][c].state = "IDLE", y.state = "HOSTING", y.peer = x.from,
               channels' = [channels EXCEPT ![x.to][c] = y],
               forgot' = [forgot EXCEPT ![x.to] = @ \ {x.from}]
        PROVE  Agreed(m, n)'
    <3>1. \A d \in Channel : channels[m][d].state = "HOSTING" => channels'[m][d] = channels[m][d]
      BY <1>t, <2>1
    <3>2. Hosts(m, n) => Hosts(m, n)'
      BY <3>1 DEF Hosts, Is
    <3>3. x.to = m => channels'[m][c] = y
      BY <1>t, <2>1
    <3>4. n \in forgot[m] => n \in forgot'[m] \/ Hosts(m, n)'
      <4>1. CASE x.to = m /\ x.from = n
        BY <2>1, <3>3, <4>1 DEF Hosts, Is
      <4>2. CASE ~(x.to = m /\ x.from = n)
        BY <1>t, <2>1, <4>2
      <4> QED
        BY <4>1, <4>2
    <3> QED
      BY <3>2, <3>4 DEF Agreed
  <2> QED
    BY <1>1, <1>4, <2>1, RequestShape
<1>5. ASSUME NEW x \in msgs, HandleAccept(x) PROVE Agreed(m, n)'
  <2>1. ASSUME NEW c \in Channel, NEW y \in Chan, AcceptMakes(x.to, x.from, c, y), x.to \in Node,
               UNCHANGED forgot
        PROVE  Agreed(m, n)'
    BY <1>t, <1>h, <2>1 DEF AcceptMakes
  <2> QED
    BY <1>1, <1>5, <2>1, AcceptShape
<1>6. ASSUME NEW x \in msgs, HandleReject(x) PROVE Agreed(m, n)'
  <2>1. x.to \in Node /\ UNCHANGED forgot
    BY <1>6 DEF HandleReject, TypeOK, Request, Reply
  <2>2. channels' = [channels EXCEPT ![x.to] =
          [c \in Channel |-> IF c \in Asked(x.to, x.from) THEN Idle ELSE channels[x.to][c]]]
    BY <1>6, <1>t, <2>1 DEF HandleReject
  <2>3. \A c \in Asked(x.to, x.from) : channels[x.to][c].state = "REQUESTING"
    BY DEF Asked, First, Is
  <2> QED
    BY <1>t, <1>h, <2>1, <2>2, <2>3
<1>7. ASSUME NEW k \in Node, NEW c \in Channel, ChannelLost(k, c) PROVE Agreed(m, n)'
  <2>1. channels' = [channels EXCEPT ![k][c] = Idle] /\ channels[k][c].state = "ACTIVE" /\ UNCHANGED forgot
    BY <1>7 DEF ChannelLost
  <2> QED
    BY <1>t, <1>h, <2>1
<1>8. ASSUME NEW k \in Node, Claim(k) PROVE Agreed(m, n)'
  <2>1. PICK p \in Node, y \in Chan : ClaimMakes(k, p, y)
    BY <1>8, ClaimShape
  <2> DEFINE s == asking[k].slot
  <2>2. /\ s \in Channel
        /\ channels' = [channels EXCEPT ![k][s] = y]
        /\ forgot' = [forgot EXCEPT ![k] = @ \cup Overwritten(channels[k][s])]
    BY <2>1 DEF ClaimMakes
  <2> HIDE DEF s
  <2> QED
    BY <1>t, <1>h, <2>2 DEF Overwritten
<1>9. CASE UNCHANGED vars
  BY <1>1, <1>9 DEF vars
<1> QED
  BY <1>1, <1>2, <1>3, <1>4, <1>5, <1>6, <1>7, <1>8, <1>9
     DEF Next, Manages, Search, Telemetry, PeerSilent, Lose, Restart, SetBlocks

LEMMA AgreementKept == TypeOK /\ AgreementInv /\ [Next]_vars => AgreementInv'
<1> SUFFICES ASSUME TypeOK, AgreementInv, [Next]_vars PROVE AgreementInv'
  OBVIOUS
<1>t. /\ channels \in [Node -> [Channel -> Chan]]
      /\ \A n \in Node, c \in Channel :
           channels[n][c].state # "IDLE" => channels[n][c].peer \in Node
      /\ \A x \in msgs : x.from \in Node /\ x.to \in Node
  BY DEF TypeOK, Chan, Request, Reply
<1>k. \A m, n \in Node : Agreed(m, n) => Agreed(m, n)'
  BY AgreedKept
<1>i. Idle.state = "IDLE"
  BY DEF Idle, As
\* A channel ACTIVE after the step was ACTIVE before it, or its peer had agreed.
<1>a. ASSUME \A n \in Node, c \in Channel : channels'[n][c].state = "ACTIVE" =>
               /\ channels'[n][c].peer \in Node
               /\ \/ channels[n][c].state = "ACTIVE" /\ channels'[n][c].peer = channels[n][c].peer
                  \/ Agreed(channels'[n][c].peer, n)
      PROVE  ActiveIsHosted'
  <2>1. ASSUME NEW n \in Node, NEW c \in Channel, NEW m \in Node,
               channels'[n][c].state = "ACTIVE", channels'[n][c].peer = m
        PROVE  Agreed(m, n)'
    <3>1. Agreed(m, n)
      BY <1>a, <2>1 DEF AgreementInv, ActiveIsHosted, Agreed, Is
    <3> QED
      BY <1>k, <3>1
  <2> QED
    BY <1>a, <2>1 DEF ActiveIsHosted, Agreed, Is
<1>b. ASSUME \A x \in msgs' : x \in msgs \/ x.type # "accept"
      PROVE  AcceptIsHosted'
  BY <1>b, <1>t, <1>k DEF AgreementInv, AcceptIsHosted
<1>1. CASE UNCHANGED channels /\ msgs' \subseteq msgs
  BY <1>1, <1>a, <1>b, <1>t DEF AgreementInv
<1>2. ASSUME NEW k \in Node, Crash(k) PROVE AgreementInv'
  <2>1. channels' = [channels EXCEPT ![k] = [c \in Channel |-> Idle]] /\ msgs' \subseteq msgs
    BY <1>2 DEF Crash
  <2>2. ActiveIsHosted'
    BY <1>t, <1>i, <1>a, <2>1
  <2> QED
    BY <1>b, <2>1, <2>2 DEF AgreementInv
<1>3. ASSUME NEW k \in Node, ManagerPass(k) PROVE AgreementInv'
  <2>1. PICK closed \in SUBSET Is(channels[k], "ACTIVE"), ended \in SUBSET Is(channels[k], "HOSTING"),
             ch \in [Channel -> Chan] : PassMakes(k, closed, ended, ch)
    BY <1>3, PassShape
  <2>2. channels' = [channels EXCEPT ![k] = ch] /\ msgs' = msgs
    BY <2>1 DEF PassMakes
  <2>3. ASSUME NEW c \in Channel, ch[c].state = "ACTIVE" PROVE Same(channels[k][c], ch[c])
    BY <1>i, <2>1, <2>3 DEF PassMakes, Same
  <2>4. ActiveIsHosted'
    <3>1. \A n \in Node, c \in Channel : channels'[n][c].state = "ACTIVE" =>
            channels[n][c].state = "ACTIVE" /\ channels'[n][c].peer = channels[n][c].peer
      BY <1>t, <2>2, <2>3 DEF Same
    <3> QED
      BY <1>a, <1>t, <3>1
  <2> QED
    BY <1>b, <2>2, <2>4 DEF AgreementInv
<1>4. ASSUME NEW x \in msgs, HandleRequest(x) PROVE AgreementInv'
  <2>1. CASE /\ UNCHANGED channels
             /\ msgs' \subseteq msgs \cup {[type |-> "reject", from |-> x.to, to |-> x.from]}
    <3>1. \A y \in msgs' : y \in msgs \/ y.type # "accept"
      BY <2>1
    <3> QED
      BY <1>a, <1>b, <1>t, <2>1, <3>1 DEF AgreementInv
  <2>2. ASSUME NEW c \in Channel, NEW y \in Chan, x.to \in Node, x.from \in Node,
               y.state = "HOSTING", y.peer = x.from,
               channels' = [channels EXCEPT ![x.to][c] = y],
               msgs' \subseteq msgs \cup {[type |-> "accept", from |-> x.to, to |-> x.from]}
        PROVE  AgreementInv'
    <3>1. \A n \in Node, d \in Channel : channels'[n][d].state = "ACTIVE" =>
            channels[n][d].state = "ACTIVE" /\ channels'[n][d].peer = channels[n][d].peer
      BY <1>t, <2>2
    <3>2. ActiveIsHosted'
      BY <1>a, <1>t, <3>1
    <3>3. channels'[x.to][c] = y
      BY <1>t, <2>2
    <3>4. Agreed(x.to, x.from)'
      BY <2>2, <3>3 DEF Agreed, Hosts, Is
    <3>5. AcceptIsHosted'
      <4>1. ASSUME NEW z \in msgs', z.type = "accept" PROVE Agreed(z.from, z.to)'
        <5>1. CASE z \in msgs
          BY <1>t, <1>k, <4>1, <5>1 DEF AgreementInv, AcceptIsHosted
        <5>2. CASE z = [type |-> "accept", from |-> x.to, to |-> x.from]
          <6>1. z.from = x.to /\ z.to = x.from
            BY <5>2
          <6> QED
            BY <3>4, <6>1
        <5> QED
          BY <2>2, <5>1, <5>2
      <4> QED
        BY <4>1 DEF AcceptIsHosted
    <3> QED
      BY <3>2, <3>5 DEF AgreementInv
  <2>3. \/ /\ UNCHANGED channels
           /\ msgs' \subseteq msgs \cup {[type |-> "reject", from |-> x.to, to |-> x.from]}
        \/ \E c \in Channel, y \in Chan :
             /\ x.to \in Node /\ x.from \in Node
             /\ y.state = "HOSTING" /\ y.peer = x.from
             /\ channels' = [channels EXCEPT ![x.to][c] = y]
             /\ msgs' \subseteq msgs \cup {[type |-> "accept", from |-> x.to, to |-> x.from]}
    BY <1>4, RequestShape
  <2> QED
    BY <2>1, <2>2, <2>3
<1>5. ASSUME NEW x \in msgs, HandleAccept(x) PROVE AgreementInv'
  <2>1. msgs' \subseteq msgs /\ x.type = "accept" /\ x.to \in Node /\ x.from \in Node
    BY <1>5, AcceptShape
  <2>2. ASSUME NEW c \in Channel, NEW y \in Chan, AcceptMakes(x.to, x.from, c, y)
        PROVE  ActiveIsHosted'
    <3>1. channels' = [channels EXCEPT ![x.to][c] = y]
          /\ (y.state = "ACTIVE" => y.peer = x.from)
      BY <1>i, <2>2 DEF AcceptMakes
    <3>2. Agreed(x.from, x.to)
      BY <2>1 DEF AgreementInv, AcceptIsHosted
    <3>3. ASSUME NEW n \in Node, NEW d \in Channel, channels'[n][d].state = "ACTIVE"
          PROVE  /\ channels'[n][d].peer \in Node
                 /\ \/ channels[n][d].state = "ACTIVE" /\ channels'[n][d].peer = channels[n][d].peer
                    \/ Agreed(channels'[n][d].peer, n)
      <4>1. CASE n = x.to /\ d = c
        <5>1. channels'[n][d] = y
          BY <1>t, <3>1, <4>1
        <5> QED
          BY <2>1, <3>1, <3>2, <3>3, <4>1, <5>1
      <4>2. CASE ~(n = x.to /\ d = c)
        <5>1. channels'[n][d] = channels[n][d]
          BY <1>t, <3>1, <4>2
        <5> QED
          BY <1>t, <3>3, <5>1
      <4> QED
        BY <4>1, <4>2
    <3> QED
      BY <1>a, <3>3
  <2>3. AcceptIsHosted'
    BY <1>b, <2>1
  <2>4. CASE UNCHANGED channels
    BY <1>1, <2>1, <2>4
  <2> QED
    BY <1>5, <2>2, <2>3, <2>4, AcceptShape DEF AgreementInv
<1>6. ASSUME NEW x \in msgs, HandleReject(x) PROVE AgreementInv'
  <2>1. channels' = [channels EXCEPT ![x.to] =
          [c \in Channel |-> IF c \in Asked(x.to, x.from) THEN Idle ELSE channels[x.to][c]]]
        /\ msgs' \subseteq msgs
    BY <1>6, <1>t DEF HandleReject
  <2>2. \A n \in Node, d \in Channel : channels'[n][d].state = "ACTIVE" =>
          channels[n][d].state = "ACTIVE" /\ channels'[n][d].peer = channels[n][d].peer
    BY <1>t, <1>i, <2>1
  <2> QED
    BY <1>a, <1>b, <1>t, <2>1, <2>2 DEF AgreementInv
<1>7. ASSUME NEW k \in Node, NEW c \in Channel, ChannelLost(k, c) PROVE AgreementInv'
  <2>1. channels' = [channels EXCEPT ![k][c] = Idle] /\ msgs' \subseteq msgs
    BY <1>7 DEF ChannelLost
  <2>2. \A n \in Node, d \in Channel : channels'[n][d].state = "ACTIVE" =>
          channels[n][d].state = "ACTIVE" /\ channels'[n][d].peer = channels[n][d].peer
    BY <1>t, <1>i, <2>1
  <2> QED
    BY <1>a, <1>b, <1>t, <2>1, <2>2 DEF AgreementInv
<1>8. ASSUME NEW k \in Node, Claim(k) PROVE AgreementInv'
  <2>1. PICK p \in Node, y \in Chan : ClaimMakes(k, p, y)
    BY <1>8, ClaimShape
  <2> DEFINE s == asking[k].slot
  <2>2. /\ s \in Channel /\ y.state = "REQUESTING"
        /\ channels' = [channels EXCEPT ![k][s] = y]
        /\ msgs' \subseteq msgs \cup Request
    BY <2>1 DEF ClaimMakes
  <2> HIDE DEF s
  <2>3. \A n \in Node, d \in Channel : channels'[n][d].state = "ACTIVE" =>
          channels[n][d].state = "ACTIVE" /\ channels'[n][d].peer = channels[n][d].peer
    BY <1>t, <2>2
  <2>4. \A x \in msgs' : x \in msgs \/ x.type # "accept"
    BY <2>2 DEF Request
  <2> QED
    BY <1>a, <1>b, <1>t, <2>3, <2>4 DEF AgreementInv
<1>9. CASE UNCHANGED vars
  BY <1>1, <1>9 DEF vars
<1> QED
  BY <1>1, <1>2, <1>3, <1>4, <1>5, <1>6, <1>7, <1>8, <1>9
     DEF Next, Manages, Search, Telemetry, PeerSilent, Lose, Restart, SetBlocks

\* A channel is ACTIVE towards a node only while that node spends a slot on it,
\* or has crashed, dropped the delegator or claimed its slot for a request of its
\* own since it agreed.
THEOREM Agreement == Spec => []ActiveIsHosted
<1>1. Init => AgreementInv
  BY DEF Init, AgreementInv, ActiveIsHosted, AcceptIsHosted, Is, Idle, As
<1>2. AgreementInv => ActiveIsHosted
  BY DEF AgreementInv
<1> QED
  BY <1>1, <1>2, AgreementKept, TypeCorrect, PTL DEF Spec
-----------------------------------------------------------------------------
\* The blocks of two sets of channels add up.
LEMMA LentSplit ==
  ASSUME NEW ch, NEW C \in SUBSET Channel, NEW D \in SUBSET Channel, C \cap D = {}
  PROVE  Cardinality(Lent(ch, C \cup D)) = Cardinality(Lent(ch, C)) + Cardinality(Lent(ch, D))
<1>1. Lent(ch, C \cup D) = Lent(ch, C) \cup Lent(ch, D)
  BY DEF Lent
<1>2. Lent(ch, C) \cap Lent(ch, D) = {}
  BY DEF Lent
<1>3. /\ IsFiniteSet(Lent(ch, C)) /\ IsFiniteSet(Lent(ch, D))
      /\ Cardinality(Lent(ch, C)) \in Nat /\ Cardinality(Lent(ch, D)) \in Nat
  BY LentIsFinite
<1> DEFINE S == Lent(ch, C)
           T == Lent(ch, D)
<1>4. IsFiniteSet(S) /\ IsFiniteSet(T) /\ S \cap T = {}
      /\ Cardinality(S) \in Nat /\ Cardinality(T) \in Nat
  BY <1>2, <1>3
<1>5. Lent(ch, C \cup D) = S \cup T
  BY <1>1
<1> HIDE DEF S, T
<1>6. Cardinality(S \cup T) = Cardinality(S) + Cardinality(T) - Cardinality(S \cap T)
  BY <1>4, FS_Union
<1>7. Cardinality(S \cap T) = 0
  BY <1>4, FS_EmptySet
<1>8. Cardinality(S \cup T) = Cardinality(S) + Cardinality(T)
  BY <1>4, <1>6, <1>7
<1> QED
  BY <1>5, <1>8 DEF S, T

\* One channel lends the blocks it carries.
LEMMA LentByOne ==
  ASSUME NEW ch, NEW c \in Channel, ch[c].blocks \in 0 .. Blocks
  PROVE  Cardinality(Lent(ch, {c})) = ch[c].blocks
<1> DEFINE b == ch[c].blocks
<1>1. Lent(ch, {c}) = {c} \X (1 .. b)
  BY Constants DEF Lent
<1>2. b \in Nat
  BY Constants
<1> HIDE DEF b
<1>3. IsFiniteSet({c}) /\ Cardinality({c}) = 1
  BY FS_Singleton
<1>4. IsFiniteSet(1 .. b) /\ Cardinality(1 .. b) = b
  BY <1>2, FS_Interval
<1>5. Cardinality({c} \X (1 .. b)) = Cardinality({c}) * Cardinality(1 .. b)
  BY ONLY <1>3, <1>4, FS_Product
<1>6. Cardinality({c} \X (1 .. b)) = b
  BY <1>2, <1>3, <1>4, <1>5
<1>7. Cardinality(Lent(ch, {c})) = b
  BY <1>1, <1>6
<1> QED
  BY <1>7 DEF b

\* What is lent depends on the blocks of the channels alone.
LEMMA LentSame ==
  ASSUME NEW ch, NEW new, NEW C \in SUBSET Channel, \A c \in C : new[c].blocks = ch[c].blocks
  PROVE  Lent(new, C) = Lent(ch, C)
BY DEF Lent

Carried(n) == Is(channels[n], "ACTIVE")

LEMMA DelegatedIsNat == \A n : Delegated(n) \in Nat /\ Carried(n) \in SUBSET Channel
BY LentIsFinite DEF Delegated, Carried, Is

\* Node n keeps carrying its load when the channels of closed, which were ACTIVE,
\* return their blocks and no other channel changes.
LEMMA ClosedCovered ==
  ASSUME TypeOK, NEW n \in Node, active[n] + Delegated(n) >= wanted[n],
         NEW closed \in SUBSET Carried(n),
         Is(channels'[n], "ACTIVE") = Carried(n) \ closed,
         \A c \in Carried(n) \ closed : channels'[n][c].blocks = channels[n][c].blocks,
         active'[n] = Restored(active[n], channels[n], closed), wanted'[n] = wanted[n]
  PROVE  active'[n] + Delegated(n)' >= wanted'[n]
<1> DEFINE kept == Carried(n) \ closed
           c0 == Cardinality(Lent(channels[n], closed))
           k0 == Cardinality(Lent(channels[n], kept))
<1>1. closed \in SUBSET Channel /\ kept \in SUBSET Channel /\ closed \cap kept = {}
      /\ closed \cup kept = Carried(n)
  BY DelegatedIsNat
<1>2. Delegated(n) = c0 + k0 /\ c0 \in Nat /\ k0 \in Nat
  BY <1>1, LentSplit, LentIsFinite DEF Delegated, Carried
<1>3. Delegated(n)' = k0
  <2>1. Delegated(n)' = Cardinality(Lent(channels'[n], kept))
    BY DEF Delegated
  <2>2. Lent(channels'[n], kept) = Lent(channels[n], kept)
    BY <1>1, LentSame
  <2> QED
    BY <2>1, <2>2
<1>4. active[n] \in Nat /\ wanted[n] \in 0 .. Blocks
  BY DEF TypeOK
<1>5. active'[n] = Lesser(Blocks, active[n] + c0)
  BY DEF Restored
<1> HIDE DEF c0, k0
<1> QED
  BY <1>2, <1>3, <1>4, <1>5, Constants DEF Lesser

\* A node none of whose blocks move.
LEMMA SameCovered ==
  ASSUME NEW n \in Node, active[n] + Delegated(n) >= wanted[n],
         \A c \in Channel : /\ channels'[n][c].state = "ACTIVE" <=> channels[n][c].state = "ACTIVE"
                            /\ channels[n][c].state = "ACTIVE" =>
                                 channels'[n][c].blocks = channels[n][c].blocks,
         active'[n] = active[n], wanted'[n] = wanted[n]
  PROVE  active'[n] + Delegated(n)' >= wanted'[n]
<1>1. Is(channels'[n], "ACTIVE") = Carried(n)
  BY DEF Is, Carried
<1>2. \A c \in Carried(n) : channels'[n][c].blocks = channels[n][c].blocks
  BY DEF Is, Carried
<1>3. Lent(channels'[n], Carried(n)) = Lent(channels[n], Carried(n))
  BY <1>2, DelegatedIsNat, LentSame
<1>4. Delegated(n)' = Delegated(n)
  BY <1>1, <1>3 DEF Delegated, Carried
<1> QED
  BY <1>4

\* The strengthening: the slot found for a request is idle still, or MQTT has made
\* it host; it never carries blocks.
FoundIsSpare ==
  \A n \in Node : asking[n].slot \in Channel =>
    channels[n][asking[n].slot].state \in {"IDLE", "HOSTING"}

LEMMA SpareKept == TypeOK /\ FoundIsSpare /\ [Next]_vars => FoundIsSpare'
<1> SUFFICES ASSUME TypeOK, FoundIsSpare, [Next]_vars PROVE FoundIsSpare'
  OBVIOUS
<1>t. channels \in [Node -> [Channel -> Chan]] /\ asking \in [Node -> Asking]
  BY DEF TypeOK
<1>i. Idle.state = "IDLE"
  BY DEF Idle, As
<1>n. NumChannels \notin Channel
  BY DelegationConstants DEF Channel
\* A spare channel stays spare, and a slot is found only in an idle one.
<1>a. ASSUME \A n \in Node : \/ asking'[n].slot = asking[n].slot
                             \/ asking'[n].slot \in Channel =>
                                  channels[n][asking'[n].slot].state = "IDLE",
             \A n \in Node, c \in Channel : channels[n][c].state \in {"IDLE", "HOSTING"} =>
               channels'[n][c].state \in {"IDLE", "HOSTING"}
      PROVE  FoundIsSpare'
  BY <1>a DEF FoundIsSpare
<1>1. CASE UNCHANGED <<channels, asking>>
  BY <1>1, <1>a
<1>2. ASSUME NEW n \in Node, Crash(n) PROVE FoundIsSpare'
  <2>1. channels' = [channels EXCEPT ![n] = [c \in Channel |-> Idle]]
        /\ asking' = [asking EXCEPT ![n] = Done]
    BY <1>2 DEF Crash
  <2>2. \A k \in Node : asking'[k].slot \in Channel => asking'[k].slot = asking[k].slot
    BY <1>t, <1>n, <2>1 DEF Done
  <2> QED
    BY <1>a, <1>t, <1>i, <2>1, <2>2
<1>3. ASSUME NEW n \in Node, ManagerPass(n) PROVE FoundIsSpare'
  <2>1. PICK closed \in SUBSET Is(channels[n], "ACTIVE"), ended \in SUBSET Is(channels[n], "HOSTING"),
             ch \in [Channel -> Chan] : PassMakes(n, closed, ended, ch)
    BY <1>3, PassShape
  <2>2. \A k \in Node : asking'[k].slot \in Channel => asking'[k].slot = asking[k].slot
    BY <1>n, <2>1 DEF PassMakes, AsksNext
  <2>3. \A k \in Node, c \in Channel : channels[k][c].state \in {"IDLE", "HOSTING"} =>
          channels'[k][c].state \in {"IDLE", "HOSTING"}
    BY <1>t, <1>i, <2>1 DEF PassMakes, Same
  <2> QED
    BY <1>a, <2>2, <2>3
<1>4. ASSUME NEW x \in msgs, HandleRequest(x) PROVE FoundIsSpare'
  <2>1. UNCHANGED asking
    BY <1>4 DEF HandleRequest
  <2>2. \/ UNCHANGED channels
        \/ \E c \in Channel, y \in Chan :
              /\ x.to \in Node /\ y.state = "HOSTING"
              /\ channels' = [channels EXCEPT ![x.to][c] = y]
    <3> HIDE DEF TypeOK
    <3>1. /\ x.to \in Node
          /\ \/ UNCHANGED <<channels, forgot>>
             \/ \E c \in Channel, y \in Chan :
                   /\ channels[x.to][c].state = "IDLE"
                   /\ y.state = "HOSTING" /\ y.peer = x.from
                   /\ channels' = [channels EXCEPT ![x.to][c] = y]
      BY <1>4, RequestShape
    <3> QED
      BY <3>1
  <2>3. \A n \in Node, c \in Channel : channels[n][c].state \in {"IDLE", "HOSTING"} =>
          channels'[n][c].state \in {"IDLE", "HOSTING"}
    <3>1. CASE UNCHANGED channels
      BY <3>1
    <3>2. ASSUME NEW c \in Channel, NEW y \in Chan, x.to \in Node, y.state = "HOSTING",
                 channels' = [channels EXCEPT ![x.to][c] = y], NEW n \in Node, NEW d \in Channel
          PROVE  channels'[n][d] = channels[n][d] \/ channels'[n][d].state = "HOSTING"
      BY <1>t, <3>2
    <3> QED
      BY <2>2, <3>1, <3>2
  <2> QED
    BY <1>a, <2>1, <2>3
<1>5. ASSUME NEW x \in msgs, HandleAccept(x) PROVE FoundIsSpare'
  <2>1. UNCHANGED asking /\ x.to \in Node
    BY <1>5, AcceptShape DEF HandleAccept
  <2>2. ASSUME NEW c \in Channel, NEW y \in Chan, AcceptMakes(x.to, x.from, c, y)
        PROVE  FoundIsSpare'
    <3>1. \A n \in Node, d \in Channel : channels[n][d].state \in {"IDLE", "HOSTING"} =>
            channels'[n][d] = channels[n][d]
      BY <1>t, <2>1, <2>2 DEF AcceptMakes
    <3> QED
      BY <1>a, <2>1, <3>1
  <2> QED
    BY <1>1, <1>5, <2>1, <2>2, AcceptShape
<1>6. ASSUME NEW x \in msgs, HandleReject(x) PROVE FoundIsSpare'
  <2>1. x.to \in Node /\ UNCHANGED asking
    BY <1>6 DEF HandleReject, TypeOK, Request, Reply
  <2>2. channels' = [channels EXCEPT ![x.to] =
          [c \in Channel |-> IF c \in Asked(x.to, x.from) THEN Idle ELSE channels[x.to][c]]]
    BY <1>6, <1>t, <2>1 DEF HandleReject
  <2>3. \A n \in Node, c \in Channel :
          channels'[n][c] = channels[n][c] \/ channels'[n][c] = Idle
    BY <1>t, <2>1, <2>2
  <2> QED
    BY <1>a, <1>i, <2>1, <2>3
<1>7. ASSUME NEW n \in Node, NEW c \in Channel, ChannelLost(n, c) PROVE FoundIsSpare'
  <2>1. channels' = [channels EXCEPT ![n][c] = Idle] /\ UNCHANGED asking
    BY <1>7 DEF ChannelLost
  <2> QED
    BY <1>t, <1>i, <1>a, <2>1
<1>8. ASSUME NEW n \in Node, Search(n) PROVE FoundIsSpare'
  BY <1>8, <1>a, <1>n, SearchShape
<1>9. ASSUME NEW n \in Node, Claim(n) PROVE FoundIsSpare'
  <2>1. PICK m \in Node, y \in Chan : ClaimMakes(n, m, y)
    BY <1>9, ClaimShape
  <2>2. asking'[n].slot = NumChannels
        /\ \A k \in Node \ {n} : asking'[k] = asking[k] /\ channels'[k] = channels[k]
    BY <1>t, <2>1 DEF ClaimMakes, AsksNext
  <2> QED
    BY <1>n, <2>2 DEF FoundIsSpare
<1>10. CASE UNCHANGED vars
  BY <1>1, <1>10 DEF vars
<1> QED
  BY <1>1, <1>2, <1>3, <1>4, <1>5, <1>6, <1>7, <1>8, <1>9, <1>10
     DEF Next, Manages, Telemetry, PeerSilent, Lose, Restart, SetBlocks

LEMMA CoveredKept == TypeOK /\ FoundIsSpare /\ BlocksCovered /\ [Next]_vars => BlocksCovered'
<1> SUFFICES ASSUME TypeOK, FoundIsSpare, BlocksCovered, [Next]_vars, NEW k \in Node
             PROVE  active'[k] + Delegated(k)' >= wanted'[k]
  BY DEF BlocksCovered
<1>t. /\ channels \in [Node -> [Channel -> Chan]]
      /\ active \in [Node -> 0 .. Blocks] /\ wanted \in [Node -> 0 .. Blocks]
  BY DEF TypeOK
<1>k. active[k] + Delegated(k) >= wanted[k]
  BY DEF BlocksCovered
<1>i. Idle.state = "IDLE"
  BY DEF Idle, As
<1>d. Delegated(k)' \in Nat
  BY LentIsFinite DEF Delegated, Is
<1>1. CASE UNCHANGED <<channels, active, wanted>>
  BY <1>1, <1>k, SameCovered
<1>2. ASSUME NEW n \in Node, Crash(n) PROVE active'[k] + Delegated(k)' >= wanted'[k]
  <2>1. /\ channels' = [channels EXCEPT ![n] = [c \in Channel |-> Idle]]
        /\ active' = [active EXCEPT ![n] = Blocks] /\ wanted' = [wanted EXCEPT ![n] = Blocks]
    BY <1>2 DEF Crash
  <2>2. CASE k = n
    <3>1. active'[k] = Blocks /\ wanted'[k] = Blocks
      BY <1>t, <2>1, <2>2
    <3> QED
      BY <1>d, <3>1, Constants
  <2>3. CASE k # n
    <3>1. channels'[k] = channels[k] /\ active'[k] = active[k] /\ wanted'[k] = wanted[k]
      BY <1>t, <2>1, <2>3
    <3> QED
      BY <1>k, <3>1, SameCovered
  <2> QED
    BY <2>2, <2>3
<1>3. ASSUME NEW n \in Node, ManagerPass(n) PROVE active'[k] + Delegated(k)' >= wanted'[k]
  <2>1. PICK closed \in SUBSET Is(channels[n], "ACTIVE"), ended \in SUBSET Is(channels[n], "HOSTING"),
             ch \in [Channel -> Chan] : PassMakes(n, closed, ended, ch)
    BY <1>3, PassShape
  <2>2. /\ channels' = [channels EXCEPT ![n] = ch]
        /\ active' = [active EXCEPT ![n] = Restored(active[n], channels[n], closed)]
        /\ UNCHANGED wanted
    BY <1>3, <2>1 DEF PassMakes, ManagerPass
  <2>3. CASE k = n
    <3>1. channels'[n] = ch /\ active'[n] = Restored(active[n], channels[n], closed)
      BY <1>t, <2>2
    <3>2. ASSUME NEW c \in Channel
          PROVE  /\ ch[c].state = "ACTIVE" => c \in Carried(n) \ closed
                 /\ c \in Carried(n) \ closed => Same(channels[n][c], ch[c])
      <4>1. /\ ch[c] = Idle \/ Same(channels[n][c], ch[c])
            /\ c \in closed => ch[c] = Idle
            /\ channels[n][c].state = "ACTIVE" /\ c \notin closed => Same(channels[n][c], ch[c])
        BY <2>1 DEF PassMakes
      <4> QED
        BY <1>i, <4>1 DEF Same, Carried, Is
    <3>3. Is(channels'[n], "ACTIVE") = Carried(n) \ closed
      BY <3>1, <3>2 DEF Same, Carried, Is
    <3>4. \A c \in Carried(n) \ closed : channels'[n][c].blocks = channels[n][c].blocks
      BY <3>1, <3>2 DEF Same, Carried, Is
    <3>5. closed \in SUBSET Carried(n)
      BY DEF Carried
    <3> QED
      BY <1>k, <2>2, <2>3, <3>1, <3>3, <3>4, <3>5, ClosedCovered
  <2>4. CASE k # n
    <3>1. channels'[k] = channels[k] /\ active'[k] = active[k] /\ wanted'[k] = wanted[k]
      BY <1>t, <2>2, <2>4
    <3> QED
      BY <1>k, <3>1, SameCovered
  <2> QED
    BY <2>3, <2>4
<1>4. ASSUME NEW n \in Node, NEW b \in 0 .. Blocks, SetBlocks(n, b)
      PROVE  active'[k] + Delegated(k)' >= wanted'[k]
  <2>1. /\ UNCHANGED channels
        /\ active' = [active EXCEPT ![n] = b] /\ wanted' = [wanted EXCEPT ![n] = b]
    BY <1>4 DEF SetBlocks
  <2>2. CASE k = n
    <3>1. active'[k] = b /\ wanted'[k] = b
      BY <1>t, <2>1, <2>2
    <3> QED
      BY <1>d, <3>1
  <2>3. CASE k # n
    <3>1. channels'[k] = channels[k] /\ active'[k] = active[k] /\ wanted'[k] = wanted[k]
      BY <1>t, <2>1, <2>3
    <3> QED
      BY <1>k, <3>1, SameCovered
  <2> QED
    BY <2>2, <2>3
<1>5. ASSUME NEW x \in msgs, HandleRequest(x) PROVE active'[k] + Delegated(k)' >= wanted'[k]
  <2>1. UNCHANGED <<active, wanted>>
    BY <1>5 DEF HandleRequest
  <2>2. \/ UNCHANGED channels
        \/ \E c \in Channel, y \in Chan :
              /\ x.to \in Node
              /\ channels[x.to][c].state = "IDLE" /\ y.state = "HOSTING"
              /\ channels' = [channels EXCEPT ![x.to][c] = y]
    <3> HIDE DEF TypeOK
    <3>1. /\ x.to \in Node
          /\ \/ UNCHANGED <<channels, forgot>>
             \/ \E c \in Channel, y \in Chan :
                   /\ channels[x.to][c].state = "IDLE"
                   /\ y.state = "HOSTING" /\ y.peer = x.from
                   /\ channels' = [channels EXCEPT ![x.to][c] = y]
      BY <1>5, RequestShape
    <3> QED
      BY <3>1
  <2>3. \A c \in Channel : /\ channels'[k][c].state = "ACTIVE" <=> channels[k][c].state = "ACTIVE"
                           /\ channels[k][c].state = "ACTIVE" =>
                                channels'[k][c].blocks = channels[k][c].blocks
    <3>1. CASE UNCHANGED channels
      BY <3>1
    <3>2. ASSUME NEW c \in Channel, NEW y \in Chan, x.to \in Node,
                 channels[x.to][c].state = "IDLE", y.state = "HOSTING",
                 channels' = [channels EXCEPT ![x.to][c] = y], NEW d \in Channel
          PROVE  /\ channels'[k][d].state = "ACTIVE" <=> channels[k][d].state = "ACTIVE"
                 /\ channels[k][d].state = "ACTIVE" =>
                      channels'[k][d].blocks = channels[k][d].blocks
      <4>1. CASE x.to = k /\ c = d
        <5>1. channels'[k][d] = y /\ channels[k][d].state = "IDLE"
          BY <1>t, <3>2, <4>1
        <5> QED
          BY <3>2, <5>1
      <4>2. CASE ~(x.to = k /\ c = d)
        <5>1. channels'[k][d] = channels[k][d]
          BY <1>t, <3>2, <4>2
        <5> QED
          BY <5>1
      <4> QED
        BY <4>1, <4>2
    <3> QED
      BY <2>2, <3>1, <3>2
  <2> QED
    BY <1>k, <2>1, <2>3, SameCovered
<1>6. ASSUME NEW x \in msgs, HandleAccept(x) PROVE active'[k] + Delegated(k)' >= wanted'[k]
  <2>1. UNCHANGED wanted /\ x.to \in Node
    BY <1>6, AcceptShape
  <2>2. ASSUME NEW c \in Channel, NEW y \in Chan, AcceptMakes(x.to, x.from, c, y)
        PROVE  active'[k] + Delegated(k)' >= wanted'[k]
    <3> DEFINE n == x.to
               b == channels[n][c].blocks
               left == Left(n, b)
    <3>1. /\ channels[n][c].state = "REQUESTING" /\ b \in 0 .. Blocks /\ left \in 0 .. Blocks
          /\ channels' = [channels EXCEPT ![n][c] = y]
          /\ \/ /\ y.state = "ACTIVE" /\ y.blocks = b
                /\ active' = [active EXCEPT ![n] = left]
             \/ /\ y = Idle
                /\ active' = [active EXCEPT ![n] = Restored(left, channels[n], {c})]
      BY <1>t, <2>1, <2>2 DEF AcceptMakes, Chan
    <3>2. left = IF active[n] - b >= 0 THEN active[n] - b ELSE 0
      BY <1>t, <2>1, <3>1 DEF Left, Greater
    <3>3. CASE k # n
      <4>1. channels'[k] = channels[k] /\ active'[k] = active[k] /\ wanted'[k] = wanted[k]
        BY <1>t, <2>1, <3>1, <3>3
      <4> QED
        BY <1>k, <4>1, SameCovered
    <3>4. CASE k = n /\ y.state = "ACTIVE" /\ y.blocks = b /\ active' = [active EXCEPT ![n] = left]
      <4>1. Is(channels'[n], "ACTIVE") = Carried(n) \cup {c} /\ c \notin Carried(n)
        BY <1>t, <2>1, <3>1, <3>4 DEF Is, Carried
      <4>2. Cardinality(Lent(channels'[n], Carried(n) \cup {c}))
              = Cardinality(Lent(channels'[n], Carried(n))) + Cardinality(Lent(channels'[n], {c}))
        BY <4>1, LentSplit, DelegatedIsNat
      <4>3. \A d \in Carried(n) : channels'[n][d].blocks = channels[n][d].blocks
        BY <1>t, <2>1, <3>1, <4>1 DEF Is, Carried
      <4>4. Lent(channels'[n], Carried(n)) = Lent(channels[n], Carried(n))
        BY <4>3, LentSame, DelegatedIsNat
      <4>5. channels'[n][c].blocks = b
        BY <1>t, <2>1, <3>1, <3>4
      <4>6. Cardinality(Lent(channels'[n], {c})) = b
        BY <3>1, <4>5, LentByOne
      <4>7. Delegated(n)' = Delegated(n) + b
        BY <4>1, <4>2, <4>4, <4>6 DEF Delegated, Carried
      <4>8. active'[n] = left /\ wanted'[n] = wanted[n] /\ active[n] \in Nat /\ wanted[n] \in Nat
        BY <1>t, <2>1, <3>4, Constants
      <4>9. Delegated(n) \in Nat
        BY DelegatedIsNat
      <4> HIDE DEF n, b, left
      <4> QED
        BY <1>k, <3>1, <3>2, <3>4, <4>7, <4>8, <4>9, Constants
    <3>5. CASE k = n /\ y = Idle
               /\ active' = [active EXCEPT ![n] = Restored(left, channels[n], {c})]
      <4>1. active'[n] = Lesser(Blocks, left + b)
        BY <1>t, <2>1, <3>1, <3>5, LentByOne DEF Restored
      <4>2. \A d \in Channel : /\ channels'[n][d].state = "ACTIVE" <=> channels[n][d].state = "ACTIVE"
                               /\ channels[n][d].state = "ACTIVE" =>
                                    channels'[n][d].blocks = channels[n][d].blocks
        BY <1>t, <1>i, <2>1, <3>1, <3>5
      <4>3. Is(channels'[n], "ACTIVE") = Carried(n) /\ Carried(n) \in SUBSET Channel
        BY <4>2 DEF Is, Carried
      <4>4. Lent(channels'[n], Carried(n)) = Lent(channels[n], Carried(n))
        BY <4>2, <4>3, LentSame DEF Is, Carried
      <4>5. Delegated(n)' = Delegated(n) /\ Delegated(n) \in Nat
        BY <4>3, <4>4, DelegatedIsNat DEF Delegated, Carried
      <4>6. active[n] \in 0 .. Blocks /\ wanted[n] \in 0 .. Blocks /\ wanted'[n] = wanted[n]
        BY <1>t, <2>1
      <4> HIDE DEF n, b, left
      <4> QED
        BY <1>k, <3>1, <3>2, <3>5, <4>1, <4>5, <4>6, Constants DEF Lesser
    <3> QED
      BY <3>1, <3>3, <3>4, <3>5
  <2> QED
    BY <1>1, <1>6, <2>1, <2>2, AcceptShape
<1>7. ASSUME NEW x \in msgs, HandleReject(x) PROVE active'[k] + Delegated(k)' >= wanted'[k]
  <2>1. UNCHANGED <<active, wanted>> /\ x.to \in Node
    BY <1>7 DEF HandleReject, TypeOK, Request, Reply
  <2>2. channels' = [channels EXCEPT ![x.to] =
          [c \in Channel |-> IF c \in Asked(x.to, x.from) THEN Idle ELSE channels[x.to][c]]]
    BY <1>7, <1>t, <2>1 DEF HandleReject
  <2>3. \A c \in Asked(x.to, x.from) : channels[x.to][c].state = "REQUESTING"
    BY DEF Asked, First, Is
  <2> DEFINE A == Asked(x.to, x.from)
  <2> HIDE DEF A
  <2>4. \A c \in Channel : \/ channels'[k][c] = channels[k][c]
                           \/ k = x.to /\ c \in A /\ channels'[k][c] = Idle
    BY <1>t, <2>1, <2>2 DEF A
  <2>5. \A c \in A : channels[x.to][c].state = "REQUESTING"
    BY <2>3 DEF A
  <2>6. \A c \in Channel : /\ channels'[k][c].state = "ACTIVE" <=> channels[k][c].state = "ACTIVE"
                           /\ channels[k][c].state = "ACTIVE" =>
                                channels'[k][c].blocks = channels[k][c].blocks
    BY <1>i, <2>4, <2>5
  <2> QED
    BY <1>k, <2>1, <2>6, SameCovered
<1>8. ASSUME NEW n \in Node, NEW c \in Channel, ChannelLost(n, c)
      PROVE  active'[k] + Delegated(k)' >= wanted'[k]
  <2>1. /\ channels[n][c].state = "ACTIVE" /\ channels' = [channels EXCEPT ![n][c] = Idle]
        /\ active' = [active EXCEPT ![n] = Restored(active[n], channels[n], {c})]
        /\ UNCHANGED wanted
    BY <1>8, <1>t DEF ChannelLost
  <2>2. CASE k = n
    <3>1. Is(channels'[n], "ACTIVE") = Carried(n) \ {c} /\ {c} \in SUBSET Carried(n)
      BY <1>t, <1>i, <2>1 DEF Is, Carried
    <3>2. \A d \in Carried(n) \ {c} : channels'[n][d].blocks = channels[n][d].blocks
      BY <1>t, <2>1 DEF Is, Carried
    <3>3. active'[n] = Restored(active[n], channels[n], {c})
      BY <1>t, <2>1
    <3> QED
      BY <1>k, <2>1, <2>2, <3>1, <3>2, <3>3, ClosedCovered
  <2>3. CASE k # n
    <3>1. channels'[k] = channels[k] /\ active'[k] = active[k] /\ wanted'[k] = wanted[k]
      BY <1>t, <2>1, <2>3
    <3> QED
      BY <1>k, <3>1, SameCovered
  <2> QED
    BY <2>2, <2>3
<1>9. ASSUME NEW n \in Node, Claim(n) PROVE active'[k] + Delegated(k)' >= wanted'[k]
  <2>1. PICK m \in Node, y \in Chan : ClaimMakes(n, m, y)
    BY <1>9, ClaimShape
  <2> DEFINE s == asking[n].slot
  <2>2. /\ s \in Channel /\ y.state = "REQUESTING"
        /\ channels' = [channels EXCEPT ![n][s] = y] /\ UNCHANGED <<active, wanted>>
    BY <1>9, <2>1 DEF ClaimMakes, Claim
  <2>3. channels[n][s].state # "ACTIVE"
    BY <2>2 DEF FoundIsSpare
  <2> HIDE DEF s
  <2>4. \A c \in Channel : /\ channels'[k][c].state = "ACTIVE" <=> channels[k][c].state = "ACTIVE"
                           /\ channels[k][c].state = "ACTIVE" =>
                                channels'[k][c].blocks = channels[k][c].blocks
    BY <1>t, <2>2, <2>3
  <2> QED
    BY <1>k, <2>2, <2>4, SameCovered
<1>10. CASE UNCHANGED vars
  BY <1>1, <1>10 DEF vars
<1> QED
  BY <1>1, <1>2, <1>3, <1>4, <1>5, <1>6, <1>7, <1>8, <1>9, <1>10
     DEF Next, Manages, Search, Telemetry, PeerSilent, Lose, Restart

\* No block is forgotten by the arithmetic of active_blocks: what a node keeps and
\* what its ACTIVE channels carry is never less than the load it was told to carry.
THEOREM NothingForgotten == Spec => []BlocksCovered
<1>1. Init => BlocksCovered
  <2> SUFFICES ASSUME Init, NEW n \in Node PROVE active[n] + Delegated(n) >= wanted[n]
    BY DEF BlocksCovered
  <2>1. active[n] = Blocks /\ wanted[n] = Blocks
    BY DEF Init
  <2> QED
    BY <2>1, DelegatedIsNat, Constants
<1>2. Init => FoundIsSpare
  BY DEF Init, FoundIsSpare, Idle, As
<1> QED
  BY <1>1, <1>2, SpareKept, CoveredKept, TypeCorrect, PTL DEF Spec
=============================================================================
