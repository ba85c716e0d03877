-------------------------- MODULE TransportProofs --------------------------
(***************************************************************************)
(* Proofs about TransportChannel and TransportLink, for any number of      *)
(* connections, descriptors and blocks, and whatever may overlap.  Types   *)
(* always hold; the rest holds until a handler first begins in the middle  *)
(* of another (Serial), which a history variable remembers.                *)
(***************************************************************************)
EXTENDS TransportOverlap, TLAPS

Client == {Mqtt, Manager}

LEMMA Tasks ==
  /\ Client \subseteq Task /\ Readers \subseteq Task /\ Senders \subseteq Task
  /\ Mqtt \in Client /\ Manager \in Client /\ Mqtt # Manager
  /\ \A n \in Conn : /\ Reader(n) \in Readers /\ Reader(n) \in Task
                     /\ Sender(n) \in Senders /\ Sender(n) \in Task
                     /\ Reader(n) \notin Senders /\ Reader(n) \notin Client
                     /\ Sender(n) \notin Readers /\ Sender(n) \notin Client
  /\ \A n \in Conn, m \in Conn : /\ Sender(n) = Sender(m) => n = m
                                 /\ Reader(n) = Reader(m) => n = m
  /\ Client \cap (Readers \cup Senders) = {} /\ Readers \cap Senders = {}
  /\ \A t \in Task : t \in Client \/ t \in Readers \/ t \in Senders
BY DEF Client, Task, Readers, Senders, Reader, Sender, Mqtt, Manager

\* Where a task is in a connect, it has its socket, or 0 once it gave it up.
MineAt(t) ==
  /\ at[t] \in {"dial", "queue", "sender", "reader"} => mine[t] \in 1 .. dials
  /\ at[t] = "fail" => mine[t] = 0
  /\ at[t] = "store" => mine[t] \in 0 .. dials
  /\ at[t] \in Resetting => mine[t] \in {-1, 0}
  /\ at[t] = "idle" => mine[t] = -1
  /\ at[t] \notin {"off", "end"}

MineOK ==
  /\ \A t \in Client : MineAt(t)
  /\ \A t \in Readers \cup Senders : at[t] \notin Connecting

TInv == TypeOK /\ MineOK

LEMMA Places ==
  /\ Connecting \subseteq Place /\ Resetting \subseteq Place
  /\ {"off", "idle", "end"} \subseteq Place
  /\ \A p \in Place : p \in {"off", "idle", "end"} <=> p \notin Connecting \cup Resetting
BY DEF Place, Connecting, Resetting

LEMMA AtMoved ==
  ASSUME at \in [Task -> Place], NEW t \in Task, NEW p \in Place, at' = [at EXCEPT ![t] = p]
  PROVE  /\ at' \in [Task -> Place] /\ at'[t] = p
         /\ \A u \in Task \ {t} : at'[u] = at[u]
OBVIOUS

LEMMA AtMovedTwo ==
  ASSUME at \in [Task -> Place], NEW t \in Task, NEW v \in Task, t # v,
         NEW p \in Place, NEW q \in Place, at' = [at EXCEPT ![t] = p, ![v] = q]
  PROVE  /\ at' \in [Task -> Place] /\ at'[t] = p /\ at'[v] = q
         /\ \A u \in Task \ {t, v} : at'[u] = at[u]
OBVIOUS

\* The sender of the channel is stopped, unless it is the caller.
LEMMA AtStopped ==
  ASSUME at \in [Task -> Place], NEW t \in Task, NEW p \in Place,
         at' = Stopping(t, p)
  PROVE  /\ at' \in [Task -> Place] /\ at'[t] = p
         /\ \A u \in Task \ {t} : sender_task # 0 /\ u = Sender(sender_task) => at'[u] = "off"
         /\ \A u \in Task \ {t} : ~(sender_task # 0 /\ u = Sender(sender_task)) => at'[u] = at[u]
<1>1. "off" \in Place
  BY DEF Place
<1> QED
  BY <1>1 DEF Stopping

LEMMA MineMoved ==
  ASSUME TypeOK, NEW t \in Client, NEW m \in -1 .. MaxDials, mine' = [mine EXCEPT ![t] = m]
  PROVE  /\ mine' \in [Client -> -1 .. MaxDials] /\ mine'[t] = m
         /\ \A u \in Client \ {t} : mine'[u] = mine[u]
BY DEF TypeOK, Client

\* Only task t moves, but for senders and receivers made or deleted.
LEMMA OneMoves ==
  ASSUME TInv, NEW t \in Task,
         t \in Client => MineAt(t)',
         t \notin Client => at'[t] \notin Connecting,
         \A u \in Client \ {t} : at'[u] = at[u] /\ mine'[u] = mine[u],
         dials' \in Nat, dials <= dials',
         \A u \in (Readers \cup Senders) \ {t} : at'[u] = at[u] \/ at'[u] \in {"off", "idle"}
  PROVE  MineOK'
<1>1. dials \in Nat
  BY ChannelConstants DEF TInv, TypeOK
<1>2. \A u \in Client \ {t} : MineAt(u)'
  BY <1>1 DEF TInv, MineOK, MineAt
<1>3. \A u \in (Readers \cup Senders) \ {t} : at'[u] \notin Connecting
  BY DEF TInv, MineOK, Connecting
<1>4. \A u \in Readers \cup Senders : u \notin Client
  BY Tasks
<1> QED
  BY <1>2, <1>3, <1>4 DEF MineOK

\* Task t goes on to p, and may stop the sender of the channel.
LEMMA OwnStep ==
  ASSUME TInv, NEW t \in Task, NEW p \in Place, UNCHANGED <<mine, dials>>,
         at' = [at EXCEPT ![t] = p] \/ at' = Stopping(t, p),
         t \notin Client => p \notin Connecting,
         t \in Client => /\ p = "fail" => mine[t] = 0
                         /\ p = "store" => mine[t] \in 0 .. dials
                         /\ p \in Resetting => mine[t] \in {-1, 0}
                         /\ p = "idle" => mine[t] = -1
                         /\ p \notin {"off", "end", "dial", "queue", "sender", "reader"}
  PROVE  MineOK' /\ at' \in [Task -> Place]
<1>1. sender_task # 0 => sender_task \in Conn
  BY ChannelConstants DEF TInv, TypeOK, Conn
<1>2. at \in [Task -> Place]
  BY DEF TInv, TypeOK
<1>3. /\ at' \in [Task -> Place] /\ at'[t] = p
      /\ \A u \in Task \ {t} : at'[u] = at[u] \/ (u \notin Client /\ at'[u] = "off")
  <2>1. CASE at' = [at EXCEPT ![t] = p]
    BY <1>2, <2>1, AtMoved
  <2>2. CASE at' = Stopping(t, p)
    <3>1. sender_task # 0 => Sender(sender_task) \notin Client
      BY <1>1, Tasks
    <3> QED
      BY <1>2, <2>2, <3>1, AtStopped
  <2> QED
    BY <2>1, <2>2
<1>4. t \in Client => MineAt(t)'
  BY <1>3 DEF MineAt
<1>5. dials' \in Nat /\ dials <= dials'
  BY ChannelConstants DEF TInv, TypeOK
<1>6. \A u \in Client \ {t} : at'[u] = at[u] /\ mine'[u] = mine[u]
  BY <1>3, Tasks
<1>7. \A u \in (Readers \cup Senders) \ {t} : at'[u] = at[u] \/ at'[u] \in {"off", "idle"}
  BY <1>3, Tasks
<1> QED
  BY <1>3, <1>4, <1>5, <1>6, <1>7, OneMoves

LEMMA InitTyped == Init => TInv
<1> SUFFICES ASSUME Init PROVE TInv
  OBVIOUS
<1>1. /\ at \in [Task -> {"off", "idle"}]
      /\ \A t \in Client : at[t] = "idle" /\ mine[t] = -1
      /\ mine \in [Client -> -1 .. MaxDials]
  <2>1. \A t \in Client : t \notin Readers \cup Senders
    BY Tasks
  <2> QED
    <3>1. at \in [Task -> {"off", "idle"}] /\ \A t \in Client : at[t] = "idle"
      BY <2>1, Tasks DEF Init
    <3>2. mine \in [Client -> -1 .. MaxDials] /\ \A t \in Client : mine[t] = -1
      BY ChannelConstants DEF Init, Client
    <3> QED
      BY <3>1, <3>2
<1>2. TypeOK
  BY <1>1, ChannelConstants DEF Init, TypeOK, Place, Client
<1>3. MineOK
  BY <1>1, Tasks DEF MineOK, MineAt, Connecting, Resetting
<1> QED
  BY <1>2, <1>3 DEF TInv

LEMMA TypeKept == TInv /\ [Next]_vars => TInv'
<1> SUFFICES ASSUME TInv, [Next]_vars PROVE TInv'
  OBVIOUS
<1>t. /\ at \in [Task -> Place] /\ mine \in [Client -> -1 .. MaxDials]
      /\ MaxDials \in Nat /\ MaxBlocks \in Nat /\ dials \in 0 .. MaxDials
  BY ChannelConstants DEF TInv, TypeOK, Client
<1>1. ASSUME NEW t \in Client, DialEnds(t) PROVE TInv'
  <2>1. mine[t] \in 1 .. dials
    BY <1>1 DEF made, DialEnds, TInv, MineOK, MineAt
  <2>2. PICK p \in {"queue", "fail"}, m \in {mine[t], 0} :
          /\ at' = [at EXCEPT ![t] = p] /\ mine' = [mine EXCEPT ![t] = m]
          /\ p = "fail" => m = 0
          /\ p = "queue" => m = mine[t]
    BY <1>1, <1>t DEF made, DialEnds, GivesUp
  <2>3. p \in Place /\ m \in -1 .. MaxDials
    BY <1>t, <2>1 DEF Place, Connecting
  <2>4. /\ at' \in [Task -> Place] /\ at'[t] = p
        /\ \A u \in Task \ {t} : at'[u] = at[u]
    BY <1>t, <2>2, <2>3, AtMoved, Tasks
  <2>5. /\ mine' \in [Client -> -1 .. MaxDials] /\ mine'[t] = m
        /\ \A u \in Client \ {t} : mine'[u] = mine[u]
    BY <2>2, <2>3, MineMoved DEF TInv
  <2>6. TypeOK'
    BY <1>1, <2>4, <2>5 DEF made, DialEnds, GivesUp, TInv, TypeOK, Client, chan
  <2>7. MineAt(t)'
    BY <1>1, <2>1, <2>2, <2>4, <2>5 DEF made, DialEnds, MineAt, Resetting
  <2> QED
    BY <1>1, <1>t, <2>4, <2>5, <2>6, <2>7, OneMoves, Tasks DEF made, DialEnds, TInv
<1>2. ASSUME NEW t \in Client, MakeQueue(t) PROVE TInv'
  <2>1. mine[t] \in 1 .. dials
    BY <1>2 DEF made, MakeQueue, TInv, MineOK, MineAt
  <2>2. PICK p \in {"sender", "fail"}, m \in {mine[t], 0} :
          /\ at' = [at EXCEPT ![t] = p] /\ mine' = [mine EXCEPT ![t] = m]
          /\ p = "fail" => m = 0
          /\ p = "sender" => m = mine[t]
    BY <1>2, <1>t DEF made, MakeQueue, GivesUp
  <2>3. p \in Place /\ m \in -1 .. MaxDials
    BY <1>t, <2>1 DEF Place, Connecting
  <2>4. /\ at' \in [Task -> Place] /\ at'[t] = p
        /\ \A u \in Task \ {t} : at'[u] = at[u]
    BY <1>t, <2>2, <2>3, AtMoved, Tasks
  <2>5. /\ mine' \in [Client -> -1 .. MaxDials] /\ mine'[t] = m
        /\ \A u \in Client \ {t} : mine'[u] = mine[u]
    BY <2>2, <2>3, MineMoved DEF TInv
  <2>6. TypeOK'
    <3>1. /\ send_queue' \in 0 .. MaxDials /\ queues' \subseteq Conn
          /\ open' \subseteq open /\ UNCHANGED fd
      <4>1. mine[t] \in Conn /\ mine[t] \in 0 .. MaxDials
        BY <1>t, <2>1 DEF Conn
      <4>2. open \subseteq Conn /\ queues \subseteq Conn /\ send_queue \in 0 .. MaxDials
        BY DEF TInv, TypeOK
      <4> QED
        BY <1>2, <4>1, <4>2 DEF made, MakeQueue, GivesUp
    <3>2. open' \subseteq Conn /\ fd' \in [Conn -> 0 .. NumFds] /\ \A n \in open' : fd'[n] # 0
      BY <3>1 DEF TInv, TypeOK
    <3> QED
      BY <1>2, <2>4, <2>5, <3>1, <3>2 DEF made, MakeQueue, TInv, TypeOK, Client
  <2>7. MineAt(t)'
    BY <1>2, <2>1, <2>2, <2>4, <2>5 DEF made, MakeQueue, MineAt, Resetting
  <2> QED
    BY <1>2, <1>t, <2>4, <2>5, <2>6, <2>7, OneMoves, Tasks DEF made, MakeQueue, TInv
<1>3. ASSUME NEW t \in Client, MakeSender(t) PROVE TInv'
  <2>1. mine[t] \in 1 .. dials /\ Sender(mine[t]) \in Senders
    BY <1>3, <1>t, Tasks DEF made, MakeSender, TInv, MineOK, MineAt, Conn
  <2>2. CASE /\ at' = [at EXCEPT ![t] = "reader", ![Sender(mine[t])] = "idle"]
             /\ sender_task' = mine[t] /\ UNCHANGED <<open, mine, queues, send_queue>>
    <3>1. /\ at' \in [Task -> Place] /\ at'[t] = "reader"
          /\ \A u \in Task \ {t} : at'[u] = at[u] \/ (u = Sender(mine[t]) /\ at'[u] = "idle")
      <4>1. {"reader", "idle"} \subseteq Place
        BY DEF Place, Connecting
      <4>2. t \in Task /\ Sender(mine[t]) \in Task /\ t # Sender(mine[t])
        BY <2>1, Tasks
      <4> QED
        BY <1>t, <2>2, <4>1, <4>2, AtMovedTwo
    <3>2. TypeOK'
      BY <1>3, <1>t, <2>1, <2>2, <3>1 DEF made, MakeSender, TInv, TypeOK
    <3>3. MineAt(t)'
      BY <1>3, <2>1, <2>2, <3>1 DEF made, MakeSender, MineAt, Resetting
    <3> QED
      BY <1>3, <1>t, <2>1, <2>2, <3>1, <3>2, <3>3, OneMoves, Tasks DEF made, MakeSender, TInv
  <2>3. CASE GivesUp(t) /\ UNCHANGED sender_task /\ queues' = queues \ {mine[t]} /\ send_queue' = 0
    <3>1. /\ at' \in [Task -> Place] /\ at'[t] = "fail"
          /\ \A u \in Task \ {t} : at'[u] = at[u]
      BY <1>t, <2>3, Tasks DEF GivesUp, Place, Connecting
    <3>2. /\ mine' \in [Client -> -1 .. MaxDials] /\ mine'[t] = 0
          /\ \A u \in Client \ {t} : mine'[u] = mine[u]
      BY <1>t, <2>3, MineMoved DEF TInv, GivesUp
    <3>3. TypeOK'
      BY <1>3, <1>t, <2>1, <2>3, <3>1, <3>2 DEF made, MakeSender, GivesUp, TInv, TypeOK, Client
    <3>4. MineAt(t)'
      BY <3>1, <3>2 DEF MineAt, Resetting
    <3> QED
      BY <1>3, <1>t, <3>1, <3>2, <3>3, <3>4, OneMoves, Tasks DEF made, MakeSender, TInv
  <2> QED
    BY <1>3, <2>2, <2>3 DEF made, MakeSender
<1>4. ASSUME NEW t \in Client, MakeReader(t) PROVE TInv'
  <2>1. mine[t] \in 1 .. dials /\ Reader(mine[t]) \in Readers
    BY <1>4, <1>t, Tasks DEF made, MakeReader, TInv, MineOK, MineAt, Conn
  <2>2. CASE /\ at' = [at EXCEPT ![t] = "store", ![Reader(mine[t])] = "idle"]
             /\ UNCHANGED <<open, mine, queues, send_queue, sender_task>>
    <3>1. /\ at' \in [Task -> Place] /\ at'[t] = "store"
          /\ \A u \in Task \ {t} : at'[u] = at[u] \/ (u = Reader(mine[t]) /\ at'[u] = "idle")
      <4>1. {"store", "idle"} \subseteq Place
        BY DEF Place, Connecting
      <4>2. t \in Task /\ Reader(mine[t]) \in Task /\ t # Reader(mine[t])
        BY <2>1, Tasks
      <4> QED
        BY <1>t, <2>2, <4>1, <4>2, AtMovedTwo
    <3>2. TypeOK'
      BY <1>4, <2>2, <3>1 DEF made, MakeReader, TInv, TypeOK
    <3>3. MineAt(t)'
      BY <1>4, <2>1, <2>2, <3>1 DEF made, MakeReader, MineAt, Resetting
    <3> QED
      BY <1>4, <1>t, <2>1, <2>2, <3>1, <3>2, <3>3, OneMoves, Tasks DEF made, MakeReader, TInv
  <2>3. CASE /\ at' = Stopping(t, "fail")
             /\ sender_task' = 0 /\ queues' = queues \ {send_queue} /\ send_queue' = 0
             /\ open' = open \ Closed(mine[t]) /\ mine' = [mine EXCEPT ![t] = 0]
    <3>1. /\ at' \in [Task -> Place] /\ at'[t] = "fail"
          /\ \A u \in Task \ {t} : at'[u] = at[u] \/ (u \notin Client /\ at'[u] = "off")
      <4>1. sender_task # 0 => sender_task \in Conn
        BY <1>t DEF TInv, TypeOK, Conn
      <4>2. "fail" \in Place /\ t \in Task
        BY Tasks DEF Place, Connecting
      <4>3. /\ at' \in [Task -> Place] /\ at'[t] = "fail"
            /\ \A u \in Task \ {t} : sender_task # 0 /\ u = Sender(sender_task) => at'[u] = "off"
            /\ \A u \in Task \ {t} : ~(sender_task # 0 /\ u = Sender(sender_task)) => at'[u] = at[u]
        BY <1>t, <2>3, <4>2, AtStopped
      <4>4. sender_task # 0 => Sender(sender_task) \notin Client
        BY <4>1, Tasks
      <4> QED
        BY <4>3, <4>4
    <3>2. /\ mine' \in [Client -> -1 .. MaxDials] /\ mine'[t] = 0
          /\ \A u \in Client \ {t} : mine'[u] = mine[u]
      BY <1>t, <2>3, MineMoved DEF TInv
    <3>3. TypeOK'
      BY <1>4, <1>t, <2>3, <3>1, <3>2 DEF made, MakeReader, TInv, TypeOK, Client
    <3>4. MineAt(t)'
      BY <3>1, <3>2 DEF MineAt, Resetting
    <3> QED
      BY <1>4, <1>t, <3>1, <3>2, <3>3, <3>4, OneMoves, Tasks DEF made, MakeReader, TInv
  <2> QED
    BY <1>4, <2>2, <2>3 DEF made, MakeReader
<1>5. ASSUME NEW t \in Client, Store(t) PROVE TInv'
  <2>1. mine[t] \in 0 .. dials
    BY <1>5 DEF Store, TInv, MineOK, MineAt
  <2>2. "idle" \in Place /\ -1 \in -1 .. MaxDials
    BY <1>t DEF Place
  <2>3. /\ at' \in [Task -> Place] /\ at'[t] = "idle"
        /\ \A u \in Task \ {t} : at'[u] = at[u]
    BY <1>5, <1>t, <2>2, AtMoved, Tasks DEF Store
  <2>4. /\ mine' \in [Client -> -1 .. MaxDials] /\ mine'[t] = -1
        /\ \A u \in Client \ {t} : mine'[u] = mine[u]
    BY <1>5, <2>2, MineMoved DEF Store, TInv
  <2>5. TypeOK'
    BY <1>5, <1>t, <2>1, <2>3, <2>4 DEF made, Store, TInv, TypeOK, Client, pool
  <2>6. MineAt(t)'
    BY <2>3, <2>4 DEF MineAt, Resetting
  <2> QED
    BY <1>5, <1>t, <2>3, <2>4, <2>5, <2>6, OneMoves, Tasks DEF made, Store, pool, TInv
<1>6. ASSUME NEW t \in Client, ReportFailure(t) PROVE TInv'
  <2>1. PICK p \in {"restore", "store"} : at' = [at EXCEPT ![t] = p]
    BY <1>6 DEF ReportFailure
  <2>2. mine[t] = 0
    BY <1>6 DEF ReportFailure, TInv, MineOK, MineAt
  <2>3. MineOK' /\ at' \in [Task -> Place]
    <3>1. t \in Task /\ p \in Place /\ UNCHANGED <<mine, dials>>
      BY <1>6, Tasks DEF made, ReportFailure, Place, Connecting, Resetting, pool
    <3>2. p \notin {"fail", "idle", "off", "end", "dial", "queue", "sender", "reader"}
      OBVIOUS
    <3>3. mine[t] \in 0 .. dials /\ mine[t] \in {-1, 0}
      BY <1>t, <2>2
    <3> QED
      BY <2>1, <3>1, <3>2, <3>3, OwnStep
  <2> QED
    BY <1>6, <2>3 DEF made, ReportFailure, TInv, TypeOK, chan, pool
<1>7. ASSUME NEW t \in Task, Reset(t) PROVE TInv'
  <2>1. at[t] \in Resetting
    BY <1>7 DEF made, Reset, RestoreBlocks, DeleteSender, DeleteQueue, CloseSocket, ClearChannel, Resetting
  <2>2. t \in Client => mine[t] \in {-1, 0}
    BY <2>1 DEF TInv, MineOK, MineAt
  <2>3. PICK p \in {"unsend", "unqueue", "unsock", "clear", After(t)} :
          at' = [at EXCEPT ![t] = p] \/ at' = Stopping(t, p)
    BY <1>7 DEF made, Reset, RestoreBlocks, DeleteSender, StopSender, DeleteQueue, CloseSocket, ClearChannel
  <2>4. UNCHANGED <<mine, dials>>
    BY <1>7 DEF made, Reset, RestoreBlocks, DeleteSender, DeleteQueue, CloseSocket, ClearChannel, pool
  <2>5. /\ t \in Readers => After(t) = "off"
        /\ t \in Senders => After(t) = "end"
        /\ t \in Client => After(t) = IF mine[t] = 0 THEN "store" ELSE "idle"
    <3>1. t \in Client => t \notin Readers /\ t \notin Senders
      BY Tasks
    <3>2. t \in Senders => t \notin Readers
      BY Tasks
    <3> QED
      BY <3>1, <3>2 DEF After
  <2>6. p \in Place /\ p \in Resetting \cup {"off", "end", "store", "idle"}
    BY <2>3, <2>5, Tasks DEF Place, Connecting, Resetting
  <2>7. t \notin Client => p \notin Connecting
    BY <2>3, <2>5, Tasks DEF Connecting
  <2>8. t \in Client => /\ p # "fail"
                        /\ p = "store" => mine[t] \in 0 .. dials
                        /\ p \in Resetting => mine[t] \in {-1, 0}
                        /\ p = "idle" => mine[t] = -1
                        /\ p \notin {"off", "end", "dial", "queue", "sender", "reader"}
    BY <1>t, <2>2, <2>3, <2>5, Tasks DEF Resetting
  <2>9. MineOK' /\ at' \in [Task -> Place]
    BY <2>3, <2>4, <2>6, <2>7, <2>8, OwnStep
  <2> QED
    <3>1. CASE RestoreBlocks(t)
      BY <1>t, <2>9, <3>1 DEF made, RestoreBlocks, TInv, TypeOK, pool
    <3>2. CASE DeleteSender(t)
      BY <1>t, <2>9, <3>2 DEF made, DeleteSender, TInv, TypeOK, pool
    <3>3. CASE DeleteQueue(t)
      BY <1>t, <2>9, <3>3 DEF made, DeleteQueue, TInv, TypeOK, pool
    <3>4. CASE CloseSocket(t)
      BY <1>t, <2>9, <3>4 DEF made, CloseSocket, AfterDisconnect, TInv, TypeOK, pool
    <3>5. CASE ClearChannel(t)
      BY <1>t, <2>9, <3>5 DEF made, ClearChannel, TInv, TypeOK, pool
    <3> QED
      BY <1>7, <3>1, <3>2, <3>3, <3>4, <3>5 DEF made, Reset
<1>8. ASSUME NEW n \in Conn, ReaderEnds(n) \/ SendFails(n) \/ SenderEnds(n) PROVE TInv'
  <2>1. PICK t \in Readers \cup Senders, p \in {"restore", "off", "end"} :
          at' = [at EXCEPT ![t] = p]
    BY <1>8, Tasks DEF ReaderEnds, SendFails, SenderEnds
  <2>2. t \in Task /\ t \notin Client
    BY Tasks
  <2>3. UNCHANGED <<mine, pool, state, blocks, tcp_fd, send_queue, active>>
        /\ sender_task' \in {sender_task, 0}
    BY <1>8 DEF ReaderEnds, SendFails, SenderEnds, chan
  <2>4. p \in Place /\ p \notin Connecting
    BY DEF Place, Resetting, Connecting
  <2>5. MineOK' /\ at' \in [Task -> Place]
    BY <2>1, <2>2, <2>3, <2>4, OwnStep DEF made, pool
  <2> QED
    BY <1>t, <2>3, <2>5 DEF made, TInv, TypeOK, pool
<1>9. ASSUME NEW t \in Client, at[t] = "idle", Dial(t) PROVE
        /\ MineOK' /\ at' \in [Task -> Place] /\ mine' \in [Client -> -1 .. MaxDials]
        /\ dials' \in 0 .. MaxDials /\ open' \subseteq Conn /\ UNCHANGED queues
        /\ fd' \in [Conn -> 0 .. NumFds] /\ \A n \in open' : fd'[n] # 0
  <2>1. PICK p \in {"dial", "fail"}, m \in {dials + 1, 0} :
          /\ at' = [at EXCEPT ![t] = p] /\ mine' = [mine EXCEPT ![t] = m]
          /\ p = "dial" => m = dials + 1 /\ dials' = dials + 1 /\ dials < MaxDials
                            /\ open' = open \cup {dials + 1}
          /\ p = "fail" => m = 0 /\ dials' = dials /\ open' = open
    BY <1>9 DEF made, Dial, pool
  <2>2. p \in Place /\ m \in -1 .. MaxDials
    BY <1>t, <2>1 DEF Place, Connecting
  <2>3. /\ at' \in [Task -> Place] /\ at'[t] = p
        /\ \A u \in Task \ {t} : at'[u] = at[u]
    BY <1>t, <2>1, <2>2, AtMoved, Tasks
  <2>4. /\ mine' \in [Client -> -1 .. MaxDials] /\ mine'[t] = m
        /\ \A u \in Client \ {t} : mine'[u] = mine[u]
    BY <2>1, <2>2, MineMoved DEF TInv
  <2>5. /\ dials' \in 0 .. MaxDials /\ dials <= dials'
        /\ open' \subseteq Conn
    <3>1. open \subseteq Conn
      BY DEF TInv, TypeOK
    <3>2. CASE p = "dial"
      <4>1. dials' = dials + 1 /\ dials < MaxDials /\ open' = open \cup {dials + 1}
        BY <2>1, <3>2
      <4>2. dials + 1 \in 1 .. MaxDials
        BY <1>t, <4>1
      <4> QED
        BY <1>t, <3>1, <4>1, <4>2 DEF Conn
    <3>3. CASE p = "fail"
      BY <1>t, <2>1, <3>1, <3>3
    <3> QED
      BY <3>2, <3>3
  <2>6. MineAt(t)'
    BY <1>t, <2>1, <2>3, <2>4, <2>5 DEF MineAt, Resetting
  <2>7. fd' \in [Conn -> 0 .. NumFds] /\ \A n \in open' : fd'[n] # 0
    <3>1. fd \in [Conn -> 0 .. NumFds] /\ open \subseteq Conn /\ \A n \in open : fd[n] # 0
      BY DEF TInv, TypeOK
    <3>2. CASE UNCHANGED pool
      BY <3>1, <3>2 DEF pool, made
    <3>3. ASSUME NEW d \in 1 .. NumFds, fd' = [fd EXCEPT ![dials + 1] = d],
                 open' = open \cup {dials + 1}, dials < MaxDials
          PROVE  fd' \in [Conn -> 0 .. NumFds] /\ \A n \in open' : fd'[n] # 0
      <4>1. d \in 0 .. NumFds /\ d # 0
        BY ChannelConstants
      <4>2. dials + 1 \in Conn
        BY <1>t, <3>3 DEF Conn
      <4> QED
        BY <3>1, <3>3, <4>1, <4>2
    <3> QED
      BY <1>9, <3>2, <3>3 DEF Dial
  <2> QED
    BY <1>9, <2>3, <2>4, <2>5, <2>6, <2>7, OneMoves, Tasks DEF made, Dial, pool
<1>10. CASE Accept
  <2>1. active' \in 0 .. MaxBlocks
    BY <1>10, <1>t DEF Accept, Charged, TInv, TypeOK
  <2>2. CASE Dial(Mqtt) /\ UNCHANGED tcp_fd
    BY <1>9, <1>10, <2>1, <2>2, Tasks DEF Accept, Begins, TInv, TypeOK, Client
  <2>3. CASE tcp_fd' = 0 /\ UNCHANGED <<pool, at, mine>>
    BY <1>10, <1>t, <2>1, <2>3 DEF made, Accept, TInv, TypeOK, MineOK, MineAt, pool
  <2> QED
    BY <1>10, <2>2, <2>3 DEF Accept
<1>11. CASE TickDials
  BY <1>9, <1>11, Tasks DEF TickDials, Begins, TInv, TypeOK, chan, Client
<1>12. CASE Reject \/ TickResets
  <2>1. PICK t \in Client, p \in {"restore", "unsend"} : at[t] = "idle" /\ at' = [at EXCEPT ![t] = p]
    BY <1>12, Tasks DEF Reject, TickResets, Begins
  <2>2. mine[t] = -1 /\ UNCHANGED <<chan, pool, mine>>
    BY <1>12, <2>1 DEF Reject, TickResets, TInv, MineOK, MineAt
  <2>3. p \in Place /\ p \in Resetting
    BY DEF Place, Resetting
  <2>4. MineOK' /\ at' \in [Task -> Place]
    BY <2>1, <2>2, <2>3, OwnStep, Tasks DEF made, pool
  <2> QED
    BY <2>2, <2>4 DEF made, TInv, TypeOK, chan, pool
<1>13. CASE Host \/ Offload
  <2>1. UNCHANGED <<tcp_fd, send_queue, sender_task, active, pool, at, mine>>
        /\ blocks' = 1 /\ state' \in {"HOSTING", "REQUESTING"}
    BY <1>13 DEF Host, Offload
  <2> QED
    BY <2>1 DEF made, TInv, TypeOK, MineOK, MineAt, pool
<1>14. CASE UNCHANGED vars
  BY <1>14 DEF made, vars, TInv, TypeOK, MineOK, MineAt, chan, pool
<1> QED
  BY <1>1, <1>2, <1>3, <1>4, <1>5, <1>6, <1>7, <1>8, <1>10, <1>11, <1>12, <1>13, <1>14
  DEF Next, LocalNext, Build, Client

\* Every variable keeps its type, whatever handlers overlap.
THEOREM ChannelTyped == Spec => []TypeOK
<1>1. Spec => []TInv
  BY InitTyped, TypeKept, PTL DEF Spec
<1> QED
  BY <1>1, PTL DEF TInv

(***************************************************************************)
(* Until the first overlap: one handler at a time.                         *)
(***************************************************************************)

Acting(t)  == at[t] \in Connecting \cup Resetting
Resting(t) == at[t] \in {"off", "idle", "end"}

\* The channel's fields, and the sockets and queues there are.
Has(sock, queue, sender, socks, qs) ==
  /\ tcp_fd = sock /\ send_queue = queue /\ sender_task = sender
  /\ open = Held(socks) /\ queues = Held(qs)

\* All that there is belongs to one connection, or there is nothing.
Whole == Has(tcp_fd, tcp_fd, tcp_fd, tcp_fd, tcp_fd)

Calm == Whole /\ (tcp_fd # 0 => state = "ACTIVE")

\* What there is while t is in the middle of a handler.
Stage(t) ==
  /\ at[t] \in {"dial", "queue"} => Has(0, 0, 0, mine[t], 0) /\ state = "ACTIVE"
  /\ at[t] = "sender" => Has(0, mine[t], 0, mine[t], mine[t]) /\ state = "ACTIVE"
  /\ at[t] = "reader" => Has(0, mine[t], mine[t], mine[t], mine[t]) /\ state = "ACTIVE"
  /\ at[t] = "store" => /\ Has(0, mine[t], mine[t], mine[t], mine[t])
                        /\ state = IF mine[t] = 0 THEN "IDLE" ELSE "ACTIVE"
  /\ at[t] = "fail" => Has(0, 0, 0, 0, 0) /\ state = "ACTIVE"
  /\ at[t] = "restore" => Whole /\ state = "ACTIVE"
  /\ at[t] = "unsend" => Whole
  /\ at[t] = "unqueue" => Has(tcp_fd, tcp_fd, 0, tcp_fd, tcp_fd)
  /\ at[t] = "unsock" => Has(tcp_fd, 0, 0, tcp_fd, 0)
  /\ at[t] = "clear" => Has(0, 0, 0, 0, 0)

Alone(t) == \A u \in Task \ {t} : Resting(u)

Serial ==
  \/ Calm /\ \A u \in Task : Resting(u)
  \/ \E t \in Task : Acting(t) /\ Alone(t) /\ Stage(t)

\* The sender that waits is the one the channel names, and that one waits or is
\* itself about to delete itself.
SenderOwn ==
  \A n \in Conn : /\ at[Sender(n)] = "idle" => sender_task = n
                  /\ sender_task = n => at[Sender(n)] \in {"idle", "restore", "unsend"}

\* The blocks of an ACTIVE channel are off active_blocks until they are restored.
Accounts ==
  /\ blocks = IF state = "IDLE" THEN 0 ELSE 1
  /\ active + (IF state = "ACTIVE" /\ ~Unwinding THEN blocks ELSE 0) = MaxBlocks - Elsewhere

XInv == TInv /\ Serial /\ SenderOwn /\ Accounts

Undoing == {"unsend", "unqueue", "unsock", "clear"}

LEMMA Actor ==
  ASSUME Serial, NEW t \in Task, Acting(t)
  PROVE  Alone(t) /\ Stage(t)
BY DEF Serial, Alone, Acting, Resting, Connecting, Resetting

LEMMA NobodyActs ==
  ASSUME ~Busy, TInv, Serial, NEW t \in Task
  PROVE  Calm /\ Alone(t)
<1>1. \A u \in Task : at[u] \in Place /\ ~Acting(u)
  BY DEF Busy, Acting, TInv, TypeOK
<1> QED
  BY <1>1, Places DEF Serial, Alone, Resting, Acting

\* The descriptor of the only socket closes it.
LEMMA ClosedOwn ==
  ASSUME NEW n, open = Held(n)
  PROVE  open \ Closed(n) = {}
BY DEF Held, Closed, Fd

LEMMA AloneKept ==
  ASSUME NEW t \in Task, Alone(t),
         \A u \in Task \ {t} : at'[u] = at[u] \/ at'[u] \in {"off", "idle"}
  PROVE  Alone(t)'
BY DEF Alone, Resting

LEMMA SerialNext ==
  ASSUME NEW t \in Task, Alone(t)', (Acting(t)' /\ Stage(t)') \/ (Resting(t)' /\ Calm')
  PROVE  Serial'
BY DEF Serial, Alone

LEMMA Unwound ==
  ASSUME NEW t \in Task, Alone(t), Alone(t)'
  PROVE  /\ Unwinding <=> at[t] \in Undoing
         /\ Unwinding' <=> at'[t] \in Undoing
BY DEF Unwinding, Undoing, Alone, Resting

LEMMA InitSerial == Init => XInv
<1> SUFFICES ASSUME Init PROVE XInv
  OBVIOUS
<1>1. \A t \in Task : at[t] \in {"off", "idle"}
  BY DEF Init
<1>2. \A n \in Conn : at[Sender(n)] = "off" /\ n # 0
  BY Tasks DEF Init, Conn
<1>3. Serial
  BY <1>1 DEF Init, Serial, Resting, Calm, Whole, Has, Held
<1>4. SenderOwn
  BY <1>2 DEF Init, SenderOwn
<1>5. Accounts
  BY <1>1 DEF Init, Accounts, Unwinding
<1> QED
  BY InitTyped, <1>3, <1>4, <1>5 DEF XInv

\* What a step of t keeps when only t moves and the channel's sender stays.
LEMMA Moves ==
  ASSUME TInv, SenderOwn, NEW t \in Task, NEW p \in Place, Alone(t),
         at' = [at EXCEPT ![t] = p], sender_task' = sender_task,
         \A n \in Conn : t = Sender(n) => /\ p # "idle"
                                          /\ sender_task = n => p \in {"restore", "unsend"},
         p \in Connecting \cup Resetting => Stage(t)',
         p \in {"off", "idle", "end"} => Calm'
  PROVE  /\ Serial' /\ SenderOwn'
         /\ Unwinding <=> at[t] \in Undoing
         /\ Unwinding' <=> p \in Undoing
<1>1. /\ at' \in [Task -> Place] /\ at'[t] = p
      /\ \A u \in Task \ {t} : at'[u] = at[u]
  BY AtMoved DEF TInv, TypeOK
<1>2. Alone(t)'
  BY <1>1, AloneKept
<1>3. (Acting(t)' /\ Stage(t)') \/ (Resting(t)' /\ Calm')
  BY <1>1, Places DEF Acting, Resting
<1>4. Serial'
  BY <1>2, <1>3, SerialNext
<1>5. SenderOwn'
  <2> SUFFICES ASSUME NEW n \in Conn
               PROVE  /\ at'[Sender(n)] = "idle" => sender_task = n
                      /\ sender_task = n => at'[Sender(n)] \in {"idle", "restore", "unsend"}
    BY DEF SenderOwn
  <2>1. CASE t = Sender(n)
    BY <1>1, <2>1
  <2>2. CASE t # Sender(n)
    BY <1>1, <2>2, Tasks DEF SenderOwn
  <2> QED
    BY <2>1, <2>2
<1> QED
  BY <1>1, <1>2, <1>4, <1>5, Unwound

\* A connect that goes on or gives up.
LEMMA ConnectKept ==
  ASSUME XInv, NEW t \in Client, DialEnds(t) \/ Build(t)
  PROVE  Serial' /\ SenderOwn' /\ Accounts' /\ ~Unwinding /\ ~Unwinding'
<1>t. /\ at \in [Task -> Place] /\ mine \in [Client -> -1 .. MaxDials]
      /\ t \in Task /\ t \notin Senders /\ MineAt(t)
      /\ \A n \in Conn : n # 0 /\ t # Sender(n) /\ t # Reader(n)
      /\ dials \in 0 .. MaxDials
  BY Tasks DEF XInv, TInv, TypeOK, MineOK, Client, Conn
<1>s. /\ at[t] \in Connecting /\ Alone(t) /\ Stage(t)
      /\ at[t] \notin Undoing /\ ~Unwinding
  <2>1. at[t] \in Connecting
    BY DEF made, DialEnds, Build, MakeQueue, MakeSender, MakeReader, ReportFailure, Store, Connecting
  <2>2. Alone(t) /\ Stage(t)
    BY <1>t, <2>1, Actor DEF XInv, Acting
  <2> QED
    BY <1>t, <2>1, <2>2 DEF Connecting, Undoing, Unwinding, Alone, Resting
<1>c. {"dial", "queue", "sender", "reader", "fail", "store", "restore", "idle"} \subseteq Place
  BY DEF Place, Connecting, Resetting
<1>m. at[t] \in {"dial", "queue", "sender", "reader"} => mine[t] \in Conn /\ mine[t] # 0
  BY <1>t DEF MineAt, Conn
<1>o. at[t] \in {"dial", "queue", "sender", "reader"} => open \ Closed(mine[t]) = {}
  BY <1>s, ClosedOwn DEF Stage, Has
<1>a. ASSUME ~Unwinding', UNCHANGED <<state, blocks, active>> PROVE Accounts'
  BY <1>s, <1>a DEF XInv, Accounts
<1>1. CASE DialEnds(t)
  <2>1. PICK p \in {"queue", "fail"} :
          /\ at' = [at EXCEPT ![t] = p]
          /\ p = "fail" => open' = open \ Closed(mine[t]) /\ mine'[t] = 0
          /\ p = "queue" => UNCHANGED <<open, mine>>
    BY <1>1, <1>t DEF made, DialEnds, GivesUp, Client
  <2>2. at'[t] = p
    BY <1>t, <2>1
  <2>3. Stage(t)'
    BY <1>1, <1>s, <1>m, <1>o, <2>1, <2>2 DEF made, DialEnds, chan, Stage, Has, Held, Whole
  <2>4. p \in Place /\ p \notin Undoing /\ p \notin {"off", "idle", "end"}
    BY <1>c DEF Undoing
  <2>5. sender_task' = sender_task /\ UNCHANGED <<state, blocks, active>>
    BY <1>1 DEF made, DialEnds, chan
  <2> QED
    BY <1>t, <1>s, <1>a, <2>1, <2>3, <2>4, <2>5, Moves DEF XInv
<1>2. CASE MakeQueue(t)
  <2>1. PICK p \in {"sender", "fail"} :
          /\ at' = [at EXCEPT ![t] = p]
          /\ p = "fail" => open' = open \ Closed(mine[t]) /\ mine'[t] = 0 /\ UNCHANGED <<queues, send_queue>>
          /\ p = "sender" => /\ UNCHANGED <<open, mine>>
                             /\ queues' = queues \cup {mine[t]} /\ send_queue' = mine[t]
    BY <1>2, <1>t DEF made, MakeQueue, GivesUp, Client
  <2>2. at'[t] = p
    BY <1>t, <2>1
  <2>3. Stage(t)'
    BY <1>2, <1>s, <1>m, <1>o, <2>1, <2>2 DEF made, MakeQueue, Stage, Has, Held, Whole
  <2>4. p \in Place /\ p \notin Undoing /\ p \notin {"off", "idle", "end"}
    BY <1>c DEF Undoing
  <2>5. sender_task' = sender_task /\ UNCHANGED <<state, blocks, active>>
    BY <1>2 DEF made, MakeQueue
  <2> QED
    BY <1>t, <1>s, <1>a, <2>1, <2>3, <2>4, <2>5, Moves DEF XInv
<1>3. CASE MakeSender(t)
  <2>0. at[t] = "sender" /\ mine[t] \in Conn /\ mine[t] # 0
    BY <1>3, <1>m DEF made, MakeSender
  <2>1. CASE /\ at' = [at EXCEPT ![t] = "reader", ![Sender(mine[t])] = "idle"]
             /\ sender_task' = mine[t] /\ UNCHANGED <<open, mine, queues, send_queue>>
    <3>1. /\ at'[t] = "reader" /\ at'[Sender(mine[t])] = "idle"
          /\ \A u \in Task \ {t, Sender(mine[t])} : at'[u] = at[u]
      <4>1. Sender(mine[t]) \in Task /\ t # Sender(mine[t])
        BY <1>t, <2>0, Tasks
      <4> QED
        BY <1>t, <1>c, <2>1, <4>1, AtMovedTwo
    <3>2. Alone(t)'
      BY <1>t, <1>s, <3>1, AloneKept
    <3>3. Stage(t)' /\ Acting(t)'
      BY <1>3, <1>s, <2>0, <2>1, <3>1 DEF made, MakeSender, Stage, Has, Held, Whole, Acting, Connecting
    <3>4. Serial'
      BY <1>t, <3>2, <3>3, SerialNext
    <3>5. \A n \in Conn : at[Sender(n)] # "idle"
      BY <1>t, <1>s, <2>0 DEF XInv, SenderOwn, Stage, Has
    <3>6. SenderOwn'
      <4>1. \A n \in Conn : n # mine[t] => at'[Sender(n)] = at[Sender(n)]
        BY <1>t, <2>0, <3>1, Tasks
      <4> QED
        BY <2>0, <2>1, <3>1, <3>5, <4>1 DEF SenderOwn
    <3>7. ~Unwinding'
      BY <1>t, <3>1, <3>2 DEF Unwinding, Alone, Resting
    <3> QED
      BY <1>3, <1>s, <1>a, <3>4, <3>6, <3>7 DEF made, MakeSender
  <2>2. CASE GivesUp(t) /\ queues' = queues \ {mine[t]} /\ send_queue' = 0 /\ UNCHANGED sender_task
    <3>1. /\ at' = [at EXCEPT ![t] = "fail"] /\ at'[t] = "fail" /\ mine'[t] = 0
          /\ open' = open \ Closed(mine[t])
      BY <2>2, <1>t DEF GivesUp, Client
    <3>2. Stage(t)'
      BY <1>3, <1>s, <1>o, <2>0, <2>2, <3>1 DEF made, MakeSender, Stage, Has, Held, Whole
    <3>3. "fail" \in Place /\ "fail" \notin Undoing
      BY <1>c DEF Undoing
    <3>4. sender_task' = sender_task /\ UNCHANGED <<state, blocks, active>>
      BY <1>3, <2>2 DEF made, MakeSender
    <3> QED
      BY <1>t, <1>s, <1>a, <3>1, <3>2, <3>3, <3>4, Moves DEF XInv
  <2> QED
    BY <1>3, <2>1, <2>2 DEF made, MakeSender
<1>4. CASE MakeReader(t)
  <2>0. at[t] = "reader" /\ mine[t] \in Conn /\ mine[t] # 0
    BY <1>4, <1>m DEF made, MakeReader
  <2>1. CASE /\ at' = [at EXCEPT ![t] = "store", ![Reader(mine[t])] = "idle"]
             /\ UNCHANGED <<open, mine, queues, send_queue, sender_task>>
    <3>1. /\ at'[t] = "store" /\ at'[Reader(mine[t])] = "idle"
          /\ \A u \in Task \ {t, Reader(mine[t])} : at'[u] = at[u]
      <4>1. Reader(mine[t]) \in Task /\ t # Reader(mine[t])
        BY <1>t, <2>0, Tasks
      <4> QED
        BY <1>t, <1>c, <2>1, <4>1, AtMovedTwo
    <3>2. Alone(t)'
      BY <1>t, <1>s, <3>1, AloneKept
    <3>3. Stage(t)' /\ Acting(t)'
      BY <1>4, <1>s, <2>0, <2>1, <3>1 DEF made, MakeReader, Stage, Has, Held, Whole, Acting, Connecting
    <3>4. Serial'
      BY <1>t, <3>2, <3>3, SerialNext
    <3>5. SenderOwn'
      <4>1. \A n \in Conn : at'[Sender(n)] = at[Sender(n)]
        BY <1>t, <2>0, <3>1, Tasks
      <4> QED
        BY <2>1, <4>1 DEF XInv, SenderOwn
    <3>6. ~Unwinding'
      BY <1>t, <3>1, <3>2 DEF Unwinding, Alone, Resting
    <3> QED
      BY <1>4, <1>s, <1>a, <3>4, <3>5, <3>6 DEF made, MakeReader
  <2>2. CASE /\ at' = Stopping(t, "fail")
             /\ sender_task' = 0 /\ queues' = queues \ {send_queue} /\ send_queue' = 0
             /\ open' = open \ Closed(mine[t]) /\ mine' = [mine EXCEPT ![t] = 0]
    <3>1. /\ at'[t] = "fail"
          /\ \A u \in Task \ {t} : sender_task # 0 /\ u = Sender(sender_task) => at'[u] = "off"
          /\ \A u \in Task \ {t} : ~(sender_task # 0 /\ u = Sender(sender_task)) => at'[u] = at[u]
      BY <1>t, <1>c, <2>2, AtStopped
    <3>2. Alone(t)'
      BY <1>t, <1>s, <3>1, AloneKept
    <3>3. sender_task = mine[t] /\ mine'[t] = 0
      BY <1>t, <1>s, <2>0, <2>2 DEF Stage, Has, Client
    <3>4. Stage(t)' /\ Acting(t)'
      BY <1>4, <1>s, <1>o, <2>0, <2>2, <3>1, <3>3 DEF made, MakeReader, Stage, Has, Held, Whole, Acting, Connecting
    <3>5. Serial'
      BY <1>t, <3>2, <3>4, SerialNext
    <3>6. SenderOwn'
      <4>1. \A n \in Conn : at'[Sender(n)] # "idle"
        BY <1>t, <2>0, <3>1, <3>3, Tasks DEF XInv, SenderOwn
      <4> QED
        BY <1>t, <2>2, <4>1 DEF SenderOwn
    <3>7. ~Unwinding'
      BY <1>t, <3>1, <3>2 DEF Unwinding, Alone, Resting
    <3> QED
      BY <1>4, <1>s, <1>a, <3>5, <3>6, <3>7 DEF made, MakeReader
  <2> QED
    BY <1>4, <2>1, <2>2 DEF made, MakeReader
<1>5. CASE Store(t)
  <2>1. at' = [at EXCEPT ![t] = "idle"] /\ tcp_fd' = mine[t]
    BY <1>5 DEF Store
  <2>2. Calm'
    BY <1>5, <1>s, <2>1 DEF made, Store, Stage, Has, Held, Whole, Calm, pool
  <2>3. "idle" \in Place /\ "idle" \notin Undoing /\ "idle" \notin Connecting \cup Resetting
    BY <1>c DEF Undoing, Connecting, Resetting
  <2>4. sender_task' = sender_task /\ UNCHANGED <<state, blocks, active>>
    BY <1>5 DEF Store
  <2> QED
    BY <1>t, <1>s, <1>a, <2>1, <2>2, <2>3, <2>4, Moves DEF XInv
<1>6. CASE ReportFailure(t)
  <2>1. at' = [at EXCEPT ![t] = "restore"] /\ at'[t] = "restore"
    BY <1>6, <1>t, <1>s DEF ReportFailure, Obeyed, Stage, Has
  <2>2. Stage(t)'
    BY <1>6, <1>s, <2>1 DEF made, ReportFailure, chan, pool, Stage, Has, Held, Whole
  <2>3. "restore" \in Place /\ "restore" \notin Undoing /\ "restore" \notin {"off", "idle", "end"}
    BY <1>c DEF Undoing
  <2>4. sender_task' = sender_task /\ UNCHANGED <<state, blocks, active>>
    BY <1>6 DEF ReportFailure, chan
  <2> QED
    BY <1>t, <1>s, <1>a, <2>1, <2>2, <2>3, <2>4, Moves DEF XInv
<1> QED
  BY <1>1, <1>2, <1>3, <1>4, <1>5, <1>6 DEF Build

\* A step of a reset.
LEMMA ResetKept ==
  ASSUME XInv, NEW t \in Task, Reset(t)
  PROVE  /\ Serial' /\ SenderOwn' /\ Accounts'
         /\ Unwinding <=> ~RestoreBlocks(t)
         /\ Unwinding' <=> ~ClearChannel(t)
<1>t. /\ at \in [Task -> Place]
      /\ active \in 0 .. MaxBlocks /\ MaxBlocks \in Nat /\ Elsewhere \in 1 .. MaxBlocks - 1
      /\ \A n \in Conn : n # 0 /\ Sender(n) \in Senders
  BY ChannelConstants, Tasks DEF XInv, TInv, TypeOK, Conn
<1>s. at[t] \in Resetting /\ Alone(t) /\ Stage(t) /\ (Unwinding <=> at[t] \in Undoing)
  <2>1. at[t] \in Resetting
    BY DEF made, Reset, RestoreBlocks, DeleteSender, DeleteQueue, CloseSocket, ClearChannel, Resetting
  <2>2. Alone(t) /\ Stage(t)
    BY <2>1, Actor DEF XInv, Acting
  <2> QED
    BY <2>1, <2>2 DEF Unwinding, Undoing, Alone, Resting
<1>c. /\ {"unsend", "unqueue", "unsock", "clear"} \subseteq Place \cap Undoing
      /\ {"off", "end", "store", "idle"} \subseteq Place \ Undoing
      /\ \A p \in Undoing : p \notin {"off", "idle", "end", "restore"}
  BY DEF Place, Connecting, Resetting, Undoing
<1>1. CASE RestoreBlocks(t)
  <2>1. at' = [at EXCEPT ![t] = "unsend"] /\ at'[t] = "unsend"
    BY <1>1, <1>t DEF RestoreBlocks
  <2>2. Stage(t)'
    BY <1>1, <1>s, <2>1 DEF made, RestoreBlocks, pool, Stage, Whole, Has, Held
  <2>3. sender_task' = sender_task /\ UNCHANGED <<state, blocks>>
    BY <1>1 DEF RestoreBlocks
  <2>4. /\ Serial' /\ SenderOwn' /\ (Unwinding' <=> "unsend" \in Undoing)
    BY <1>t, <1>s, <1>c, <2>1, <2>2, <2>3, Moves DEF XInv
  <2>5. at[t] = "restore" /\ state = "ACTIVE" /\ ~Unwinding
    BY <1>1, <1>s DEF RestoreBlocks, Stage, Undoing
  <2>6. blocks = 1 /\ active + 1 = MaxBlocks - Elsewhere
    BY <2>5 DEF XInv, Accounts
  <2>7. active' = MaxBlocks - Elsewhere
    BY <1>1, <1>t, <2>6 DEF RestoreBlocks
  <2>8. Accounts'
    BY <1>t, <1>c, <2>3, <2>4, <2>5, <2>6, <2>7 DEF Accounts
  <2> QED
    BY <1>1, <1>c, <2>4, <2>5, <2>8 DEF ClearChannel
<1>u. ASSUME at[t] \in Undoing
      PROVE  /\ Unwinding /\ active = MaxBlocks - Elsewhere
             /\ blocks = IF state = "IDLE" THEN 0 ELSE 1
  BY <1>t, <1>s, <1>u DEF XInv, Accounts
<1>a. ASSUME at[t] \in Undoing, UNCHANGED <<state, blocks, active>>, Unwinding' PROVE Accounts'
  BY <1>t, <1>u, <1>a DEF Accounts
<1>2. CASE DeleteSender(t)
  <2>0. at[t] = "unsend" /\ at[t] \in Undoing
    BY <1>2 DEF DeleteSender, Undoing
  <2>1. /\ at'[t] = "unqueue"
        /\ \A u \in Task \ {t} : sender_task # 0 /\ u = Sender(sender_task) => at'[u] = "off"
        /\ \A u \in Task \ {t} : ~(sender_task # 0 /\ u = Sender(sender_task)) => at'[u] = at[u]
    BY <1>2, <1>t, <1>c, AtStopped DEF DeleteSender, StopSender
  <2>2. Alone(t)'
    BY <1>s, <2>1, AloneKept
  <2>3. Stage(t)' /\ Acting(t)'
    BY <1>2, <1>s, <2>0, <2>1 DEF made, DeleteSender, pool, Stage, Whole, Has, Held, Acting, Resetting
  <2>4. Serial'
    BY <2>2, <2>3, SerialNext
  <2>5. SenderOwn'
    <3>1. \A n \in Conn : at'[Sender(n)] # "idle"
      BY <1>t, <2>1, Tasks DEF XInv, SenderOwn
    <3> QED
      BY <1>2, <1>t, <3>1 DEF SenderOwn, DeleteSender
  <2>6. Unwinding'
    BY <2>1 DEF Unwinding
  <2> QED
    BY <1>2, <1>a, <1>u, <2>0, <2>4, <2>5, <2>6 DEF DeleteSender, RestoreBlocks, ClearChannel
<1>3. CASE DeleteQueue(t)
  <2>0. at[t] = "unqueue" /\ at[t] \in Undoing /\ sender_task = 0
    BY <1>3, <1>s DEF made, DeleteQueue, Undoing, Stage, Has
  <2>1. at' = [at EXCEPT ![t] = "unsock"] /\ at'[t] = "unsock"
    BY <1>3, <1>t DEF made, DeleteQueue
  <2>2. Stage(t)'
    BY <1>3, <1>s, <2>0, <2>1 DEF made, DeleteQueue, Stage, Has, Held
  <2>3. sender_task' = sender_task /\ UNCHANGED <<state, blocks, active>>
    BY <1>3 DEF made, DeleteQueue
  <2>4. \A n \in Conn : sender_task # n
    BY <1>t, <2>0
  <2>5. "unsock" \in Place /\ "unsock" \in Undoing /\ "unsock" \notin {"off", "idle", "end"}
    BY <1>c
  <2>6. Serial' /\ SenderOwn' /\ Unwinding'
    BY <1>s, <2>1, <2>2, <2>3, <2>4, <2>5, Moves DEF XInv
  <2> QED
    BY <1>a, <1>u, <2>0, <2>3, <2>6 DEF RestoreBlocks, ClearChannel
<1>4. CASE CloseSocket(t)
  <2>0. at[t] = "unsock" /\ at[t] \in Undoing /\ sender_task = 0
    BY <1>4, <1>s DEF made, CloseSocket, Undoing, Stage, Has
  <2>1. at' = [at EXCEPT ![t] = "clear"] /\ at'[t] = "clear"
    BY <1>4, <1>t DEF made, CloseSocket
  <2>2. Stage(t)'
    <3>1. AfterDisconnect = {}
      BY <1>s, <1>4, ClosedOwn DEF CloseSocket, AfterDisconnect, Stage, Has
    <3> QED
      BY <1>4, <1>s, <2>0, <2>1, <3>1 DEF made, CloseSocket, Stage, Has, Held
  <2>3. sender_task' = sender_task /\ UNCHANGED <<state, blocks, active>>
    BY <1>4 DEF made, CloseSocket
  <2>4. \A n \in Conn : sender_task # n
    BY <1>t, <2>0
  <2>5. "clear" \in Place /\ "clear" \in Undoing /\ "clear" \notin {"off", "idle", "end"}
    BY <1>c
  <2>6. Serial' /\ SenderOwn' /\ Unwinding'
    BY <1>s, <2>1, <2>2, <2>3, <2>4, <2>5, Moves DEF XInv
  <2> QED
    BY <1>a, <1>u, <2>0, <2>3, <2>6 DEF RestoreBlocks, ClearChannel
<1>5. CASE ClearChannel(t)
  <2>0. at[t] = "clear" /\ at[t] \in Undoing /\ Has(0, 0, 0, 0, 0)
    BY <1>5, <1>s DEF ClearChannel, Undoing, Stage
  <2>1. PICK p \in {"off", "end", "store", "idle"} :
          /\ at' = [at EXCEPT ![t] = p] /\ at'[t] = p
          /\ t \in Senders => p = "end"
          /\ p = "store" => mine[t] = 0
    BY <1>5, <1>t, Tasks DEF ClearChannel, After
  <2>2. /\ sender_task' = sender_task /\ sender_task = 0 /\ UNCHANGED <<active, mine>>
        /\ Has(0, 0, 0, 0, 0)' /\ state' = "IDLE" /\ blocks' = 0
    BY <1>5, <2>0 DEF made, ClearChannel, Has, Held, pool
  <2>3. p = "store" => Stage(t)'
    BY <2>1, <2>2 DEF Stage
  <2>4. Calm'
    BY <2>2 DEF Calm, Whole, Has
  <2>5. p \in Place /\ p \notin Undoing /\ (p \in Connecting \cup Resetting => p = "store")
    BY <1>c DEF Connecting, Resetting
  <2>6. Serial' /\ SenderOwn' /\ ~Unwinding'
    BY <1>t, <1>s, <2>1, <2>2, <2>3, <2>4, <2>5, Moves DEF XInv
  <2>7. Accounts'
    BY <1>t, <1>u, <2>0, <2>2 DEF Accounts
  <2> QED
    BY <1>5, <1>u, <2>0, <2>6, <2>7 DEF RestoreBlocks
<1> QED
  BY <1>1, <1>2, <1>3, <1>4, <1>5 DEF made, Reset

\* A receiver or a sender that finds the connection gone.
LEMMA NoticeKept ==
  ASSUME ~Crossing, XInv, NEW n \in Conn, ReaderEnds(n) \/ SendFails(n) \/ SenderEnds(n)
  PROVE  Serial' /\ SenderOwn' /\ Accounts' /\ (Unwinding' <=> Unwinding)
<1>t. /\ at \in [Task -> Place] /\ n # 0 /\ Reader(n) \in Task /\ Sender(n) \in Task
      /\ \A m \in Conn : Reader(n) # Sender(m) /\ (Sender(n) = Sender(m) => n = m)
  <2>1. n # 0 /\ at \in [Task -> Place]
    BY DEF XInv, TInv, TypeOK, Conn
  <2> QED
    BY <2>1, Tasks
<1>c. /\ {"restore", "off", "end"} \subseteq Place \ Undoing
      /\ "off" \notin Connecting \cup Resetting /\ "end" \notin Connecting \cup Resetting
      /\ "restore" \notin {"off", "idle", "end"} /\ "idle" \notin Undoing
  BY DEF Place, Connecting, Resetting, Undoing
<1>1. ASSUME NEW t \in {Reader(n), Sender(n)}, ReaderEnds(n) \/ SendFails(n),
             NEW p \in {"restore", "off", "end"}, at' = [at EXCEPT ![t] = p],
             Begins(t), ~Busy, p = "restore" <=> Obeyed(n),
             t = Sender(n) \/ (t = Reader(n) /\ p # "end")
      PROVE  Serial' /\ SenderOwn' /\ Accounts' /\ (Unwinding' <=> Unwinding)
  <2>1. t \in Task /\ at[t] = "idle" /\ Calm /\ Alone(t)
    BY <1>1, <1>t, NobodyActs DEF Begins, XInv
  <2>2. UNCHANGED <<chan, open, queues>>
    BY <1>1 DEF made, ReaderEnds, SendFails, pool
  <2>3. at'[t] = p
    BY <1>1, <1>t, <2>1
  <2>4. Calm' /\ (p = "restore" => Stage(t)')
    BY <1>1, <2>1, <2>2, <2>3 DEF chan, Calm, Whole, Has, Held, Stage, Obeyed
  <2>5. t = Sender(n) /\ sender_task = n => p = "restore"
    BY <1>1, <1>t, <2>1 DEF Obeyed, Calm, Whole, Has
  <2>6. Serial' /\ SenderOwn' /\ ~Unwinding /\ ~Unwinding'
    <3>1. \A m \in Conn : t = Sender(m) => p # "idle" /\ (sender_task = m => p \in {"restore", "unsend"})
      BY <1>t, <2>5
    <3>2. p \in Place /\ p \notin Undoing /\ at[t] \notin Undoing
          /\ (p \in Connecting \cup Resetting => p = "restore")
      BY <1>c, <2>1
    <3>3. sender_task' = sender_task
      BY <2>2 DEF chan
    <3> QED
      BY <1>1, <2>1, <2>4, <3>1, <3>2, <3>3, Moves DEF XInv
  <2>7. Accounts'
    BY <2>2, <2>6 DEF XInv, Accounts, chan
  <2> QED
    BY <2>6, <2>7
<1>2. CASE ReaderEnds(n) /\ Obeyed(n)
  <2>1. ~Busy
    BY <1>2 DEF Crossing, Notices
  <2> QED
    BY <1>1, <1>2, <2>1 DEF ReaderEnds
<1>3. CASE SendFails(n)
  <2>1. ~Busy
    BY <1>3 DEF Crossing, Notices
  <2> QED
    BY <1>1, <1>3, <2>1 DEF SendFails
<1>4. CASE (ReaderEnds(n) /\ ~Obeyed(n)) \/ SenderEnds(n)
  <2>1. PICK t \in {Reader(n), Sender(n)} :
          /\ at[t] \in {"idle", "end"} /\ at'[t] = "off"
          /\ \A u \in Task \ {t} : at'[u] = at[u]
          /\ t = Sender(n) => at[t] = "end" /\ SenderEnds(n)
          /\ t = Reader(n) => ReaderEnds(n)
    BY <1>4, <1>t DEF ReaderEnds, SenderEnds, Begins
  <2>2. t = Sender(n) => sender_task # n
    BY <2>1 DEF XInv, SenderOwn
  <2>3. UNCHANGED <<state, blocks, tcp_fd, send_queue, sender_task, active, open, queues, mine>>
    BY <1>t, <2>1, <2>2 DEF ReaderEnds, SenderEnds, chan, pool
  <2>4. \A u \in Task : /\ Resting(u) => Resting(u)'
                        /\ Acting(u) => u # t /\ at'[u] = at[u]
    BY <1>c, <1>t, <2>1 DEF Resting, Acting, Connecting, Resetting
  <2>5. Unwinding' = Unwinding
    BY <1>t, <2>1 DEF Unwinding
  <2>6. Serial'
    <3>1. CASE Calm /\ \A u \in Task : Resting(u)
      BY <2>3, <2>4, <3>1 DEF Serial, Calm, Whole, Has, Held
    <3>2. ASSUME NEW u \in Task, Acting(u), Alone(u), Stage(u) PROVE Serial'
      <4>1. Acting(u)' /\ Alone(u)'
        BY <2>4, <3>2 DEF Acting, Alone
      <4>2. Stage(u)'
        BY <2>3, <2>4, <3>2 DEF Stage, Whole, Has, Held
      <4> QED
        BY <4>1, <4>2 DEF Serial
    <3> QED
      BY <3>1, <3>2 DEF XInv, Serial
  <2>7. SenderOwn'
    BY <1>t, <2>1, <2>2, <2>3, Tasks DEF XInv, SenderOwn
  <2>8. Accounts'
    BY <2>3, <2>5 DEF XInv, Accounts
  <2> QED
    BY <2>5, <2>6, <2>7, <2>8
<1> QED
  BY <1>2, <1>3, <1>4

\* socket(), for a client that begins to connect an ACTIVE channel.
LEMMA DialKept ==
  ASSUME TInv, SenderOwn, NEW t \in Client, at[t] = "idle", Alone(t), Calm, tcp_fd = 0,
         Dial(t), UNCHANGED <<tcp_fd, send_queue, sender_task>>, state' = "ACTIVE"
  PROVE  Serial' /\ SenderOwn' /\ ~Unwinding /\ ~Unwinding'
<1>t. /\ t \in Task /\ mine \in [Client -> -1 .. MaxDials] /\ dials \in 0 .. MaxDials
      /\ at \in [Task -> Place] /\ MaxDials \in Nat
      /\ \A n \in Conn : t # Sender(n)
  BY ChannelConstants, Tasks DEF TInv, TypeOK, Client
<1>1. PICK p \in {"dial", "fail"} :
        /\ at' = [at EXCEPT ![t] = p]
        /\ p = "dial" => mine'[t] = dials + 1 /\ open' = open \cup {dials + 1}
        /\ p = "fail" => mine'[t] = 0 /\ open' = open
        /\ queues' = queues
  BY <1>t DEF made, Dial, pool
<1>2. at'[t] = p
  BY <1>1, <1>t
<1>3. open = {} /\ queues = {} /\ send_queue = 0 /\ sender_task = 0
  BY DEF Calm, Whole, Has, Held
<1>4. Stage(t)'
  <2>1. dials + 1 # 0
    BY <1>t
  <2> QED
    BY <1>1, <1>2, <1>3, <2>1 DEF Stage, Has, Held
<1>5. p \in Place /\ p \notin Undoing /\ at[t] \notin Undoing /\ p \notin {"off", "idle", "end"}
  BY DEF Place, Connecting, Undoing
<1> QED
  BY <1>1, <1>t, <1>4, <1>5, Moves

\* What begins a handler.
LEMMA HandlerKept ==
  ASSUME ~Crossing, XInv,
         Accept \/ Reject \/ Host \/ TickDials \/ TickResets \/ Offload
  PROVE  /\ Serial' /\ SenderOwn' /\ Accounts' /\ Calm /\ ~Unwinding
         /\ Unwinding' <=> Reject \/ (TickResets /\ state # "ACTIVE")
<1>t. /\ at \in [Task -> Place]
      /\ active \in 0 .. MaxBlocks /\ MaxBlocks \in Nat /\ Elsewhere \in 1 .. MaxBlocks - 1
  BY ChannelConstants, Tasks DEF XInv, TInv, TypeOK
<1>0. PICK t \in Client : Begins(t) /\ t \in Task
  BY Tasks DEF Accept, Reject, Host, TickDials, TickResets, Offload
<1>s. at[t] = "idle" /\ Calm /\ Alone(t) /\ ~Unwinding
  <2>0. ~Busy
    BY DEF Crossing
  <2>1. at[t] = "idle" /\ Calm /\ Alone(t)
    BY <1>0, <2>0, NobodyActs DEF Begins, XInv
  <2> QED
    BY <2>1 DEF Unwinding, Alone, Resting
<1>b. /\ blocks = IF state = "IDLE" THEN 0 ELSE 1
      /\ active + (IF state = "ACTIVE" THEN blocks ELSE 0) = MaxBlocks - Elsewhere
  BY <1>s DEF XInv, Accounts
<1>r. \A u \in Task : Resting(u)
  BY <1>s DEF Alone, Resting
<1>w. ASSUME UNCHANGED <<at, sender_task>>, Calm' PROVE Serial' /\ SenderOwn' /\ ~Unwinding'
  BY <1>r, <1>s, <1>w DEF XInv, Serial, SenderOwn, Resting, Unwinding
<1>d. /\ Accept /\ Dial(Mqtt) => at[Mqtt] = "idle" /\ Alone(Mqtt)
      /\ TickDials => at[Manager] = "idle" /\ Alone(Manager)
  BY <1>r DEF Accept, TickDials, Begins, Alone
<1>x. (~Reject /\ (TickResets => state = "ACTIVE")) \/ ~(Accept \/ TickDials \/ Host \/ Offload)
  BY DEF Accept, TickDials, Host, Offload, Reject, TickResets, chan
<1>1. CASE Accept
  <2>1. /\ state = "REQUESTING" /\ state' = "ACTIVE" /\ tcp_fd = 0 /\ blocks = 1
        /\ UNCHANGED <<blocks, send_queue, sender_task>>
    BY <1>1, <1>s, <1>b DEF Accept, Calm
  <2>2. active = MaxBlocks - Elsewhere /\ active' = active - 1
    BY <1>1, <1>t, <1>b, <2>1 DEF Accept, Charged
  <2>3. CASE Dial(Mqtt) /\ UNCHANGED tcp_fd
    <3>1. Serial' /\ SenderOwn' /\ ~Unwinding'
      BY <1>1, <1>d, <1>s, <2>1, <2>3, DialKept, Tasks DEF XInv
    <3>2. Accounts'
      BY <1>t, <2>1, <2>2, <3>1 DEF Accounts
    <3> QED
      BY <1>1, <1>s, <1>x, <3>1, <3>2
  <2>4. CASE tcp_fd' = 0 /\ UNCHANGED <<pool, at, mine>>
    <3>1. Calm'
      BY <1>s, <2>1, <2>4 DEF made, Calm, Whole, Has, Held, pool
    <3>2. Serial' /\ SenderOwn' /\ ~Unwinding'
      BY <1>w, <2>1, <2>4, <3>1
    <3>3. Accounts'
      BY <1>t, <2>1, <2>2, <3>2 DEF Accounts
    <3> QED
      BY <1>1, <1>s, <1>x, <3>2, <3>3
  <2> QED
    BY <1>1, <2>3, <2>4 DEF Accept
<1>2. CASE TickDials
  <2>1. Serial' /\ SenderOwn' /\ ~Unwinding'
    BY <1>2, <1>d, <1>s, DialKept, Tasks DEF XInv, TickDials, chan
  <2>2. Accounts'
    BY <1>2, <1>s, <2>1 DEF XInv, Accounts, TickDials, chan
  <2> QED
    BY <1>2, <1>s, <1>x, <2>1, <2>2
<1>3. CASE Host \/ Offload
  <2>1. state = "IDLE" /\ state' \in {"HOSTING", "REQUESTING"} /\ blocks' = 1
        /\ UNCHANGED <<tcp_fd, send_queue, sender_task, active, pool, at, mine>>
    BY <1>3 DEF Host, Offload
  <2>2. Calm'
    BY <1>s, <2>1 DEF made, Calm, Whole, Has, Held, pool
  <2>3. Serial' /\ SenderOwn' /\ ~Unwinding'
    BY <1>w, <2>1, <2>2
  <2>4. Accounts'
    BY <1>b, <1>t, <2>1, <2>3 DEF Accounts
  <2> QED
    BY <1>3, <1>s, <1>x, <2>3, <2>4
<1>4. CASE Reject \/ TickResets
  <2>1. PICK v \in Client, p \in {"restore", "unsend"} :
          /\ at' = [at EXCEPT ![v] = p]
          /\ p = "restore" <=> state = "ACTIVE"
          /\ UNCHANGED <<chan, pool, mine>>
    BY <1>4, Tasks DEF Reject, TickResets
  <2>2. v \in Task /\ Alone(v) /\ at[v] \notin Undoing /\ \A n \in Conn : v # Sender(n)
    BY <1>r, Tasks DEF Alone, Resting, Undoing
  <2>3. at'[v] = p
    BY <1>t, <2>1, <2>2
  <2>4. Stage(v)'
    BY <1>s, <2>1, <2>3 DEF made, Calm, Stage, Whole, Has, Held, chan, pool
  <2>5. p \in Place /\ p \notin {"off", "idle", "end"} /\ (p = "unsend" <=> p \in Undoing)
    BY DEF Place, Resetting, Undoing
  <2>6. Serial' /\ SenderOwn' /\ (Unwinding' <=> p \in Undoing)
    <3>1. sender_task' = sender_task
      BY <2>1 DEF chan
    <3> QED
      BY <2>1, <2>2, <2>4, <2>5, <3>1, Moves DEF XInv
  <2>7. Accounts'
    <3>1. UNCHANGED <<state, blocks, active>>
      BY <2>1 DEF chan
    <3> QED
      BY <1>b, <1>t, <2>1, <2>5, <2>6, <3>1 DEF Accounts
  <2>8. p \in Undoing <=> Reject \/ (TickResets /\ state # "ACTIVE")
    BY <1>4, <2>1, <2>5 DEF Reject
  <2> QED
    BY <1>s, <2>6, <2>7, <2>8
<1> QED
  BY <1>1, <1>2, <1>3, <1>4

\* A step that crosses no handler keeps XInv.
LEMMA SerialKept == XInv /\ [Next /\ ~Crossing]_vars => XInv'
<1> SUFFICES ASSUME XInv, [Next /\ ~Crossing]_vars PROVE XInv'
  OBVIOUS
<1>1. TInv'
  BY TypeKept DEF XInv
<1>2. CASE UNCHANGED vars
  BY <1>1, <1>2 DEF made, vars, chan, pool, XInv, Serial, Calm, Resting, Acting, Alone, Stage, Whole, Has,
                   Held, SenderOwn, Accounts, Unwinding
<1>3. CASE Next /\ ~Crossing
  BY <1>1, <1>3, ConnectKept, ResetKept, NoticeKept, HandlerKept DEF Next, LocalNext, XInv, Client
<1> QED
  BY <1>2, <1>3

\* Between handlers nothing is left of a connection but the channel's own.
LEMMA CalmHolds ==
  ASSUME XInv
  PROVE  NothingLeaked /\ OnlyActiveHolds /\ SenderHasItsOwn /\ RestoredOnce
<1>1. Quiet => Calm /\ \A n \in Conn : n # 0 /\ at[Sender(n)] \in {"off", "idle"}
  <2>1. Quiet => \A u \in Task : ~Acting(u)
    BY DEF Quiet, Acting, Connecting, Resetting
  <2> QED
    BY <2>1, Tasks DEF XInv, Serial, Quiet, Conn
<1>2. NothingLeaked
  <2> SUFFICES ASSUME Quiet
               PROVE  /\ {fd[n] : n \in open} = Held(Fd(tcp_fd))
                      /\ queues = Held(send_queue) /\ LiveSenders = Held(sender_task)
    BY DEF NothingLeaked
  <2>0. open = Held(tcp_fd) /\ queues = Held(send_queue)
    BY <1>1 DEF Calm, Whole, Has
  <2>1. {fd[n] : n \in open} = Held(Fd(tcp_fd))
    <3>1. CASE tcp_fd = 0
      BY <2>0, <3>1 DEF Held, Fd
    <3>2. CASE tcp_fd # 0
      <4>1. open = {tcp_fd} /\ fd[tcp_fd] # 0
        BY <2>0, <3>2 DEF Held, XInv, TInv, TypeOK
      <4> QED
        BY <3>2, <4>1 DEF Held, Fd
    <3> QED
      BY <3>1, <3>2
  <2>2. \A n \in Conn : at[Sender(n)] # "off" <=> sender_task = n
    BY <1>1 DEF XInv, SenderOwn
  <2>3. sender_task \in Conn \cup {0}
    BY ChannelConstants DEF XInv, TInv, TypeOK, Conn
  <2>4. LiveSenders = Held(sender_task)
    BY <1>1, <2>2, <2>3 DEF LiveSenders, Held
  <2> QED
    BY <2>0, <2>1, <2>4
<1>3. OnlyActiveHolds
  BY <1>1 DEF OnlyActiveHolds, Calm, Whole, Has
<1>4. SenderHasItsOwn
  <2> SUFFICES ASSUME NEW n \in Conn, at[Sender(n)] = "idle"
               PROVE  n \in queues /\ n \in open
    BY DEF SenderHasItsOwn
  <2>1. sender_task = n /\ n # 0
    BY DEF XInv, SenderOwn, Conn
  <2>2. CASE Calm
    BY <2>1, <2>2 DEF Calm, Whole, Has, Held
  <2>3. ASSUME NEW t \in Task, Acting(t), Stage(t)
        PROVE  n \in queues /\ n \in open
    BY <2>1, <2>3 DEF Acting, Connecting, Resetting, Stage, Whole, Has, Held
  <2> QED
    BY <2>2, <2>3 DEF XInv, Serial
<1>5. RestoredOnce
  <2>1. blocks \in 0 .. 1 /\ active \in 0 .. MaxBlocks /\ MaxBlocks \in Nat /\ Elsewhere \in 1 .. MaxBlocks - 1
    BY ChannelConstants DEF XInv, TInv, TypeOK
  <2> QED
    BY <2>1 DEF XInv, Accounts, RestoredOnce
<1> QED
  BY <1>2, <1>3, <1>4, <1>5

\* The step of a run up to its first overlap.
LEMMA NotYet ==
  ASSUME [Next]_vars, [crossed' = (crossed \/ Crossing)]_<<vars, crossed>>, ~crossed'
  PROVE  ~crossed /\ [Next /\ ~Crossing]_vars
<1>1. CASE crossed' = (crossed \/ Crossing)
  <2>1. ~crossed /\ ~Crossing
    BY <1>1
  <2> QED
    BY <2>1
<1>2. CASE UNCHANGED <<vars, crossed>>
  BY <1>2
<1> QED
  BY <1>1, <1>2

LEMMA ChannelSerial == Spec /\ History => [](~crossed => XInv)
<1>1. Init => XInv
  BY InitSerial
<1>2. /\ ~crossed => XInv
      /\ [Next]_vars
      /\ [crossed' = (crossed \/ Crossing)]_<<vars, crossed>>
      => (~crossed => XInv)'
  BY NotYet, SerialKept
<1> QED
  BY <1>1, <1>2, PTL DEF Spec, History

\* Whatever handlers may overlap, no socket, queue or sender is left that the
\* channel does not name before two of them did: each leak has an overlap for its
\* cause, and no failing exit of a connect and no reset leaks by itself.
THEOREM LeaksFollowOverlap == Spec /\ History => []LeaksCross
BY ChannelSerial, CalmHolds, PTL DEF LeaksCross, NothingLeaked

\* Nor does a channel that is not ACTIVE hold anything before that.
THEOREM OnlyActiveHoldsTillOverlap == Spec /\ History => []FieldsCross
BY ChannelSerial, CalmHolds, PTL DEF FieldsCross, OnlyActiveHolds

\* Nor is there a sender that can run without its queue or its socket.
THEOREM SendersOwnTillOverlap == Spec /\ History => []SendersCross
BY ChannelSerial, CalmHolds, PTL DEF SendersCross, SenderHasItsOwn

\* Nor do the blocks of a channel return twice, however many tasks notice its end
\* and whoever has its descriptor by then.
THEOREM BlocksOnceTillOverlap == Spec /\ History => []BlocksCross
BY ChannelSerial, CalmHolds, PTL DEF BlocksCross, RestoredOnce

(***************************************************************************)
(* Both ends.                                                              *)
(***************************************************************************)

HostTyped == far \in [Conn -> FarPlace] /\ frames \in [Conn -> 0 .. MaxFrames]

\* To the delegator, a step of a host or of the traffic is nothing, and a dial
\* that the host's backlog admits is a dial.
LEMMA LinkStep == [LinkNext]_linkVars => [Next]_vars
<1> SUFFICES ASSUME [LinkNext]_linkVars PROVE [Next]_vars
  OBVIOUS
<1>1. CASE UNCHANGED linkVars
  BY <1>1 DEF linkVars
<1>2. CASE LocalNext
  BY <1>2 DEF Next
<1>3. ASSUME NEW t \in {Mqtt, Manager}, Dialled(t) PROVE Next
  BY <1>3 DEF Dialled, Next
<1>4. ASSUME NEW n \in Conn, Hosting(n) \/ SendItem(n) PROVE UNCHANGED vars
  BY <1>4 DEF Hosting, ServerAccepts, HostingStarts, HostingReceives, HostingAnswers, HostingEnds, SendItem
<1> QED
  BY <1>1, <1>2, <1>3, <1>4 DEF LinkNext

LEMMA HostKept == TInv /\ HostTyped /\ [LinkNext]_linkVars => HostTyped'
<1> SUFFICES ASSUME TInv, HostTyped, [LinkNext]_linkVars PROVE HostTyped'
  OBVIOUS
<1>p. {"backlog", "start", "recv", "serve", "done", "orphan", "closed"} \subseteq FarPlace
  BY DEF FarPlace
<1>f. ASSUME NEW n \in Conn, NEW p \in FarPlace, FarTo(n, p) PROVE far' \in [Conn -> FarPlace]
  BY <1>f DEF FarTo, HostTyped
<1>1. CASE UNCHANGED hostVars
  BY <1>1 DEF hostVars, HostTyped
<1>2. ASSUME NEW t \in Client, Dialled(t) PROVE HostTyped'
  <2>1. at'[t] = "queue" => mine[t] \in Conn
    <3>1. mine[t] \in 1 .. dials /\ dials \in 0 .. MaxDials /\ MaxDials \in Nat
      BY <1>2, ChannelConstants DEF made, Dialled, DialEnds, TInv, MineOK, MineAt, TypeOK
    <3> QED
      BY <3>1 DEF Conn
  <2> QED
    BY <1>2, <1>p, <1>f, <2>1 DEF Dialled, HostTyped
<1>3. ASSUME NEW n \in Conn, Hosting(n) PROVE HostTyped'
  <2>1. frames' \in [Conn -> 0 .. MaxFrames]
    <3>1. CASE HostingReceives(n)
      <4>1. frames[n] \in 0 .. MaxFrames /\ MaxFrames \in Nat
        BY LinkConstants DEF HostTyped
      <4>2. frames[n] > 0 => frames[n] - 1 \in 0 .. MaxFrames
        BY <4>1
      <4> QED
        BY <3>1, <4>2 DEF HostingReceives, HostTyped
    <3>2. CASE UNCHANGED frames
      BY <3>2 DEF HostTyped
    <3> QED
      BY <1>3, <3>1, <3>2 DEF Hosting, ServerAccepts, HostingStarts, HostingAnswers, HostingEnds
  <2>2. far' \in [Conn -> FarPlace]
    BY <1>3, <1>p, <1>f
    DEF Hosting, ServerAccepts, HostingStarts, HostingReceives, HostingAnswers, HostingEnds, Refused, Exit
  <2> QED
    BY <2>1, <2>2 DEF HostTyped
<1>4. ASSUME NEW n \in Conn, SendItem(n) PROVE HostTyped'
  <2>1. \A m \in Conn : frames[m] \in 0 .. MaxFrames /\ MaxFrames \in Nat
    BY LinkConstants DEF HostTyped
  <2>2. \A m \in Conn : frames[m] < MaxFrames => frames[m] + 1 \in 0 .. MaxFrames
    BY <2>1
  <2> QED
    <3>1. PICK m \in open : frames[m] < MaxFrames /\ frames' = [frames EXCEPT ![m] = @ + 1]
      BY <1>4 DEF SendItem, Closed
    <3>2. m \in Conn /\ UNCHANGED far
      BY <1>4 DEF SendItem, TInv, TypeOK
    <3>3. frames[m] + 1 \in 0 .. MaxFrames
      BY <2>2, <3>1, <3>2
    <3> QED
      BY <3>1, <3>2, <3>3 DEF HostTyped
<1> QED
  BY <1>1, <1>2, <1>3, <1>4 DEF LinkNext, linkVars, Client

\* The two ends together do, at the delegator, what its tasks alone may do: what
\* is proved of TransportChannel holds of TransportLink.
THEOREM LinkImplementsChannel == LinkSpec => Spec
<1>1. LinkInit => Init
  BY DEF LinkInit
<1> QED
  BY <1>1, LinkStep, PTL DEF LinkSpec, Spec

\* Both ends keep their types, whatever handlers overlap and whatever the host
\* runs out of.
THEOREM LinkTyped == LinkSpec => []LinkTypeOK
<1>1. LinkInit => TInv /\ HostTyped
  <2>1. LinkInit => HostTyped
    BY LinkConstants DEF LinkInit, HostTyped, FarPlace
  <2> QED
    BY <2>1, InitTyped DEF LinkInit
<1>2. TInv /\ HostTyped /\ [LinkNext]_linkVars => (TInv /\ HostTyped)'
  BY LinkStep, TypeKept, HostKept
<1>3. TInv /\ HostTyped => LinkTypeOK
  BY DEF TInv, HostTyped, LinkTypeOK
<1> QED
  BY <1>1, <1>2, <1>3, PTL DEF LinkSpec

\* What is proved of the channel holds with its host at the other end.
COROLLARY LinkSafe ==
  LinkSpec /\ History
    => [](crossed \/ (NothingLeaked /\ OnlyActiveHolds /\ SenderHasItsOwn /\ RestoredOnce))
BY LinkImplementsChannel, ChannelSerial, CalmHolds, PTL

(***************************************************************************)
(* A handler is in effect one step.                                        *)
(***************************************************************************)

LEMMA SpentMeans ==
  /\ Spent = {n \in Conn : n <= dials /\ n # mine[Mqtt] /\ n # mine[Manager]}
  /\ Spent' = {n \in Conn : n <= dials' /\ n # mine'[Mqtt] /\ n # mine'[Manager]}
BY DEF Spent

\* A client that stops connecting has spent its connection.
LEMMA SpentMore ==
  ASSUME TInv, NEW t \in Client, Alone(t), mine[t] \in Conn, mine[t] <= dials,
         NEW m \in {-1, 0}, mine' = [mine EXCEPT ![t] = m], dials' = dials
  PROVE  mine[t] \notin Spent /\ Spent' = Spent \cup {mine[t]}
<1>1. PICK v \in Client : v # t /\ Client = {t, v} /\ v \in Task
  BY Tasks DEF Client
<1>2. mine[v] = -1 /\ mine'[v] = -1 /\ mine'[t] = m
  <2>1. mine[v] = -1
    BY <1>1 DEF TInv, MineOK, MineAt, Alone, Resting
  <2> QED
    BY <1>1, <2>1, MineMoved, ChannelConstants DEF TInv, TypeOK, Client
<1>3. \A n \in Conn : n # -1 /\ n # m
  BY DEF Conn
<1>4. /\ Spent = {n \in Conn : n <= dials /\ n # mine[t]}
      /\ Spent' = {n \in Conn : n <= dials}
  <2>1. \A n \in Conn : (n # mine[Mqtt] /\ n # mine[Manager]) <=> n # mine[t]
    BY <1>1, <1>2, <1>3, Tasks
  <2>2. \A n \in Conn : n # mine'[Mqtt] /\ n # mine'[Manager]
    BY <1>1, <1>2, <1>3, Tasks
  <2> QED
    BY <2>1, <2>2, SpentMeans
<1> QED
  BY <1>4

\* A client that begins to connect has spent nothing yet.
LEMMA SpentSame ==
  ASSUME TInv, NEW t \in Client, at[t] = "idle", Dial(t)
  PROVE  Spent' = Spent
<1>t. /\ dials \in Nat /\ mine[t] = -1 /\ mine \in [Client -> -1 .. MaxDials]
      /\ Mqtt \in Client /\ Manager \in Client /\ Client = {Mqtt, Manager}
  BY ChannelConstants, Tasks DEF TInv, TypeOK, MineOK, MineAt, Client
<1>1. CASE mine' = [mine EXCEPT ![t] = dials + 1] /\ dials' = dials + 1
  <2>1. mine'[t] = dials + 1 /\ \A u \in Client \ {t} : mine'[u] = mine[u]
    BY <1>1, <1>t
  <2>2. \A n \in Conn : (n <= dials + 1 /\ n # dials + 1) <=> (n <= dials /\ n # -1)
    BY <1>t DEF Conn
  <2> QED
    BY <1>t, <1>1, <2>1, <2>2, SpentMeans
<1>2. CASE mine' = [mine EXCEPT ![t] = 0] /\ dials' = dials
  <2>1. mine'[t] = 0 /\ \A u \in Client \ {t} : mine'[u] = mine[u]
    BY <1>2, <1>t
  <2>2. \A n \in Conn : n # 0 /\ n # -1
    BY DEF Conn
  <2> QED
    BY <1>t, <1>2, <2>1, <2>2, SpentMeans
<1> QED
  BY <1>1, <1>2 DEF made, Dial, pool

\* The steps of a connect: nothing, or Connect.
LEMMA ConnectAtomic ==
  ASSUME XInv, NEW t \in Client, DialEnds(t) \/ Build(t)
  PROVE  [Atomic!AtomicNext]_(Atomic!atomicVars)
<1>u. ~Unwinding /\ ~Unwinding'
  BY ConnectKept
<1>s. Alone(t) /\ Stage(t) /\ MineAt(t)
  <2>1. at[t] \in Connecting
    BY DEF made, DialEnds, Build, MakeQueue, MakeSender, MakeReader, ReportFailure, Store, Connecting
  <2> QED
    BY <2>1, Tasks, Actor DEF XInv, Acting, TInv, MineOK
<1>m. mine[t] \in 1 .. dials => mine[t] \in Conn /\ mine[t] <= dials
  BY ChannelConstants DEF XInv, TInv, TypeOK, Conn
<1>1. ASSUME UNCHANGED <<mine, dials, state, blocks, tcp_fd, active>>
      PROVE  UNCHANGED Atomic!atomicVars
  BY <1>u, <1>1 DEF Atomic!atomicVars, Spent
<1>2. ASSUME mine[t] \in Conn, mine[t] <= dials, NEW m \in {-1, 0}, mine' = [mine EXCEPT ![t] = m],
             UNCHANGED <<dials, state, blocks, active>>,
             tcp_fd' = tcp_fd \/ (state = "ACTIVE" /\ tcp_fd = 0 /\ tcp_fd' = mine[t])
      PROVE  Atomic!AtomicNext
  <2>1. mine[t] \notin Spent /\ Spent' = Spent \cup {mine[t]}
    BY <1>s, <1>2, SpentMore DEF XInv
  <2>2. Atomic!Connect(mine[t])
    BY <1>u, <1>2, <2>1 DEF Atomic!Connect
  <2> QED
    BY <1>2, <2>2 DEF Atomic!AtomicNext
<1>3. CASE DialEnds(t)
  <2>1. mine[t] \in 1 .. dials
    BY <1>s, <1>3 DEF made, DialEnds, MineAt
  <2> QED
    BY <1>1, <1>2, <1>3, <1>m, <2>1 DEF made, DialEnds, GivesUp, chan
<1>4. CASE MakeQueue(t)
  <2>1. mine[t] \in 1 .. dials
    BY <1>s, <1>4 DEF made, MakeQueue, MineAt
  <2> QED
    BY <1>1, <1>2, <1>4, <1>m, <2>1 DEF made, MakeQueue, GivesUp
<1>5. CASE MakeSender(t)
  <2>1. mine[t] \in 1 .. dials
    BY <1>s, <1>5 DEF made, MakeSender, MineAt
  <2> QED
    BY <1>1, <1>2, <1>5, <1>m, <2>1 DEF made, MakeSender, GivesUp
<1>6. CASE MakeReader(t)
  <2>1. mine[t] \in 1 .. dials
    BY <1>s, <1>6 DEF made, MakeReader, MineAt
  <2> QED
    BY <1>1, <1>2, <1>6, <1>m, <2>1 DEF made, MakeReader
<1>7. CASE Store(t)
  <2>1. /\ mine' = [mine EXCEPT ![t] = -1] /\ tcp_fd' = mine[t]
        /\ UNCHANGED <<dials, state, blocks, active>>
        /\ tcp_fd = 0
    BY <1>s, <1>7 DEF made, Store, pool, Stage, Has
  <2>2. CASE mine[t] = 0
    <3>1. Spent' = Spent
      <4>1. mine'[t] = -1 /\ \A u \in Client \ {t} : mine'[u] = mine[u]
        BY <2>1 DEF XInv, TInv, TypeOK, Client
      <4>2. \A n \in Conn : n # 0 /\ n # -1
        BY DEF Conn
      <4> QED
        BY <2>1, <2>2, <4>1, <4>2, SpentMeans, Tasks DEF Client
    <3> QED
      BY <1>u, <2>1, <2>2, <3>1 DEF Atomic!atomicVars
  <2>3. CASE mine[t] # 0
    <3>1. mine[t] \in 1 .. dials
      BY <1>s, <1>7, <2>3, ChannelConstants DEF Store, MineAt, XInv, TInv, TypeOK
    <3>2. state = "ACTIVE"
      BY <1>s, <1>7, <2>3 DEF Store, Stage
    <3> QED
      BY <1>2, <1>m, <2>1, <3>1, <3>2
  <2> QED
    BY <2>2, <2>3
<1>8. CASE ReportFailure(t)
  BY <1>1, <1>8 DEF made, ReportFailure, chan, pool
<1> QED
  BY <1>3, <1>4, <1>5, <1>6, <1>7, <1>8 DEF Build

\* The steps of a reset: Close when the blocks are back, nothing after that.
LEMMA ResetAtomic ==
  ASSUME XInv, NEW t \in Task, Reset(t)
  PROVE  [Atomic!AtomicNext]_(Atomic!atomicVars)
<1>u. (Unwinding <=> ~RestoreBlocks(t)) /\ (Unwinding' <=> ~ClearChannel(t))
  BY ResetKept
<1>s. Stage(t) /\ Acting(t)
  <2>1. at[t] \in Resetting
    BY DEF made, Reset, RestoreBlocks, DeleteSender, DeleteQueue, CloseSocket, ClearChannel, Resetting
  <2> QED
    BY <2>1, Actor DEF XInv, Acting
<1>p. Spent' = Spent
  BY DEF made, Reset, RestoreBlocks, DeleteSender, DeleteQueue, CloseSocket, ClearChannel, pool, Spent
<1>1. CASE RestoreBlocks(t)
  <2>1. state = "ACTIVE" /\ ~Unwinding /\ Unwinding'
    BY <1>1, <1>s, <1>u DEF RestoreBlocks, ClearChannel, Stage
  <2>2. active' = active + blocks
    <3>1. active + blocks = MaxBlocks - Elsewhere
      BY <2>1 DEF XInv, Accounts
    <3> QED
      BY <1>1, <3>1, ChannelConstants DEF RestoreBlocks
  <2>3. Atomic!Close
    BY <1>p, <2>1, <2>2 DEF Atomic!Close
  <2> QED
    BY <2>3 DEF Atomic!AtomicNext
<1>2. CASE DeleteSender(t) \/ DeleteQueue(t) \/ CloseSocket(t)
  <2>1. Unwinding /\ Unwinding' /\ active' = active
    BY <1>2, <1>u DEF made, DeleteSender, DeleteQueue, CloseSocket, RestoreBlocks, ClearChannel
  <2> QED
    BY <1>p, <2>1 DEF Atomic!atomicVars
<1>3. CASE ClearChannel(t)
  <2>1. /\ Unwinding /\ ~Unwinding' /\ active' = active
        /\ state' = "IDLE" /\ blocks' = 0 /\ tcp_fd' = 0
    BY <1>3, <1>u, <1>s DEF ClearChannel, RestoreBlocks, Stage, Has
  <2> QED
    BY <1>p, <2>1 DEF Atomic!atomicVars
<1> QED
  BY <1>1, <1>2, <1>3 DEF made, Reset

\* What begins a handler: Take, Charge, Drop, or nothing.
LEMMA HandlerAtomic ==
  ASSUME ~Crossing, XInv,
         Accept \/ Reject \/ Host \/ TickDials \/ TickResets \/ Offload
  PROVE  [Atomic!AtomicNext]_(Atomic!atomicVars)
<1>u. /\ Calm /\ ~Unwinding
      /\ Unwinding' <=> Reject \/ (TickResets /\ state # "ACTIVE")
  BY HandlerKept
<1>b. /\ blocks = IF state = "IDLE" THEN 0 ELSE 1
      /\ active + (IF state = "ACTIVE" THEN blocks ELSE 0) = MaxBlocks - Elsewhere
      /\ state \in {"IDLE", "REQUESTING", "ACTIVE", "HOSTING"} /\ active \in 0 .. MaxBlocks
  BY <1>u DEF XInv, Accounts, TInv, TypeOK
<1>p. Spent' = Spent
  <2>1. CASE Accept
    BY <2>1, SpentSame, Tasks DEF made, Accept, Begins, Spent, pool, XInv
  <2>2. CASE TickDials
    BY <2>2, SpentSame, Tasks DEF TickDials, Begins, XInv
  <2>3. CASE Reject \/ Host \/ TickResets \/ Offload
    BY <2>3 DEF made, Reject, Host, TickResets, Offload, pool, Spent
  <2> QED
    BY <2>1, <2>2, <2>3
<1>x. Accept \/ Host \/ Offload \/ TickDials => ~Unwinding'
  BY <1>u DEF Accept, TickDials, Host, Offload, Reject, TickResets, chan
<1>1. CASE Accept
  <2>1. /\ state = "REQUESTING" /\ state' = "ACTIVE" /\ tcp_fd = 0 /\ tcp_fd' = 0
        /\ blocks' = blocks
    BY <1>1, <1>u DEF Accept, Calm
  <2>2. active' = active - blocks
    <3>1. active \in Nat /\ blocks = 1 /\ active >= 1
      BY <1>b, <2>1, ChannelConstants
    <3> QED
      BY <1>1, <3>1 DEF Accept, Charged
  <2>3. Atomic!Charge
    BY <1>1, <1>p, <1>u, <1>x, <2>1, <2>2 DEF Atomic!Charge
  <2> QED
    BY <2>3 DEF Atomic!AtomicNext
<1>2. CASE TickDials
  <2>1. UNCHANGED chan
    BY <1>2 DEF TickDials
  <2> QED
    BY <1>2, <1>p, <1>u, <1>x, <2>1 DEF Atomic!atomicVars, chan
<1>3. CASE Host \/ Offload
  <2>1. state = "IDLE" /\ state' \in {"REQUESTING", "HOSTING"} /\ blocks' = 1
        /\ UNCHANGED <<tcp_fd, active>>
    BY <1>3 DEF Host, Offload
  <2>2. Atomic!Take
    BY <1>3, <1>p, <1>u, <1>x, <2>1 DEF Atomic!Take
  <2> QED
    BY <2>2 DEF Atomic!AtomicNext
<1>4. CASE Reject \/ TickResets
  <2>1. UNCHANGED chan
    BY <1>4 DEF Reject, TickResets
  <2>2. CASE Reject \/ state # "ACTIVE"
    <3>1. Unwinding' /\ state \in {"REQUESTING", "HOSTING"} /\ tcp_fd = 0
      BY <1>4, <1>b, <1>u, <2>2 DEF Reject, TickResets, Calm
    <3>2. Atomic!Drop
      BY <1>p, <1>u, <2>1, <3>1 DEF Atomic!Drop, chan
    <3> QED
      BY <3>2 DEF Atomic!AtomicNext
  <2>3. CASE ~Reject /\ state = "ACTIVE"
    BY <1>p, <1>u, <2>1, <2>3 DEF Atomic!atomicVars, chan
  <2> QED
    BY <2>2, <2>3
<1> QED
  BY <1>1, <1>2, <1>3, <1>4

LEMMA AtomicStep ==
  ASSUME XInv, [Next /\ ~Crossing]_vars
  PROVE  [Atomic!AtomicNext]_(Atomic!atomicVars)
<1>1. CASE UNCHANGED vars
  BY <1>1 DEF made, vars, chan, pool, Atomic!atomicVars, Unwinding, Spent
<1>2. ASSUME ~Crossing, NEW n \in Conn, ReaderEnds(n) \/ SendFails(n) \/ SenderEnds(n)
      PROVE  UNCHANGED Atomic!atomicVars
  <2>1. UNCHANGED <<state, blocks, tcp_fd, active, dials, mine>>
    BY <1>2 DEF made, ReaderEnds, SendFails, SenderEnds, chan, pool
  <2>2. Unwinding' <=> Unwinding
    BY <1>2, NoticeKept
  <2> QED
    BY <2>1, <2>2 DEF Atomic!atomicVars, Spent
<1> QED
  BY <1>1, <1>2, ConnectAtomic, ResetAtomic, HandlerAtomic DEF Next, LocalNext, Client

LEMMA AtomicStart == Init => Atomic!AtomicInit
<1> SUFFICES ASSUME Init PROVE Atomic!AtomicInit
  OBVIOUS
<1>1. ~Unwinding
  BY DEF Init, Unwinding
<1>2. Spent = {}
  BY DEF Init, Spent, Conn
<1> QED
  BY <1>1, <1>2 DEF Init, Atomic!AtomicInit

\* Whatever handlers may overlap, until two of them do the tasks that build and take
\* down a connection step by step implement the channel of AtomicChannel.
THEOREM ChannelIsAtomicTillOverlap == Spec /\ History => AtomicTillCrossed
<1>1. /\ ~crossed => XInv
      /\ [Next]_vars
      /\ [crossed' = (crossed \/ Crossing)]_<<vars, crossed>>
      => [~crossed' => [Atomic!AtomicNext]_(Atomic!atomicVars)]_<<vars, crossed>>
  BY NotYet, AtomicStep
<1> QED
  BY <1>1, AtomicStart, ChannelSerial, PTL DEF Spec, History, AtomicTillCrossed
=============================================================================
