-------------------------- MODULE TransportChannel --------------------------
(***************************************************************************)
(* One delegation channel and the tasks that build and take down its       *)
(* connection, step by step: work_transport_connect, run by the MQTT task  *)
(* and by manager_task, and reset_channel, run by whoever finds the        *)
(* channel lost, drained or refused.  Nothing guards the channel's fields. *)
(*                                                                         *)
(* One core runs all tasks.  A task takes a step when none of higher       *)
(* priority is ready; equal priorities share time, so they interleave.     *)
(* Connection n is the n-th socket made for the channel; its queue, sender *)
(* and receiver carry its number, and 0 stands for -1 or NULL.  The code   *)
(* knows a socket by its descriptor alone, which is free for another one   *)
(* as soon as the socket is closed: what it compares and closes is fd[n].  *)
(***************************************************************************)
EXTENDS Integers, FiniteSets

CONSTANTS
  MaxDials,   \* bound: sockets made for the channel
  NumFds,     \* the descriptors the stack has, for this channel and all else
  MaxBlocks,  \* PROCESSING_BLOCKS
  Elsewhere,  \* blocks delegated over the other channels
  Overlap     \* what a task may be in the middle of when another begins to
              \* handle the channel: "connect", "reset"; a lock held by every
              \* handler would make it empty, and the code has none

ASSUME ChannelConstants ==
  /\ MaxDials \in Nat /\ NumFds \in Nat \ {0}
  /\ MaxBlocks \in Nat /\ Elsewhere \in 1 .. MaxBlocks - 1
  /\ Overlap \subseteq {"connect", "reset"}

Conn == 1 .. MaxDials

Mqtt      == <<"mqtt", 0>>
Manager   == <<"manager", 0>>
Reader(n) == <<"reader", n>>
Sender(n) == <<"sender", n>>
Readers   == {Reader(n) : n \in Conn}
Senders   == {Sender(n) : n \in Conn}
Task      == {Mqtt, Manager} \cup Readers \cup Senders

\* Where a task is.  "idle" is waiting: for a message, for the next period, on
\* its socket or on its queue; "dial" is blocked in connect().
Connecting == {"dial", "queue", "sender", "reader", "fail", "store"}
Resetting  == {"restore", "unsend", "unqueue", "unsock", "clear"}
Place      == {"off", "idle", "end"} \cup Connecting \cup Resetting

VARIABLES
  state,       \* channels[c].state
  blocks,      \* channels[c].blocks, 0 or 1
  tcp_fd,      \* the socket whose descriptor was stored in channels[c].tcp_fd
  send_queue,  \* channels[c].tcp_send_queue
  sender_task, \* channels[c].tcp_sender_task
  active,      \* active_blocks
  dials,       \* sockets made so far
  fd,          \* fd[n]: the descriptor that socket n got, 0 before it is made
  open,        \* sockets not closed
  queues,      \* send queues not deleted
  at,          \* at[t]: where task t is
  mine         \* mine[t]: the socket t is connecting, 0 failed, -1 none

chan == <<state, blocks, tcp_fd, send_queue, sender_task, active>>
made == <<dials, fd>>
pool == <<made, open, queues>>
vars == <<chan, pool, at, mine>>

\* config.h, work_transport.c: the tasks' priorities; 5 is esp-mqtt's own.
Priority(t) == CASE t = Mqtt -> 5
                 [] t = Manager \/ t \in Readers -> 3
                 [] OTHER -> 1

Waiting(t) == at[t] \in {"off", "idle", "dial"}
Runs(t)    == \A u \in Task : Priority(u) > Priority(t) => Waiting(u)
Quiet      == \A t \in Task : at[t] \in {"off", "idle"}

\* Task t, waiting so far, may begin to handle the channel.
Begins(t) ==
  /\ at[t] = "idle" /\ Runs(t)
  /\ \A u \in Task : /\ at[u] \in Connecting => "connect" \in Overlap
                     /\ at[u] \in Resetting  => "reset" \in Overlap

Init ==
  /\ state = "IDLE" /\ blocks = 0
  /\ tcp_fd = 0 /\ send_queue = 0 /\ sender_task = 0
  /\ active = MaxBlocks - Elsewhere
  /\ dials = 0 /\ fd = [n \in Conn |-> 0]
  /\ open = {} /\ queues = {}
  /\ at = [t \in Task |-> IF t \in Readers \cup Senders THEN "off" ELSE "idle"]
  /\ mine = [t \in {Mqtt, Manager} |-> -1]
-----------------------------------------------------------------------------
(***************************************************************************)
(* work_transport_connect, task t being the MQTT task or the manager.      *)
(***************************************************************************)

\* What the code can tell of a socket, and which one it closes.
Fd(n) == IF n = 0 THEN 0 ELSE fd[n]

Closed(n) == {m \in open : fd[m] = Fd(n)}

\* socket(): made, with a descriptor that no open socket has, or not (the channel
\* is then reported lost at once).
Dial(t) ==
  \/ /\ dials < MaxDials
     /\ dials' = dials + 1
     /\ \E d \in 1 .. NumFds :
          /\ \A m \in open : fd[m] # d
          /\ fd' = [fd EXCEPT ![dials + 1] = d]
     /\ open' = open \cup {dials + 1}
     /\ mine' = [mine EXCEPT ![t] = dials + 1]
     /\ at' = [at EXCEPT ![t] = "dial"]
     /\ UNCHANGED queues
  \/ /\ mine' = [mine EXCEPT ![t] = 0]
     /\ at' = [at EXCEPT ![t] = "fail"]
     /\ UNCHANGED pool

\* The exits of the connect that close the socket and report the loss.
GivesUp(t) ==
  /\ open' = open \ Closed(mine[t])
  /\ mine' = [mine EXCEPT ![t] = 0]
  /\ at' = [at EXCEPT ![t] = "fail"]

\* connect() returns.
DialEnds(t) ==
  /\ at[t] = "dial" /\ Runs(t)
  /\ \/ /\ at' = [at EXCEPT ![t] = "queue"]
        /\ UNCHANGED <<open, mine>>
     \/ GivesUp(t)
  /\ UNCHANGED <<chan, made, queues>>

MakeQueue(t) ==
  /\ at[t] = "queue" /\ Runs(t)
  /\ \/ /\ queues' = queues \cup {mine[t]}
        /\ send_queue' = mine[t]
        /\ at' = [at EXCEPT ![t] = "sender"]
        /\ UNCHANGED <<open, mine>>
     \/ GivesUp(t) /\ UNCHANGED <<queues, send_queue>>
  /\ UNCHANGED <<state, blocks, tcp_fd, sender_task, active, made>>

MakeSender(t) ==
  /\ at[t] = "sender" /\ Runs(t)
  /\ \/ /\ sender_task' = mine[t]
        /\ at' = [at EXCEPT ![t] = "reader", ![Sender(mine[t])] = "idle"]
        /\ UNCHANGED <<open, mine, queues, send_queue>>
     \/ /\ GivesUp(t)
        /\ queues' = queues \ {mine[t]}
        /\ send_queue' = 0
        /\ UNCHANGED sender_task
  /\ UNCHANGED <<state, blocks, tcp_fd, active, made>>

\* Task t goes on to place p, having deleted the sender of the channel unless it
\* is that sender itself.
Stopping(t, p) ==
  [u \in Task |-> IF u = t THEN p
                  ELSE IF sender_task # 0 /\ u = Sender(sender_task) THEN "off" ELSE at[u]]

\* When the receiver cannot be made, the teardown is given the channel's sender
\* and queue, and the local socket.
MakeReader(t) ==
  /\ at[t] = "reader" /\ Runs(t)
  /\ \/ /\ at' = [at EXCEPT ![t] = "store", ![Reader(mine[t])] = "idle"]
        /\ UNCHANGED <<open, mine, queues, send_queue, sender_task>>
     \/ /\ at' = Stopping(t, "fail")
        /\ sender_task' = 0
        /\ queues' = queues \ {send_queue}
        /\ send_queue' = 0
        /\ open' = open \ Closed(mine[t])
        /\ mine' = [mine EXCEPT ![t] = 0]
  /\ UNCHANGED <<state, blocks, tcp_fd, active, made>>

\* The caller stores what the connect returned.
Store(t) ==
  /\ at[t] = "store" /\ Runs(t)
  /\ tcp_fd' = mine[t]
  /\ mine' = [mine EXCEPT ![t] = -1]
  /\ at' = [at EXCEPT ![t] = "idle"]
  /\ UNCHANGED <<state, blocks, send_queue, sender_task, active, pool>>
-----------------------------------------------------------------------------
(***************************************************************************)
(* delegation_handle_tcp_channel_lost and reset_channel.                   *)
(***************************************************************************)

\* The test of delegation_handle_tcp_channel_lost on the descriptor reported.
Obeyed(n) == state = "ACTIVE" /\ Fd(tcp_fd) = Fd(n)

\* A connect that failed reports socket -1 and goes on to return it.
ReportFailure(t) ==
  /\ at[t] = "fail" /\ Runs(t)
  /\ at' = [at EXCEPT ![t] = IF Obeyed(0) THEN "restore" ELSE "store"]
  /\ UNCHANGED <<chan, pool, mine>>

\* work_recv_task leaves its loop: end of file, error, bad frame, no memory.
ReaderEnds(n) ==
  /\ Begins(Reader(n))
  /\ at' = [at EXCEPT ![Reader(n)] = IF Obeyed(n) THEN "restore" ELSE "off"]
  /\ UNCHANGED <<chan, pool, mine>>

\* work_sender_task: a send fails or times out.
SendFails(n) ==
  /\ Begins(Sender(n))
  /\ at' = [at EXCEPT ![Sender(n)] = IF Obeyed(n) THEN "restore" ELSE "end"]
  /\ UNCHANGED <<chan, pool, mine>>

\* work_sender_task after its loop: it erases its own handle only.
SenderEnds(n) ==
  /\ at[Sender(n)] = "end" /\ Runs(Sender(n))
  /\ sender_task' = IF sender_task = n THEN 0 ELSE sender_task
  /\ at' = [at EXCEPT ![Sender(n)] = "off"]
  /\ UNCHANGED <<state, blocks, tcp_fd, send_queue, active, pool, mine>>

\* Mutant: the blocks are read after the channel is cleared.
RestoreCleared(t) ==
  /\ at[t] = "restore" /\ Runs(t)
  /\ at' = [at EXCEPT ![t] = "unsend"]
  /\ UNCHANGED <<chan, pool, mine>>

\* active_blocks gets the channel's blocks back, up to PROCESSING_BLOCKS.  The
\* reclaim of its pending work is in WorkPipeline, the mark on its peer in PeerTable.
RestoreBlocks(t) ==
  /\ at[t] = "restore" /\ Runs(t)
  /\ active' = IF active + blocks > MaxBlocks THEN MaxBlocks ELSE active + blocks
  /\ at' = [at EXCEPT ![t] = "unsend"]
  /\ UNCHANGED <<state, blocks, tcp_fd, send_queue, sender_task, pool, mine>>

\* Mutant: the sender is left running.
StopNoSender(t) == at' = [at EXCEPT ![t] = "unqueue"]

StopSender(t) == at' = Stopping(t, "unqueue")

DeleteSender(t) ==
  /\ at[t] = "unsend" /\ Runs(t)
  /\ StopSender(t)
  /\ sender_task' = 0
  /\ UNCHANGED <<state, blocks, tcp_fd, send_queue, active, pool, mine>>

DeleteQueue(t) ==
  /\ at[t] = "unqueue" /\ Runs(t)
  /\ queues' = queues \ {send_queue}
  /\ send_queue' = 0
  /\ at' = [at EXCEPT ![t] = "unsock"]
  /\ UNCHANGED <<state, blocks, tcp_fd, sender_task, active, made, open, mine>>

\* Mutant: the socket is forgotten, not closed.
AfterForget == open

\* work_transport_disconnect.
AfterDisconnect == open \ Closed(tcp_fd)

\* Mutant: the descriptor is not reset after the disconnect.
CloseSocketKeepsFd(t) ==
  /\ at[t] = "unsock" /\ Runs(t)
  /\ open' = AfterDisconnect
  /\ at' = [at EXCEPT ![t] = "clear"]
  /\ UNCHANGED <<state, blocks, tcp_fd, send_queue, sender_task, active, made, queues, mine>>

CloseSocket(t) ==
  /\ at[t] = "unsock" /\ Runs(t)
  /\ open' = AfterDisconnect
  /\ tcp_fd' = 0
  /\ at' = [at EXCEPT ![t] = "clear"]
  /\ UNCHANGED <<state, blocks, send_queue, sender_task, active, made, queues, mine>>

\* Where the reset returns to: a failed connect still has -1 to store.
After(t) == CASE t \in Readers -> "off"
              [] t \in Senders -> "end"
              [] OTHER -> IF mine[t] = 0 THEN "store" ELSE "idle"

\* Mutant: the reset returns before the state is cleared.
ClearNothing(t) ==
  /\ at[t] = "clear" /\ Runs(t)
  /\ at' = [at EXCEPT ![t] = After(t)]
  /\ UNCHANGED <<chan, pool, mine>>

ClearChannel(t) ==
  /\ at[t] = "clear" /\ Runs(t)
  /\ state' = "IDLE"
  /\ blocks' = 0
  /\ at' = [at EXCEPT ![t] = After(t)]
  /\ UNCHANGED <<tcp_fd, send_queue, sender_task, active, pool, mine>>
-----------------------------------------------------------------------------
(***************************************************************************)
(* What starts all this.                                                   *)
(***************************************************************************)

\* Mutant: the blocks are taken off twice, and without the floor.
ChargedTwice == active - 2 * blocks

Charged == IF active >= blocks THEN active - blocks ELSE 0

\* delegation_handle_reply, DELEGATE_ACCEPT.  An unknown address stores -1, and so
\* does one that inet_pton does not take: its socket is made and closed with
\* nothing between that waits, and no loss is reported.
Accept ==
  /\ Begins(Mqtt)
  /\ state = "REQUESTING"
  /\ state' = "ACTIVE"
  /\ active' = Charged
  /\ \/ Dial(Mqtt) /\ UNCHANGED tcp_fd
     \/ tcp_fd' = 0 /\ UNCHANGED <<pool, at, mine>>
  /\ UNCHANGED <<blocks, send_queue, sender_task>>

\* delegation_handle_reply, DELEGATE_REJECT.
Reject ==
  /\ Begins(Mqtt)
  /\ state = "REQUESTING"
  /\ at' = [at EXCEPT ![Mqtt] = "unsend"]
  /\ UNCHANGED <<chan, pool, mine>>

\* delegation_handle_request accepts a delegator into the idle slot.
Host ==
  /\ Begins(Mqtt)
  /\ state = "IDLE"
  /\ state' = "HOSTING"
  /\ blocks' = 1
  /\ UNCHANGED <<tcp_fd, send_queue, sender_task, active, pool, at, mine>>

\* Mutant: a channel whose peer had no address at first is never dialled.
TickRedialsOnly ==
  /\ Begins(Manager)
  /\ state = "ACTIVE" /\ tcp_fd = 0 /\ dials > 0
  /\ Dial(Manager)
  /\ UNCHANGED chan

\* delegation_tick, the peer alive and its address known: "Retry once per tick
\* until a connection is established."  A malformed address leaves -1 for -1.
TickDials ==
  /\ Begins(Manager)
  /\ state = "ACTIVE" /\ tcp_fd = 0
  /\ Dial(Manager)
  /\ UNCHANGED chan

\* delegation_tick: the peer is silent, or the channel is drained, or a request
\* or a hosting is over.
TickResets ==
  /\ Begins(Manager)
  /\ state # "IDLE"
  /\ at' = [at EXCEPT ![Manager] = IF state = "ACTIVE" THEN "restore" ELSE "unsend"]
  /\ UNCHANGED <<chan, pool, mine>>

\* delegation_try_offload asks a peer, with the idle slot.
Offload ==
  /\ Begins(Manager)
  /\ state = "IDLE"
  /\ state' = "REQUESTING"
  /\ blocks' = 1
  /\ UNCHANGED <<tcp_fd, send_queue, sender_task, active, pool, at, mine>>

Build(t)   == MakeQueue(t) \/ MakeSender(t) \/ MakeReader(t) \/ ReportFailure(t) \/ Store(t)
Reset(t)   == RestoreBlocks(t) \/ DeleteSender(t) \/ DeleteQueue(t)
              \/ CloseSocket(t) \/ ClearChannel(t)

\* Every step but the answer of the far end to a connect().
LocalNext ==
  \/ Accept \/ Reject \/ Host
  \/ TickDials \/ TickResets \/ Offload
  \/ \E t \in {Mqtt, Manager} : Build(t)
  \/ \E t \in Task : Reset(t)
  \/ \E n \in Conn : ReaderEnds(n) \/ SendFails(n) \/ SenderEnds(n)

Next == LocalNext \/ \E t \in {Mqtt, Manager} : DialEnds(t)

Spec == Init /\ [][Next]_vars

\* A task that is not waiting runs on (a sender when compute_task sleeps), connect()
\* returns, and manager_task goes on visiting a channel without a socket and in the
\* end knows a well-formed address for it.
FairSpec ==
  /\ Spec
  /\ \A t \in {Mqtt, Manager} : WF_vars(DialEnds(t) \/ Build(t))
  /\ \A t \in Task : WF_vars(Reset(t))
  /\ WF_vars(TickDials)
-----------------------------------------------------------------------------
Held(n) == IF n = 0 THEN {} ELSE {n}

LiveSenders == {n \in Conn : at[Sender(n)] # "off"}

TypeOK ==
  /\ state \in {"IDLE", "REQUESTING", "ACTIVE", "HOSTING"}
  /\ blocks \in 0 .. 1 /\ active \in 0 .. MaxBlocks
  /\ {tcp_fd, send_queue, sender_task, dials} \subseteq 0 .. MaxDials
  /\ open \subseteq Conn /\ queues \subseteq Conn
  /\ fd \in [Conn -> 0 .. NumFds] /\ \A n \in open : fd[n] # 0
  /\ at \in [Task -> Place]
  /\ mine \in [{Mqtt, Manager} -> -1 .. MaxDials]

\* docs/decisions.md DEC-016: the tasks are "ephemeral (created on ACCEPT, deleted
\* on channel reset)".  Between handlers, every open socket, queue and sender is
\* the one the channel names: nothing is left that no reset will ever release.
NothingLeaked ==
  Quiet => /\ {fd[n] : n \in open} = Held(Fd(tcp_fd))
           /\ queues = Held(send_queue)
           /\ LiveSenders = Held(sender_task)

\* Between handlers only an ACTIVE channel holds resources.
OnlyActiveHolds ==
  Quiet /\ state # "ACTIVE" => tcp_fd = 0 /\ send_queue = 0 /\ sender_task = 0

\* A sender never waits on a queue that was deleted nor sends on a socket that
\* was closed.
SenderHasItsOwn ==
  \A n \in Conn : at[Sender(n)] = "idle" /\ Runs(Sender(n)) => n \in queues /\ n \in open

\* active_blocks never claims blocks that other channels have out: however many
\* tasks notice that the channel is gone, its blocks return once.
RestoredOnce == active <= MaxBlocks - Elsewhere

\* A channel that is ACTIVE without a socket, on which every dispatch fails,
\* does not stay so: it is connected or given up.
SocketFollows ==
  state = "ACTIVE" /\ tcp_fd = 0 ~> state # "ACTIVE" \/ tcp_fd # 0

\* A reset counts as done when the blocks are back; a connect, when its socket
\* is stored.
Unwinding == \E t \in Task : at[t] \in {"unsend", "unqueue", "unsock", "clear"}

Spent == {n \in Conn : n <= dials /\ n \notin {mine[t] : t \in {Mqtt, Manager}}}

\* The abstract specification: every handler, however many steps it takes and
\* wherever it gives up, is in effect one step of AtomicChannel, which is what
\* Delegation and WorkPipeline take it for.
Atomic == INSTANCE AtomicChannel WITH
  Free   <- MaxBlocks - Elsewhere,
  state  <- IF Unwinding THEN "IDLE" ELSE state,
  blocks <- IF Unwinding THEN 0 ELSE blocks,
  conn   <- IF Unwinding THEN 0 ELSE tcp_fd,
  spent  <- Spent

ImplementsAtomic == Atomic!AtomicSpec
=============================================================================
