--------------------------- MODULE TransportLink ---------------------------
(***************************************************************************)
(* Both ends of a delegation channel: the delegator's tasks are those of   *)
(* TransportChannel; the host's are work_transport_server_task and one     *)
(* work_hosting_task per connection.  A host keeps no list of them: each   *)
(* task alone can free its buffers and close its socket.                   *)
(*                                                                         *)
(* TCP keeps the frames of a connection in order and tells each end that   *)
(* the other closed; a path that is cut shows as a failed send.            *)
(***************************************************************************)
EXTENDS TransportChannel

CONSTANTS
  Backlog,    \* the backlog of listen()
  MaxFrames,  \* bound: work items in the buffers of a connection
  HostFails   \* what the host may run out of: "args", "matrices", "task"

ASSUME LinkConstants ==
  /\ Backlog \in Nat \ {0} /\ MaxFrames \in Nat \ {0}
  /\ HostFails \subseteq {"args", "matrices", "task"}

VARIABLES
  far,    \* far[n]: where the host's end of connection n is
  frames  \* frames[n]: work items sent and not yet received

hostVars == <<far, frames>>
linkVars == <<vars, hostVars>>

\* "start": the task was made and has no matrices; "serve": it has received an
\* item and computes it; "done": its exit; "orphan": a socket without a task.
FarPlace == {"none", "backlog", "start", "recv", "serve", "done", "orphan", "closed"}

LinkInit ==
  /\ Init
  /\ far = [n \in Conn |-> "none"]
  /\ frames = [n \in Conn |-> 0]

FarTo(n, place) == far' = [far EXCEPT ![n] = place]

\* connect() succeeds when the host's stack has room for the connection.
Dialled(t) ==
  /\ DialEnds(t)
  /\ IF at'[t] = "queue"
     THEN /\ Cardinality({n \in Conn : far[n] = "backlog"}) < Backlog
          /\ FarTo(mine[t], "backlog")
     ELSE UNCHANGED far
  /\ UNCHANGED frames
-----------------------------------------------------------------------------
(***************************************************************************)
(* The host.                                                               *)
(***************************************************************************)

\* Mutant: the socket is not closed when the arguments cannot be allocated.
RefusedKeepsSocket == "orphan"

Refused == "closed"

\* work_transport_server_task: one accept and what follows.  Whether the task
\* could be made is not looked at.
ServerAccepts(n) ==
  /\ far[n] = "backlog"
  /\ \/ FarTo(n, "start")
     \/ "args" \in HostFails /\ FarTo(n, Refused)
     \/ "task" \in HostFails /\ FarTo(n, "orphan")
  /\ UNCHANGED <<vars, frames>>

\* work_hosting_task, up to its loop.
HostingStarts(n) ==
  /\ far[n] = "start"
  /\ \/ FarTo(n, "recv")
     \/ "matrices" \in HostFails /\ FarTo(n, "done")
  /\ UNCHANGED <<vars, frames>>

\* recv_exact of a header and two matrices; the end of file comes after what
\* was sent, an error at any time once the delegator has closed.
HostingReceives(n) ==
  /\ far[n] = "recv"
  /\ \/ frames[n] > 0 /\ frames' = [frames EXCEPT ![n] = @ - 1] /\ FarTo(n, "serve")
     \/ n \notin open /\ FarTo(n, "done") /\ UNCHANGED frames
  /\ UNCHANGED vars

\* matrix_multiply_local, then send_exact of a header and the result, which the
\* delegator's receiver reads as they come.
HostingAnswers(n) ==
  /\ far[n] = "serve"
  /\ \/ FarTo(n, "recv")
     \/ n \notin open /\ FarTo(n, "done")
  /\ UNCHANGED <<vars, frames>>

\* Mutant: the task ends with its socket open.
ExitKeepsSocket == "orphan"

Exit == "closed"

\* The label done: the matrices freed, the socket closed, the task deleted.
HostingEnds(n) ==
  /\ far[n] = "done"
  /\ FarTo(n, Exit)
  /\ UNCHANGED <<vars, frames>>

Hosting(n) == ServerAccepts(n) \/ HostingStarts(n) \/ HostingReceives(n)
              \/ HostingAnswers(n) \/ HostingEnds(n)
-----------------------------------------------------------------------------
(***************************************************************************)
(* The delegator's traffic.                                                *)
(***************************************************************************)

\* work_sender_task sends an item.
SendItem(n) ==
  /\ at[Sender(n)] = "idle" /\ Runs(Sender(n))
  /\ \E m \in Closed(n) :
       /\ far[m] # "closed" /\ frames[m] < MaxFrames
       /\ frames' = [frames EXCEPT ![m] = @ + 1]
  /\ UNCHANGED <<vars, far>>

LinkNext ==
  \/ LocalNext /\ UNCHANGED hostVars
  \/ \E t \in {Mqtt, Manager} : Dialled(t)
  \/ \E n \in Conn : Hosting(n) \/ SendItem(n)

\* What wakes a receiver for good: its own socket closed under it, and no other
\* one opened with the descriptor, or the other end's.
AtEnd(n) == IF n \in open THEN far[n] = "closed" ELSE Closed(n) = {}

\* As in TransportChannel; the host's tasks run on, and a receiver whose
\* connection is over gets its turn.
LinkSpec ==
  /\ LinkInit /\ [][LinkNext]_linkVars
  /\ \A t \in {Mqtt, Manager} : WF_linkVars(Dialled(t) \/ (Build(t) /\ UNCHANGED hostVars))
  /\ \A t \in Task : WF_linkVars(Reset(t) /\ UNCHANGED hostVars)
  /\ WF_linkVars(TickDials /\ UNCHANGED hostVars)
  /\ \A n \in Conn : /\ WF_linkVars(Hosting(n))
                     /\ SF_linkVars(AtEnd(n) /\ ReaderEnds(n) /\ UNCHANGED hostVars)
-----------------------------------------------------------------------------
LinkTypeOK ==
  /\ TypeOK
  /\ far \in [Conn -> FarPlace]
  /\ frames \in [Conn -> 0 .. MaxFrames]

\* The host's end of a connection that the delegator closed is closed too, and
\* its buffers freed, although nothing but the socket tells the host: a reset of
\* the delegator's channel leaves nothing behind on the peer.
HostReleases == \A n \in Conn : n \notin open /\ far[n] # "none" ~> far[n] = "closed"

\* A work item that was sent is received by a task that computes it, or the
\* delegator learns that its connection is over: a host that runs out of memory
\* does not keep a channel that it will never serve.
ItemsServedOrConnectionOver ==
  \A n \in Conn : frames[n] > 0 /\ n \in open ~> frames[n] = 0 \/ n \notin open \/ far[n] = "serve"
=============================================================================
