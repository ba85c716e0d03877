--------------------------- MODULE AtomicChannel ---------------------------
(***************************************************************************)
(* One channel of a delegator as modules Delegation and WorkPipeline take  *)
(* it: a handler is one step, a connection is there or is not, and the     *)
(* blocks of an ACTIVE channel are off active_blocks, once, until the step *)
(* that closes it puts them back, without floor or cap.  TransportChannel  *)
(* implements it as long as no handler begins in the middle of another.    *)
(***************************************************************************)
EXTENDS Integers

CONSTANTS
  Conn,  \* the connections that can be made
  Free   \* active_blocks while this channel has none of them

VARIABLES
  state,   \* channels[c].state
  blocks,  \* channels[c].blocks
  conn,    \* the connection it has, or 0
  active,  \* active_blocks
  spent    \* connections it had, or failed to have

atomicVars == <<state, blocks, conn, active, spent>>

AtomicInit ==
  /\ state = "IDLE" /\ blocks = 0 /\ conn = 0
  /\ active = Free
  /\ spent = {}

\* delegation_try_offload, delegation_handle_request.
Take ==
  /\ state = "IDLE" /\ state' \in {"REQUESTING", "HOSTING"}
  /\ blocks' = 1
  /\ UNCHANGED <<conn, active, spent>>

\* delegation_handle_reply, DELEGATE_ACCEPT, before it connects.
Charge ==
  /\ state = "REQUESTING" /\ state' = "ACTIVE"
  /\ active' = active - blocks
  /\ UNCHANGED <<blocks, conn, spent>>

\* work_transport_connect: no connection is had twice.  Its descriptor may be, and
\* a notice about an earlier one then closes the present one, which Close allows.
Connect(n) ==
  /\ n \notin spent /\ spent' = spent \cup {n}
  /\ \/ state = "ACTIVE" /\ conn = 0 /\ conn' = n
     \/ UNCHANGED conn
  /\ UNCHANGED <<state, blocks, active>>

\* A request or a hosting is over.
Drop ==
  /\ state \in {"REQUESTING", "HOSTING"} /\ state' = "IDLE"
  /\ blocks' = 0
  /\ UNCHANGED <<conn, active, spent>>

\* delegation_handle_tcp_channel_lost, or delegation_tick.
Close ==
  /\ state = "ACTIVE" /\ state' = "IDLE"
  /\ blocks' = 0 /\ conn' = 0
  /\ active' = active + blocks
  /\ UNCHANGED spent

AtomicNext == Take \/ Charge \/ Drop \/ Close \/ \E n \in Conn : Connect(n)

AtomicSpec == AtomicInit /\ [][AtomicNext]_atomicVars
=============================================================================
