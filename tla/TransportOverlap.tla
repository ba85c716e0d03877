-------------------------- MODULE TransportOverlap --------------------------
(***************************************************************************)
(* The steps with which a task begins to handle a channel that another     *)
(* task is still connecting or resetting.  The code has no lock that       *)
(* forbids them.  A history variable remembers whether there was one:      *)
(* what holds until then holds of every run of the code.                   *)
(***************************************************************************)
EXTENDS TransportLink

VARIABLE crossed  \* a task has begun in the middle of another's connect or reset

Busy == \E t \in Task : at[t] \in Connecting \cup Resetting

\* A receiver that finds its end and is not obeyed changes nothing of the channel.
Notices(n) == (ReaderEnds(n) /\ Obeyed(n)) \/ SendFails(n)

Crossing ==
  /\ Busy
  /\ \/ Accept \/ Reject \/ Host
     \/ TickDials \/ TickResets \/ Offload
     \/ \E n \in Conn : Notices(n)

History == crossed = FALSE /\ [][crossed' = (crossed \/ Crossing)]_<<vars, crossed>>
-----------------------------------------------------------------------------
\* Of TransportChannel, whatever its tasks may begin in the middle of: every leak
\* has an overlap of two handlers before it, and so has every field that is left
\* on a closed channel, every sender without its queue or socket, and every block
\* restored twice.
LeaksCross   == crossed \/ NothingLeaked
FieldsCross  == crossed \/ OnlyActiveHolds
SendersCross == crossed \/ SenderHasItsOwn
BlocksCross  == crossed \/ RestoredOnce

\* Until the first overlap, every step is a step of AtomicChannel.
AtomicTillCrossed ==
  Atomic!AtomicInit /\ [][~crossed' => [Atomic!AtomicNext]_(Atomic!atomicVars)]_<<vars, crossed>>
=============================================================================
