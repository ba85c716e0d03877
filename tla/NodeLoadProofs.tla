--------------------------- MODULE NodeLoadProofs ---------------------------
(***************************************************************************)
(* Proofs about NodeLoad, for any loads, window, baseline and lag.         *)
(***************************************************************************)
EXTENDS NodeLoad, TLAPS

\* The counters that gate each other: a window is not longer than it should
\* be, and the baseline is there exactly after its last sample.
Gates ==
  /\ step = "cycle" => cycles < WindowCycles
  /\ baseline <=> calls > BaselineSamples

LInv == TypeOK /\ Gates

\* Whatever is asked of it, a load stays between the floor and the ceiling.
LEMMA LoadsClamped ==
  /\ \A x \in LoadMin .. LoadMax : Lowered(x) \in LoadMin .. LoadMax
  /\ \A x \in LoadMin .. LoadMax : Raised(x) \in LoadMin .. LoadMax
  /\ \A v \in Values : Clamped(v) \in LoadMin .. LoadMax
<1>1. LoadMin \in Nat /\ LoadMax \in Nat /\ LoadMin <= LoadMax /\ LoadStep \in Nat
  BY LoadConstants
<1>2. ASSUME NEW v \in Values PROVE v % Word \in Nat
  <2>1. v \in Nat /\ Word \in Nat /\ Word > 0
    BY LoadConstants
  <2> QED
    BY <2>1
<1> QED
  BY <1>1, <1>2 DEF Lowered, Raised, Clamped

LEMMA InitKeeps == Init => LInv
<1> SUFFICES ASSUME Init PROVE LInv
  OBVIOUS
<1>1. Flags
  BY DEF Init, Flags
<1>2. Gates
  BY LoadConstants DEF Init, Gates
<1> QED
  BY <1>1, <1>2, LoadConstants DEF Init, LInv, TypeOK, Activity

LEMMA ComputeKeeps ==
  ASSUME LInv, ComputeStep
  PROVE  LInv'
<1>1. CASE Cycle
  <2>1. /\ lag' \in 0 .. MaxLag /\ cycles' = cycles + 1
        /\ step' = IF cycles + 1 >= WindowCycles THEN "window" ELSE "cycle"
        /\ cycles < WindowCycles /\ cycles \in Nat
        /\ since' \subseteq Activity
    BY <1>1, LoadConstants DEF Cycle, Worked, Noted, LInv, TypeOK, Gates, Activity
  <2>2. UNCHANGED <<load, sets, winMiss, ready, managerVars, spaced, peerVars,
                    calls, baseline, sampled>>
    BY <1>1 DEF Cycle
  <2>3. Flags'
    BY <1>1, <2>2 DEF Cycle, LInv, TypeOK, Flags, managerVars, peerVars
  <2> QED
    BY <2>1, <2>2, <2>3, LoadConstants DEF LInv, TypeOK, Gates, managerVars, peerVars
<1>2. CASE WriteWindow
  <2>1. Flags'
    BY <1>2 DEF WriteWindow, LInv, TypeOK, Flags, managerVars, peerVars, idleVars
  <2> QED
    BY <1>2, <2>1 DEF WriteWindow, LInv, TypeOK, Gates, managerVars, peerVars, idleVars
<1>3. CASE FlagWindow
  <2>1. Flags'
    BY <1>3 DEF FlagWindow, LInv, TypeOK, Flags, managerVars, peerVars, idleVars
  <2> QED
    BY <1>3, <2>1, LoadConstants
    DEF FlagWindow, LInv, TypeOK, Gates, managerVars, peerVars, idleVars
<1> QED
  BY <1>1, <1>2, <1>3 DEF ComputeStep

LEMMA ManagerKeeps ==
  ASSUME LInv, ManagerStep
  PROVE  LInv'
<1>1. CASE Wake
  <2>1. calls' \in 0 .. BaselineSamples + 1
    BY <1>1, LoadConstants DEF Wake, Sample, LInv, TypeOK
  <2>2. baseline' <=> calls' > BaselineSamples
    <3>1. calls > BaselineSamples => calls' > BaselineSamples
      BY <1>1, LoadConstants DEF Wake, Sample, LInv, TypeOK
    <3> QED
      BY <1>1, <3>1 DEF Wake, Sample, LInv, Gates
  <2>3. since' \subseteq Activity /\ sampled' \subseteq Activity
    BY <1>1 DEF Wake, Sample, LInv, TypeOK
  <2>4. /\ at' = "delegating" /\ stress' \in {"LOW", "MEDIUM", "HIGH"}
        /\ UNCHANGED <<load, sets, computeVars, ready, taken, streak, spaced, peerVars>>
    BY <1>1 DEF Wake
  <2>5. Flags'
    <3>1. baseline' \in BOOLEAN
      BY <1>1 DEF Wake, Sample
    <3>2. due' \in BOOLEAN /\ lastMiss' \in BOOLEAN
      BY <1>1 DEF Wake, LInv, TypeOK, Flags
    <3> QED
      BY <2>4, <3>1, <3>2 DEF LInv, TypeOK, Flags, computeVars, peerVars
  <2> QED
    BY <2>1, <2>2, <2>3, <2>4, <2>5 DEF LInv, TypeOK, Gates, computeVars, peerVars
<1>2. CASE Delegate
  <2>1. Flags'
    BY <1>2 DEF Delegate, LInv, TypeOK, Flags, computeVars, idleVars
  <2> QED
    BY <1>2, <2>1 DEF Delegate, LInv, TypeOK, Gates, computeVars, idleVars
<1>3. CASE Decide
  <2>1. /\ at' \in {"storing", "publishing"}
        /\ at' = "storing" => taken' \in LoadMin .. LoadMax
    BY <1>3, LoadsClamped DEF Decide, LInv, TypeOK
  <2>2. streak' \in 0 .. LowWindows
    BY <1>3, LoadConstants DEF Decide, LInv, TypeOK
  <2>3. UNCHANGED <<load, sets, computeVars, ready, due, stress, lastMiss, spaced,
                    peerVars, idleVars>>
    BY <1>3 DEF Decide
  <2>4. Flags'
    BY <2>3 DEF LInv, TypeOK, Flags, computeVars, peerVars, idleVars
  <2> QED
    BY <2>1, <2>2, <2>3, <2>4 DEF LInv, TypeOK, Gates, computeVars, peerVars, idleVars
<1>4. CASE Store
  <2>1. Flags'
    BY <1>4 DEF Store, LInv, TypeOK, Flags, computeVars, peerVars, idleVars
  <2> QED
    BY <1>4, <2>1, LoadConstants
    DEF Store, LInv, TypeOK, Gates, computeVars, peerVars, idleVars
<1>5. CASE Published
  <2>1. Flags'
    BY <1>5 DEF Published, LInv, TypeOK, Flags, computeVars, peerVars, idleVars
  <2> QED
    BY <1>5, <2>1 DEF Published, LInv, TypeOK, Gates, computeVars, peerVars, idleVars
<1> QED
  BY <1>1, <1>2, <1>3, <1>4, <1>5 DEF ManagerStep

LEMMA OthersKeep ==
  ASSUME LInv,
         SetLoad \/ ChannelTurns \/ PeersChange \/ HostingRuns \/ Elapse \/ UNCHANGED vars
  PROVE  LInv'
<1>1. CASE SetLoad
  <2>1. load' \in LoadMin .. LoadMax /\ sets' \in 0 .. MaxSets
    BY <1>1, LoadsClamped, LoadConstants DEF SetLoad, LInv, TypeOK
  <2>2. UNCHANGED <<computeVars, ready, managerVars, spaced, peerVars, idleVars>>
    BY <1>1 DEF SetLoad
  <2>3. Flags'
    BY <2>2 DEF LInv, TypeOK, Flags, computeVars, managerVars, peerVars, idleVars
  <2> QED
    BY <2>1, <2>2, <2>3 DEF LInv, TypeOK, Gates, computeVars, managerVars, peerVars, idleVars
<1>2. CASE ChannelTurns
  <2>1. Flags'
    BY <1>2 DEF ChannelTurns, LInv, TypeOK, Flags, computeVars, managerVars, idleVars
  <2> QED
    BY <1>2, <2>1 DEF ChannelTurns, LInv, TypeOK, Gates, computeVars, managerVars, idleVars
<1>3. CASE PeersChange
  <2>1. Flags'
    BY <1>3 DEF PeersChange, LInv, TypeOK, Flags, computeVars, managerVars, idleVars
  <2> QED
    BY <1>3, <2>1 DEF PeersChange, LInv, TypeOK, Gates, computeVars, managerVars, idleVars
<1>4. CASE HostingRuns
  <2>1. Flags'
    BY <1>4 DEF HostingRuns, Noted, LInv, TypeOK, Flags, computeVars, managerVars, peerVars
  <2> QED
    BY <1>4, <2>1 DEF HostingRuns, Noted, LInv, TypeOK, Gates, Activity, computeVars, managerVars, peerVars
<1>5. CASE Elapse
  <2>1. Flags'
    BY <1>5 DEF Elapse, LInv, TypeOK, Flags, computeVars, managerVars, peerVars, idleVars
  <2> QED
    BY <1>5, <2>1 DEF Elapse, LInv, TypeOK, Gates, computeVars, managerVars, peerVars, idleVars
<1>6. CASE UNCHANGED vars
  <2>1. Flags'
    BY <1>6 DEF vars, LInv, TypeOK, Flags, computeVars, managerVars, peerVars, idleVars
  <2> QED
    BY <1>6, <2>1 DEF vars, LInv, TypeOK, Gates, computeVars, managerVars, peerVars, idleVars
<1> QED
  BY <1>1, <1>2, <1>3, <1>4, <1>5, <1>6

THEOREM LoadInvariant == Spec => []LInv
<1>1. LInv /\ [Next]_vars => LInv'
  BY ComputeKeeps, ManagerKeeps, OthersKeep DEF Next
<1> QED
  BY <1>1, InitKeeps, PTL DEF Spec

\* Every variable keeps its range: load_factor stays within its clamp, whoever
\* writes it last and however old the value is that he writes.
THEOREM TypeCorrect == Spec => []TypeOK
BY LoadInvariant, PTL DEF LInv
-----------------------------------------------------------------------------
(***************************************************************************)
(* The idle baseline.  What took idle time since the last sample is the    *)
(* boot only before the first call, and the node's own blocks only once    *)
(* the baseline is there, when no call is a sample any more.               *)
(***************************************************************************)

IdleKept ==
  /\ BaselineUnloaded
  /\ "boot" \in since => calls = 0
  /\ "compute" \in since => baseline

\* The baseline holds no time of the boot, and none of the node's own blocks: it
\* is taken of idle time and of what delegation costs on either side.
THEOREM BaselineCorrect == Spec => []BaselineUnloaded
<1>1. Init => IdleKept
  BY DEF Init, IdleKept, BaselineUnloaded
<1>2. ASSUME LInv, IdleKept, [Next]_vars PROVE IdleKept'
  <2>1. CASE Cycle
    BY <1>2, <2>1 DEF Cycle, Worked, Noted, Effective, IdleKept, BaselineUnloaded
  <2>2. CASE Wake
    <3>1. Sampling => since \subseteq {"delegation"}
      BY <1>2, LoadConstants DEF Sampling, IdleKept, LInv, Gates, TypeOK, Activity
    <3> QED
      BY <1>2, <2>2, <3>1 DEF Wake, Sample, IdleKept, BaselineUnloaded
  <2>3. CASE HostingRuns
    BY <1>2, <2>3 DEF HostingRuns, Noted, IdleKept, BaselineUnloaded
  <2>4. CASE UNCHANGED idleVars
    BY <1>2, <2>4 DEF idleVars, IdleKept, BaselineUnloaded
  <2> QED
    BY <1>2, <2>1, <2>2, <2>3, <2>4 DEF Next, ComputeStep, ManagerStep, WriteWindow,
       FlagWindow, Delegate, Decide, Store, Published, SetLoad, ChannelTurns,
       PeersChange, Elapse, vars
<1> QED
  BY <1>1, <1>2, LoadInvariant, PTL DEF Spec, IdleKept
=============================================================================
