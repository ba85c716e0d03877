------------------------------ MODULE NodeLoad ------------------------------
(***************************************************************************)
(* The load of one node as a control loop.  compute_task runs a share of   *)
(* its blocks set by load_factor, counts the deadlines it misses and hands *)
(* a window of these statistics to manager_task, which derives a stress    *)
(* level, opens channels and steps load_factor down or up; SET_LOAD writes *)
(* it too.  The idle baseline that gates compute_task's own blocks, but *)
(* not those of its channels, is taken by the same pass (metrics.c).       *)
(*                                                                         *)
(* manager_task outranks compute_task and can be interrupted by the MQTT   *)
(* task alone, except where it blocks: in delegation_tick (connect) and    *)
(* where it publishes.  Loads are counted in steps, time in cycles.        *)
(***************************************************************************)
EXTENDS Integers

CONSTANTS
  LoadMin, LoadMax,  \* LOAD_FACTOR_MIN, LOAD_FACTOR_MAX
  LoadStep,          \* ADAPT_LOAD_STEP
  LoadStart,         \* DEFAULT_LOAD_START
  Sustainable,       \* the highest load whose cycle takes no more than its period
  Values,            \* the values SET_LOAD is sent with
  Word,              \* 2^32, the range of a uint32_t
  WindowCycles,      \* PROCESSING_WINDOW_CYCLES
  LowWindows,        \* ADAPT_LOW_WINDOWS_TO_INCREASE
  BaselineSamples,   \* CPU_BASELINE_SAMPLES
  MaxLag,            \* bound: cycles that compute_task can be behind
  MaxSets            \* bound: SET_LOAD messages

ASSUME LoadConstants ==
  /\ LoadMin \in Nat /\ LoadMax \in Nat /\ LoadStart \in LoadMin .. LoadMax
  /\ LoadStep \in Nat \ {0}
  /\ Sustainable \in Nat
  /\ Values \subseteq Nat
  /\ Word \in Nat /\ LoadMax < Word
  /\ WindowCycles \in Nat \ {0}
  /\ LowWindows \in Nat \ {0}
  /\ BaselineSamples \in Nat \ {0}
  /\ MaxLag \in Nat \ {0}
  /\ MaxSets \in Nat

VARIABLES
  load,      \* load_factor
  sets,      \* SET_LOAD messages handled
  lag,       \* cycles by which last_wake of compute_task is behind the clock
  step,      \* compute_task: in its cycles, or at the window it publishes
  cycles,    \* processing_exec_count
  missed,    \* deadline_miss_processing is not 0
  winMiss,   \* processing_window_miss is not 0
  ready,     \* processing_window_ready
  at,        \* manager_task: where its pass is
  due,       \* its pass found a window, a window's time after the last change
  stress,    \* self_stress_level
  lastMiss,  \* last_window_miss is not 0
  taken,     \* the load it is about to store
  streak,    \* low_windows_streak
  spaced,    \* a window's time has passed since last_adjust_window_ms
  chan,      \* the dominant state of the node's channels as a delegator
  low, high, \* a peer that is STRESS_LOW, STRESS_HIGH is in the table
  calls,     \* calls of metrics_update_cpu_load that mattered
  baseline,  \* cpu_baseline_ready
  since,     \* what took idle time since the last sample, until the last of all
  sampled    \* what took idle time in the samples of the baseline

computeVars == <<lag, step, cycles, missed, winMiss>>
managerVars == <<at, due, stress, lastMiss, taken, streak>>
peerVars    == <<chan, low, high>>
idleVars    == <<calls, baseline, since, sampled>>
vars == <<load, sets, computeVars, ready, managerVars, spaced, peerVars, idleVars>>

\* What takes idle time: the boot, the blocks a node keeps to itself, and delegation
\* on either side: a hosting task, and compute_task for the blocks of the ACTIVE
\* channels, which it hands out, or runs where that fails.
Activity == {"boot", "compute", "delegation"}

Init ==
  /\ load = LoadStart /\ sets = 0
  /\ lag = 0 /\ step = "cycle" /\ cycles = 0 /\ missed = FALSE
  /\ winMiss = FALSE /\ ready = FALSE
  /\ at = "asleep" /\ due = FALSE /\ stress = "LOW" /\ lastMiss = FALSE
  /\ taken = 0 /\ streak = 0
  /\ spaced = FALSE
  /\ chan = "IDLE" /\ low = FALSE /\ high = FALSE
  /\ calls = 0 /\ baseline = FALSE
  /\ since = {"boot"} /\ sampled = {}
-----------------------------------------------------------------------------
(***************************************************************************)
(* compute_task.  It runs while the manager sleeps or is blocked.          *)
(***************************************************************************)

MayCompute == at \in {"asleep", "delegating", "publishing"}

\* Mutant: the blocks are not held back until the baseline is there.
Ungated == load

\* effective_blocks, in the unit of load: none before the baseline.
Effective == IF baseline THEN load ELSE 0

\* A cycle overruns its period if the node's own blocks do.  With an ACTIVE channel
\* some of them are handed out, whatever the baseline, and what that and the
\* kernels run in place of a failed dispatch take is left open.
Overruns == IF chan = "ACTIVE" THEN BOOLEAN ELSE {Effective > Sustainable}

Worked ==
  (IF Effective > 0 THEN {"compute"} ELSE {}) \cup (IF chan = "ACTIVE" THEN {"delegation"} ELSE {})

\* What took idle time matters as long as samples are still to come.
Noted(what) == IF calls <= BaselineSamples THEN since \cup what ELSE since

\* One cycle.  A late end makes the next one start late: vTaskDelayUntil returns
\* at once until last_wake has caught up, and till then each end is a miss.
Cycle ==
  /\ MayCompute /\ step = "cycle"
  /\ \E late \in Overruns :
       lag' = IF late THEN (IF lag < MaxLag THEN lag + 1 ELSE lag)
              ELSE IF lag > 0 THEN lag - 1 ELSE 0
  /\ missed' = (missed \/ lag' > 0)
  /\ cycles' = cycles + 1
  /\ step' = IF cycles + 1 >= WindowCycles THEN "window" ELSE "cycle"
  /\ since' = Noted(Worked)
  /\ UNCHANGED <<load, sets, winMiss, ready, managerVars, spaced, peerVars, calls, baseline, sampled>>

\* The statistics of the window ...
WriteWindow ==
  /\ MayCompute /\ step = "window"
  /\ winMiss' = missed
  /\ step' = "flag"
  /\ UNCHANGED <<load, sets, lag, cycles, missed, ready, managerVars, spaced, peerVars, idleVars>>

\* ... then the flag, and the counters start again.
FlagWindow ==
  /\ MayCompute /\ step = "flag"
  /\ ready' = TRUE
  /\ cycles' = 0
  /\ missed' = FALSE
  /\ step' = "cycle"
  /\ UNCHANGED <<load, sets, lag, winMiss, managerVars, spaced, peerVars, idleVars>>
-----------------------------------------------------------------------------
(***************************************************************************)
(* manager_task: one pass in five steps.                                   *)
(***************************************************************************)

\* metrics_update_cpu_load: the first call only starts the count, the next
\* CPU_BASELINE_SAMPLES make the baseline.
Sampling == calls \in 1 .. BaselineSamples

Sample ==
  /\ calls' = IF calls <= BaselineSamples THEN calls + 1 ELSE calls
  /\ sampled' = IF Sampling THEN sampled \cup since ELSE sampled
  /\ baseline' = (baseline \/ calls' > BaselineSamples)
  /\ since' = {}

\* The pass begins: the window, if there is one, and the stress it means.
Wake ==
  /\ at = "asleep"
  /\ at' = "delegating"
  /\ Sample
  /\ due' = (ready /\ spaced)
  /\ lastMiss' = IF ready THEN winMiss ELSE lastMiss
  /\ stress' \in IF lastMiss' THEN {"HIGH"} ELSE {"LOW", "MEDIUM"}
  /\ UNCHANGED <<load, sets, computeVars, ready, taken, streak, spaced, peerVars>>

\* delegation_tick and delegation_try_offload, the matter of module Delegation.
Delegate ==
  /\ at = "delegating"
  /\ at' = "deciding"
  /\ chan' \in {"IDLE", chan} \cup (IF stress # "LOW" /\ low THEN {"REQUESTING"} ELSE {})
  /\ UNCHANGED <<load, sets, computeVars, ready, due, stress, lastMiss, taken, streak,
                 spaced, low, high, idleVars>>

\* Mutant: the load is lowered while there is more than a step above the floor.
SheddableAboveStep == load > LoadMin + LoadStep

Sheddable == load > LoadMin

Lowered(x) == IF x - LoadStep > LoadMin THEN x - LoadStep ELSE LoadMin
Raised(x)  == IF x + LoadStep > LoadMax THEN LoadMax ELSE x + LoadStep

\* The adaptation policy, up to the load it has worked out.
Decide ==
  LET sheds == stress = "HIGH" /\ low /\ chan # "ACTIVE"
      calm  == stress = "LOW" /\ ~high
  IN  /\ at = "deciding"
      /\ \/ due /\ sheds /\ Sheddable
            /\ taken' = Lowered(load) /\ at' = "storing"
            /\ UNCHANGED streak
         \/ due /\ calm /\ streak + 1 >= LowWindows /\ load < LoadMax
            /\ taken' = Raised(load) /\ at' = "storing"
            /\ UNCHANGED streak
         \/ /\ ~(due /\ sheds /\ Sheddable)
            /\ ~(due /\ calm /\ streak + 1 >= LowWindows /\ load < LoadMax)
            /\ at' = "publishing"
            /\ streak' = IF ~due \/ sheds THEN streak
                         ELSE IF calm THEN (IF streak < LowWindows THEN streak + 1 ELSE streak)
                         ELSE 0
            /\ UNCHANGED taken
      /\ UNCHANGED <<load, sets, computeVars, ready, due, stress, lastMiss, spaced, peerVars, idleVars>>

\* The store, after whatever SET_LOAD wrote meanwhile.
Store ==
  /\ at = "storing"
  /\ at' = "publishing"
  /\ load' = taken
  /\ spaced' = FALSE
  /\ streak' = 0
  /\ UNCHANGED <<sets, computeVars, ready, due, stress, lastMiss, taken, peerVars, idleVars>>

\* The telemetry is out: whatever window there is now counts as published.
Published ==
  /\ at = "publishing"
  /\ at' = "asleep"
  /\ ready' = FALSE
  /\ UNCHANGED <<load, sets, computeVars, due, stress, lastMiss, taken, streak, spaced, peerVars, idleVars>>
-----------------------------------------------------------------------------
(***************************************************************************)
(* The MQTT task, the hosting tasks and time.                              *)
(***************************************************************************)

\* Mutant: the value is clamped from below only.
ClampedBelow(v) == IF v % Word < LoadMin THEN LoadMin ELSE v % Word

\* The value of SET_LOAD, cut to 32 bits before it is clamped.
Clamped(v) == IF v % Word < LoadMin THEN LoadMin
              ELSE IF v % Word > LoadMax THEN LoadMax ELSE v % Word

SetLoad ==
  /\ sets < MaxSets
  /\ \E v \in Values : load' = Clamped(v)
  /\ sets' = sets + 1
  /\ UNCHANGED <<computeVars, ready, managerVars, spaced, peerVars, idleVars>>

\* delegation_handle_reply and delegation_handle_tcp_channel_lost.
ChannelTurns ==
  /\ \/ chan = "REQUESTING" /\ chan' \in {"ACTIVE", "IDLE"}
     \/ chan = "ACTIVE" /\ chan' = "IDLE"
  /\ UNCHANGED <<load, sets, computeVars, ready, managerVars, spaced, low, high, idleVars>>

\* Telemetry of the peers comes and ages.
PeersChange ==
  /\ at # "deciding"
  /\ low' \in BOOLEAN /\ high' \in BOOLEAN
  /\ UNCHANGED <<load, sets, computeVars, ready, managerVars, spaced, chan, idleVars>>

\* A hosting task computes for a peer.
HostingRuns ==
  /\ MayCompute
  /\ since' = Noted({"delegation"})
  /\ UNCHANGED <<load, sets, computeVars, ready, managerVars, spaced, peerVars, calls, baseline, sampled>>

\* A window's time since the last change.
Elapse ==
  /\ spaced' = TRUE
  /\ UNCHANGED <<load, sets, computeVars, ready, managerVars, peerVars, idleVars>>
-----------------------------------------------------------------------------
ComputeStep == Cycle \/ WriteWindow \/ FlagWindow
ManagerStep == Wake \/ Delegate \/ Decide \/ Store \/ Published

Next == ComputeStep \/ ManagerStep \/ SetLoad \/ ChannelTurns \/ PeersChange \/ HostingRuns \/ Elapse

Spec == Init /\ [][Next]_vars

\* Both tasks run for ever, and so does the clock.
FairSpec ==
  /\ Spec
  /\ WF_vars(ComputeStep) /\ WF_vars(ManagerStep) /\ WF_vars(Elapse)
-----------------------------------------------------------------------------
(***************************************************************************)
(* Properties.                                                             *)
(***************************************************************************)

Flags == {missed, winMiss, ready, due, lastMiss, spaced, low, high, baseline} \subseteq BOOLEAN

\* Every variable keeps its range; above all load_factor stays within its clamp
\* although the MQTT and manager tasks both write it, unlocked, one of them a
\* value it worked out before the other's.
TypeOK ==
  /\ load \in LoadMin .. LoadMax /\ sets \in 0 .. MaxSets
  /\ lag \in 0 .. MaxLag
  /\ step \in {"cycle", "window", "flag"}
  /\ cycles \in 0 .. WindowCycles
  /\ Flags
  /\ at \in {"asleep", "delegating", "deciding", "storing", "publishing"}
  /\ stress \in {"LOW", "MEDIUM", "HIGH"}
  /\ at = "storing" => taken \in LoadMin .. LoadMax
  /\ streak \in 0 .. LowWindows
  /\ chan \in {"IDLE", "REQUESTING", "ACTIVE"}
  /\ calls \in 0 .. BaselineSamples + 1
  /\ since \subseteq Activity /\ sampled \subseteq Activity

\* The idle baseline that every later CPU figure is divided by holds no time
\* before the first pass and none of the node's own blocks, which wait for it, in
\* whatever order the two tasks run.  It may hold time worked for others: nothing
\* keeps a node from hosting in its first 20 s, nor from handing out the blocks of
\* a channel that became ACTIVE in them.
BaselineUnloaded == sampled \subseteq {"delegation"}

\* decisions.md DEC-017: a node that misses deadlines while a peer is STRESS_LOW
\* catches up or gets a channel ACTIVE, whichever windows were lost on the way
\* and whatever load was asked of it, if only now and then a window completes
\* while the manager sleeps.
OverloadAnswered ==
  (<>[]low /\ []<>(at = "asleep" /\ ready)) => (lag > 0 ~> lag = 0 \/ chan = "ACTIVE")
=============================================================================
