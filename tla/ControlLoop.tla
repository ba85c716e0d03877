---------------------------- MODULE ControlLoop ----------------------------
(***************************************************************************)
(* The dashboard and one node: commands published on the node's control    *)
(* topic, telemetry published back, both at QoS 0.  dashboard/app.py keeps *)
(* what it believes of the node (fault mode, last sight, time sync) in     *)
(* dictionaries that the request threads and the MQTT thread share; mqtt.c *)
(* obeys the commands.                                                     *)
(*                                                                         *)
(* A queue is what a TCP connection and the broker hold for one receiver:  *)
(* in order, and lost at any point.                                        *)
(***************************************************************************)
EXTENDS Integers, Sequences

CONSTANTS
  Epoch,        \* the time of day, in ms, before the first command
  LongMax,      \* LONG_MAX of the node
  MaxCommands,  \* bound: commands given by the operator
  MaxOutages,   \* bound: crashes, losses of power and repairs
  MaxQueue      \* bound: messages in a queue

ASSUME LoopConstants ==
  /\ Epoch \in Nat /\ LongMax \in Nat
  /\ MaxCommands \in Nat /\ MaxOutages \in Nat /\ MaxQueue \in Nat

VARIABLES
  power,       \* the node is up, restarting or off
  outages,     \* outages so far
  suppressed,  \* telemetry_suppressed
  synced,      \* time_sync_ready
  ctrlSeq,     \* last_ctrl_seq
  control,     \* messages for the node
  telemetry,   \* the last_ctrl_seq of the messages for the dashboard
  given,       \* commands given so far
  unfinished,  \* fault commands published whose mode is not recorded yet
  mode,        \* _fault_mode
  seen,        \* the age of _last_seen
  sync,        \* the age of _time_sync
  shown        \* the status /api/failover gave last

nodeVars == <<power, outages, suppressed, synced, ctrlSeq>>
dashVars == <<given, unfinished, mode, seen, sync, shown>>
vars == <<nodeVars, control, telemetry, dashVars>>

Fault  == {"FAIL_SILENT_ON", "FAIL_SILENT_OFF", "REBOOT", "POWEROFF"}
Action == Fault \cup {"SET", "SYNC_TIME"}  \* SET: SET_LOAD and SET_BLOCKS

Command == [action : Action, n : 0 .. MaxCommands]

\* int(time.time() * 1000) when command n is given.
SeqOf(n) == Epoch + n

Init ==
  /\ power = "up" /\ outages = 0
  /\ suppressed = FALSE /\ synced = FALSE /\ ctrlSeq = 0
  /\ control = <<>> /\ telemetry = <<>>
  /\ given = 0 /\ unfinished = {}
  /\ mode = "NORMAL" /\ seen = "never" /\ sync = "never" /\ shown = "none"

-----------------------------------------------------------------------------
(***************************************************************************)
(* The dashboard's request threads.                                        *)
(***************************************************************************)

\* control, up to the return of publish_control.
Give(a) ==
  /\ given < MaxCommands /\ Len(control) < MaxQueue
  /\ given' = given + 1
  /\ control' = Append(control, [action |-> a, n |-> given + 1])
  /\ unfinished' = IF a \in Fault THEN unfinished \cup {a} ELSE unfinished
  /\ UNCHANGED <<nodeVars, telemetry, mode, seen, sync, shown>>

ModeOf(a) == CASE a = "FAIL_SILENT_ON"  -> "SILENT"
               [] a = "FAIL_SILENT_OFF" -> "NORMAL"
               [] a = "REBOOT"          -> "REBOOTING"
               [] a = "POWEROFF"        -> "POWEROFF"

\* The rest of it, under the lock; of two requests either may be first.
RecordMode(a) ==
  /\ mode' = ModeOf(a)
  /\ unfinished' = unfinished \ {a}
  /\ UNCHANGED <<nodeVars, control, telemetry, given, seen, sync, shown>>

\* Mutant: a failure is reported by the poll that detects it only.
StatusOnce == IF seen = "stale" /\ shown # "failed" THEN "failed" ELSE "ok"

Status == IF seen = "stale" THEN "failed" ELSE "ok"

\* api_failover, polled by the page.
Poll ==
  /\ seen # "never"
  /\ shown' = Status
  /\ UNCHANGED <<nodeVars, control, telemetry, given, unfinished, mode, seen, sync>>

\* _FAILOVER_TIMEOUT_SEC without telemetry.
SightAges ==
  /\ seen = "fresh" /\ seen' = "stale"
  /\ UNCHANGED <<nodeVars, control, telemetry, given, unfinished, mode, sync, shown>>

\* _TIME_SYNC_INTERVAL_SEC since a sync.
SyncAges ==
  /\ sync = "recent" /\ sync' = "due"
  /\ UNCHANGED <<nodeVars, control, telemetry, given, unfinished, mode, seen, shown>>
-----------------------------------------------------------------------------
(***************************************************************************)
(* The dashboard's MQTT thread.                                            *)
(***************************************************************************)

\* Mutant: time is synchronised on the first sighting only.
SyncOnce == sync = "never"

SyncWanted == sync \in {"never", "due"}

\* Mutant: only a reboot is taken back.
AliveAgainRebooted == IF mode = "REBOOTING" THEN "NORMAL" ELSE mode

\* Any telemetry from the node means it is alive again.
AliveAgain == IF mode \in {"REBOOTING", "POWEROFF"} THEN "NORMAL" ELSE mode

\* update_state.  A SYNC_TIME for which there is no room is one that is lost.
UpdateState ==
  /\ telemetry # <<>>
  /\ telemetry' = Tail(telemetry)
  /\ seen' = "fresh"
  /\ mode' = AliveAgain
  /\ sync' = IF SyncWanted THEN "recent" ELSE sync
  /\ control' = IF SyncWanted /\ Len(control) < MaxQueue
                THEN Append(control, [action |-> "SYNC_TIME", n |-> 0]) ELSE control
  /\ UNCHANGED <<nodeVars, given, unfinished, shown>>

\* QoS 0.
Lose ==
  /\ \/ control # <<>> /\ control' = Tail(control) /\ UNCHANGED telemetry
     \/ telemetry # <<>> /\ telemetry' = Tail(telemetry) /\ UNCHANGED control
  /\ UNCHANGED <<nodeVars, dashVars>>
-----------------------------------------------------------------------------
(***************************************************************************)
(* The node.                                                               *)
(***************************************************************************)

\* Mutant: the digits are taken as they are.
ParsedWide(seq) == seq

\* strtol on the digits of a seq: what exceeds a long becomes the largest long.
Parsed(seq) == IF seq > LongMax THEN LongMax ELSE seq

\* mqtt_event_handler on the control topic.  REBOOT and POWEROFF, 100 ms later,
\* end all the tasks; SYNC_TIME leaves last_ctrl_seq as it was.
Obey ==
  /\ power = "up" /\ control # <<>>
  /\ control' = Tail(control)
  /\ LET c == Head(control)
     IN  /\ power' = CASE c.action = "REBOOT"   -> "restarting"
                       [] c.action = "POWEROFF" -> "off"
                       [] OTHER                 -> power
         /\ suppressed' = CASE c.action = "FAIL_SILENT_ON"  -> TRUE
                            [] c.action = "FAIL_SILENT_OFF" -> FALSE
                            [] OTHER                        -> suppressed
         /\ synced' = (synced \/ c.action = "SYNC_TIME")
         /\ IF c.action \in {"SET", "FAIL_SILENT_ON", "FAIL_SILENT_OFF"}
            THEN ctrlSeq' = Parsed(SeqOf(c.n)) ELSE UNCHANGED ctrlSeq
  /\ UNCHANGED <<outages, telemetry, dashVars>>

ObeySync == Obey /\ Head(control).action = "SYNC_TIME"

\* manager_task and mqtt_publish_telemetry.
Publish ==
  /\ power = "up" /\ ~suppressed
  /\ Len(telemetry) < MaxQueue
  /\ telemetry' = Append(telemetry, ctrlSeq)
  /\ UNCHANGED <<nodeVars, control, dashVars>>

\* A crash restarts the node; its power may fail and be given back.
Outage ==
  /\ outages < MaxOutages
  /\ outages' = outages + 1
  /\ \/ power = "up" /\ power' \in {"restarting", "off"}
     \/ power = "off" /\ power' = "restarting"
  /\ UNCHANGED <<suppressed, synced, ctrlSeq, control, telemetry, dashVars>>

\* app_main: nothing outlives a restart, and no message waits for the node.
Boot ==
  /\ power = "restarting"
  /\ power' = "up"
  /\ suppressed' = FALSE /\ synced' = FALSE /\ ctrlSeq' = 0
  /\ control' = <<>>
  /\ UNCHANGED <<outages, telemetry, dashVars>>
-----------------------------------------------------------------------------
Next ==
  \/ \E a \in Action \ {"SYNC_TIME"} : Give(a)
  \/ \E a \in unfinished : RecordMode(a)
  \/ Poll \/ SightAges \/ SyncAges \/ UpdateState \/ Lose
  \/ Obey \/ Publish \/ Outage \/ Boot

Spec == Init /\ [][Next]_vars

\* Every task and thread keeps running, time passes, a restarting node comes up,
\* and the network is fair: a message sent again and again comes through.
FairSpec ==
  /\ Spec
  /\ WF_vars(Publish) /\ WF_vars(Obey) /\ WF_vars(Boot)
  /\ WF_vars(Poll) /\ WF_vars(SightAges) /\ WF_vars(SyncAges)
  /\ WF_vars(\E a \in unfinished : RecordMode(a))
  /\ SF_vars(UpdateState) /\ SF_vars(ObeySync)
-----------------------------------------------------------------------------
(***************************************************************************)
(* Properties.                                                             *)
(***************************************************************************)

TypeOK ==
  /\ power \in {"up", "restarting", "off"} /\ outages \in 0 .. MaxOutages
  /\ {suppressed, synced} \subseteq BOOLEAN
  /\ ctrlSeq \in Nat /\ ctrlSeq <= LongMax
  /\ given \in 0 .. MaxCommands
  /\ \A i \in DOMAIN control : control[i] \in Command
  /\ \A i \in DOMAIN telemetry : telemetry[i] \in Nat /\ telemetry[i] <= LongMax
  /\ Len(control) <= MaxQueue /\ Len(telemetry) <= MaxQueue
  /\ unfinished \subseteq Fault
  /\ mode \in {"NORMAL", "SILENT", "REBOOTING", "POWEROFF"}
  /\ seen \in {"never", "fresh", "stale"} /\ sync \in {"never", "recent", "due"}
  /\ shown \in {"none", "ok", "failed"}

Talking == power = "up" /\ ~suppressed

\* app.py: "Any telemetry from the node means it is alive again."  A node that
\* stays up and speaks is in the end not shown as rebooting or powered off, in
\* whatever order commands, modes and telemetry crossed.
PowerShown == <>[]Talking => <>[](mode \notin {"REBOOTING", "POWEROFF"})

\* system-state-model.md, DEGRADED: a node that was seen and falls silent for
\* good, off or told to be, is reported failed from some time on.
FailureNoticed == (<>[](power = "off" \/ suppressed) /\ <>(seen # "never")) => <>[](shown = "failed")

\* main-walkthrough.md: SYNC_TIME aligns the node's clock; a node that stays up
\* and speaks gets one in the end, however many were lost or sent before its boot.
SyncedInTheEnd == <>[]Talking => <>[]synced
=============================================================================
