---------------------- MODULE WorkPipelineTasksProofs ----------------------
(***************************************************************************)
(* What the table and its counters keep when the dispatch and the handlers *)
(* are preempted between any two of their accesses.  TLC refutes           *)
(* ExactAtRest; these theorems say what no interleaving breaks.            *)
(***************************************************************************)
EXTENDS WorkPipelineTasks, WorkPipelineFlowProofs

-----------------------------------------------------------------------------
(***************************************************************************)
(* The dispatch and the handlers under way.                                *)
(***************************************************************************)

Place == {"queued", "entered", "loaded count", "counted", "loaded total"}

Underway == [slot : Slot, ch : Channel, at : Place, loaded : Nat]

\* Only compute_task dispatches, one block at a time.
OneDispatch ==
  /\ chosen \subseteq Underway
  /\ \A x, y \in chosen : x = y

Stage == {"found", "count", "counted", "enough", "short", "total", "taken", "sweep", "closing"}

Handler == [by : Task, job : {"result", "timeout", "reclaim"}, ch : Channel, slot : Nat,
            at : Stage, amount : Nat, loaded : Nat]

\* Every variable keeps its type, deleg_inflight_total its width, and no two
\* dispatches are under way at a time.
TasksTypeOK == TypeOK /\ total < Word /\ OneDispatch /\ busy \subseteq Handler

\* A step of the dispatch replaces the only record of chosen.
LEMMA ReachedFacts ==
  ASSUME OneDispatch, NEW x \in chosen, NEW from, NEW to \in Place, NEW value \in Nat,
         Reached(x, from, to, value)
  PROVE  /\ chosen = {x} /\ x.at = from /\ x \in Underway
         /\ chosen' = {[x EXCEPT !.at = to, !.loaded = value]}
         /\ OneDispatch'
         /\ \A y \in chosen' : /\ y.slot = x.slot /\ y.ch = x.ch
                               /\ y.at = to /\ y.loaded = value
<1>1. x \in Underway /\ chosen = {x}
  BY DEF OneDispatch
<1>2. chosen' = {[x EXCEPT !.at = to, !.loaded = value]} /\ x.at = from
  BY DEF Reached
<1>3. [x EXCEPT !.at = to, !.loaded = value] \in Underway
  BY <1>1 DEF Underway
<1>4. OneDispatch'
  BY <1>2, <1>3 DEF OneDispatch
<1>5. \A y \in chosen' : y.slot = x.slot /\ y.ch = x.ch /\ y.at = to /\ y.loaded = value
  BY <1>1, <1>2 DEF Underway
<1> QED
  BY <1>1, <1>2, <1>4, <1>5

\* A counter that wraps keeps its width.
LEMMA WordBounds ==
  ASSUME WordIsPositive, NEW a \in Int
  PROVE  a % Word \in Nat /\ a % Word < Word
BY DEF WordIsPositive

\* The records that handlers begin with.
LEMMA HandlerTypes ==
  ASSUME TypeOK, NEW c \in Channel
  PROVE  /\ Manager \in Task /\ Mqtt \in Task /\ Sender(c) \in Task
         /\ \A r \in readers : r.ch \in Channel /\ Receives(r) \in Task
         /\ \A task \in Task :
              /\ Reclaims(task, c) \in Handler /\ Reclaims(task, c).at = "sweep"
              /\ Resets(task, c) \in Handler /\ Resets(task, c).at = "taken"
              /\ \A job \in {"result", "timeout"}, s \in Slot :
                   Takes(task, job, c, s) \in Handler /\ Takes(task, job, c, s).at = "found"
<1>1. 0 \in Channel /\ dials[c] \in Nat
  BY PipelineConstants DEF TypeOK, Channel
<1>2. Manager \in Task /\ Mqtt \in Task /\ Sender(c) \in Task
  BY <1>1 DEF Manager, Mqtt, Sender, Task
<1>3. \A r \in readers : r.ch \in Channel /\ Receives(r) \in Task
  BY DEF TypeOK, Reader, Receives, Task
<1>4. ASSUME NEW task \in Task
      PROVE  /\ Reclaims(task, c) \in Handler /\ Reclaims(task, c).at = "sweep"
             /\ Resets(task, c) \in Handler /\ Resets(task, c).at = "taken"
  <2>1. Reclaims(task, c) \in Handler /\ Reclaims(task, c).at = "sweep"
    BY <1>4 DEF Reclaims, Handler, Stage
  <2>2. "taken" \in Stage
    BY DEF Stage
  <2> QED
    BY <2>1, <2>2 DEF Resets, Handler
<1>5. ASSUME NEW task \in Task, NEW job \in {"result", "timeout"}, NEW s \in Slot
      PROVE  Takes(task, job, c, s) \in Handler /\ Takes(task, job, c, s).at = "found"
  <2>1. s \in Nat
    BY DEF Slot
  <2> QED
    BY <1>5, <2>1 DEF Takes, Handler, Stage
<1> QED
  BY <1>2, <1>3, <1>4, <1>5
-----------------------------------------------------------------------------
(***************************************************************************)
(* What begins a handler leaves the table and the dispatch alone.          *)
(***************************************************************************)

Beginning ==
  \/ \E h \in held : ResultComes(h)
  \/ \E s \in Slot : TimeoutFound(s)
  \/ \E r \in readers : ReceiverEnds(r)
  \/ \E c \in Channel : ChannelDropped(c) \/ ManagerResets(c) \/ ReplyFails(c) \/ SendBreaks(c)

\* Handlers do not begin with a loaded counter.
NoneLoaded == \A y \in busy' : y \in busy \/ y.at # "count"

LEMMA BeginningFacts ==
  ASSUME TasksTypeOK, Beginning
  PROVE  TasksTypeOK' /\ NoneLoaded /\ UNCHANGED <<tableVars, loopVars, chosen>>
<1>1. ASSUME NEW x \in Handler, x.at # "count", Begins(x)
      PROVE  busy' \subseteq Handler /\ NoneLoaded
  BY <1>1 DEF Begins, NoneLoaded, TasksTypeOK
<1>2. ASSUME UNCHANGED busy
      PROVE  busy' \subseteq Handler /\ NoneLoaded
  BY <1>2 DEF NoneLoaded, TasksTypeOK
<1>3. TypeOK
  BY DEF TasksTypeOK
<1>4. ASSUME NEW h \in held, ResultComes(h)
      PROVE  /\ busy' \subseteq Handler /\ NoneLoaded /\ held' \subseteq held
             /\ UNCHANGED <<chanVars, flowVars, readers, pending, beside>>
  <2>1. h.reader.ch \in Channel /\ Receives(h.reader) \in Task
    BY <1>3 DEF TypeOK, Result, Reader, Receives, Task
  <2>2. CASE \E s \in Slot : Begins(Takes(Receives(h.reader), "result", h.reader.ch, s))
    <3>1. PICK s \in Slot : Begins(Takes(Receives(h.reader), "result", h.reader.ch, s))
      BY <2>2
    <3> DEFINE y == Takes(Receives(h.reader), "result", h.reader.ch, s)
    <3>2. y \in Handler /\ y.at = "found" /\ Begins(y)
      BY <1>3, <2>1, <3>1, HandlerTypes
    <3> HIDE DEF y
    <3> QED
      BY <1>1, <1>4, <3>2 DEF ResultComes
  <2> QED
    BY <1>2, <1>4, <2>2 DEF ResultComes
<1>5. ASSUME NEW s \in Slot, TimeoutFound(s)
      PROVE  /\ busy' \subseteq Handler /\ NoneLoaded /\ held' \subseteq held
             /\ UNCHANGED <<chanVars, flowVars, readers, pending, beside>>
  <2>1. pending[s].ch \in Channel /\ Begins(Takes(Manager, "timeout", pending[s].ch, s))
    BY <1>5 DEF TimeoutFound
  <2> QED
    BY <1>1, <1>3, <1>5, <2>1, HandlerTypes DEF TimeoutFound
<1>6. ASSUME NEW r \in readers, ReceiverEnds(r)
      PROVE  /\ busy' \subseteq Handler /\ NoneLoaded /\ readers' \subseteq readers
             /\ UNCHANGED <<chanVars, flowVars, held, pending, beside>>
  <2>1. r.ch \in Channel
    BY <1>3 DEF TypeOK, Reader
  <2>2. CASE Begins(Reclaims(Receives(r), r.ch))
    <3> DEFINE y == Reclaims(Receives(r), r.ch)
    <3>1. y \in Handler /\ y.at = "sweep" /\ Begins(y)
      BY <1>3, <2>1, <2>2, HandlerTypes
    <3> HIDE DEF y
    <3> QED
      BY <1>1, <1>6, <3>1 DEF ReceiverEnds
  <2> QED
    BY <1>2, <1>6, <2>2 DEF ReceiverEnds
<1>7. ASSUME NEW c \in Channel, ChannelDropped(c) \/ ManagerResets(c) \/ SendBreaks(c)
      PROVE  /\ busy' \subseteq Handler /\ NoneLoaded
             /\ UNCHANGED <<chanVars, flowVars, readers, held, pending, beside>>
  <2>1. \E task \in Task : Begins(Reclaims(task, c)) \/ Begins(Resets(task, c))
    BY <1>3, <1>7, HandlerTypes DEF ChannelDropped, ManagerResets, SendBreaks
  <2>2. busy' \subseteq Handler /\ NoneLoaded
    BY <1>1, <1>3, <2>1, HandlerTypes
  <2> QED
    BY <1>7, <2>2 DEF ChannelDropped, ManagerResets, SendBreaks
<1>8. ASSUME NEW c \in Channel, ReplyFails(c)
      PROVE  /\ busy' \subseteq Handler /\ NoneLoaded
             /\ state' \in [Channel -> {"IDLE", "REQUESTING", "ACTIVE"}]
             /\ UNCHANGED <<fd, dials, up, flowVars, readers, held, pending, beside>>
  <2>1. Begins(Reclaims(Mqtt, c)) \/ Begins(Resets(Mqtt, c))
    BY <1>8 DEF ReplyFails
  <2>2. busy' \subseteq Handler /\ NoneLoaded
    BY <1>1, <1>3, <2>1, HandlerTypes
  <2> QED
    BY <1>3, <1>8, <2>2 DEF ReplyFails, TypeOK
<1>9. CASE \E c \in Channel : ReplyFails(c)
  BY <1>8, <1>9
     DEF TasksTypeOK, TypeOK, OneDispatch, flowVars, beside, loopVars, countVars, tableVars
<1>10. CASE ~\E c \in Channel : ReplyFails(c)
  <2>1. /\ busy' \subseteq Handler /\ NoneLoaded
        /\ readers' \subseteq readers /\ held' \subseteq held
        /\ UNCHANGED <<chanVars, flowVars, pending, beside>>
    BY <1>4, <1>5, <1>6, <1>7, <1>10 DEF Beginning
  <2> QED
    BY <2>1
       DEF TasksTypeOK, TypeOK, OneDispatch, chanVars, flowVars, beside, loopVars, countVars, tableVars
<1> QED
  BY <1>9, <1>10
-----------------------------------------------------------------------------
(***************************************************************************)
(* The accesses of a handler.                                              *)
(***************************************************************************)

\* Slots are freed, no count is raised past the cap, and a handler that has
\* loaded a count has loaded what is there.
Relieves ==
  /\ Shrinks
  /\ \A c \in Channel : inFlight[c] <= MaxInflight => inFlight'[c] <= MaxInflight
  /\ \A c \in Channel : inFlight[c] < MaxInflight => inFlight'[c] < MaxInflight
  /\ \A y \in busy' :
       y \in busy \/ y.at # "count" \/ (y.ch \in Channel /\ y.loaded = inFlight[y.ch] /\ y.loaded > 0)

CountsLoaded == \A x \in busy : x.at = "count" => x.loaded \in 1 .. MaxInflight

LEMMA HandlerFacts ==
  ASSUME TasksTypeOK, NEW x \in busy
  PROVE  /\ x \in Handler /\ x.ch \in Channel /\ inFlight[x.ch] \in Nat
         /\ x.slot \in Nat /\ x.amount \in Nat /\ x.loaded \in Nat
         /\ \A at \in Stage : [x EXCEPT !.at = at] \in Handler
         /\ \A at \in Stage, loaded \in Nat : [x EXCEPT !.at = at, !.loaded = loaded] \in Handler
         /\ \A at \in Stage, amount \in Nat, slot \in Nat :
              [x EXCEPT !.slot = slot, !.amount = amount, !.at = at] \in Handler
<1>1. x \in Handler
  BY DEF TasksTypeOK
<1>2. x.ch \in Channel /\ x.slot \in Nat /\ x.amount \in Nat /\ x.loaded \in Nat
  BY <1>1 DEF Handler
<1>3. inFlight[x.ch] \in Nat
  BY <1>2 DEF TasksTypeOK, TypeOK
<1>4. /\ \A at \in Stage : [x EXCEPT !.at = at] \in Handler
      /\ \A at \in Stage, loaded \in Nat : [x EXCEPT !.at = at, !.loaded = loaded] \in Handler
      /\ \A at \in Stage, amount \in Nat, slot \in Nat :
           [x EXCEPT !.slot = slot, !.amount = amount, !.at = at] \in Handler
  BY <1>1 DEF Handler
<1> QED
  BY <1>1, <1>2, <1>3, <1>4

\* An access that moves a handler on and leaves the table as it is.
LEMMA MovesOn ==
  ASSUME TasksTypeOK, NEW x \in busy, NEW y \in Handler, Becomes(x, y),
         y.at # "count" \/ (y.ch \in Channel /\ y.loaded = inFlight[y.ch] /\ y.loaded > 0),
         UNCHANGED <<pending, inFlight>>
  PROVE  busy' \subseteq Handler /\ Relieves
<1>1. busy' \subseteq Handler
  BY DEF Becomes, TasksTypeOK
<1> QED
  BY <1>1, ShrinksIfSame DEF Relieves, Becomes

LEMMA CountAccesses ==
  ASSUME TasksTypeOK, CountsLoaded, NEW x \in busy, CountTested(x) \/ CountStored(x)
  PROVE  /\ busy' \subseteq Handler /\ Relieves
         /\ inFlight' \in [Channel -> Nat] /\ UNCHANGED <<pending, total>>
<1>1. /\ x \in Handler /\ x.ch \in Channel /\ inFlight[x.ch] \in Nat /\ x.loaded \in Nat
      /\ \A at \in Stage : [x EXCEPT !.at = at] \in Handler
      /\ \A at \in Stage, loaded \in Nat : [x EXCEPT !.at = at, !.loaded = loaded] \in Handler
      /\ inFlight \in [Channel -> Nat]
      /\ "count" \in Stage /\ "counted" \in Stage
  BY HandlerFacts DEF TasksTypeOK, TypeOK, Stage
<1>2. CASE CountTested(x) /\ inFlight[x.ch] > 0
  <2> DEFINE y == [x EXCEPT !.at = "count", !.loaded = inFlight[x.ch]]
  <2>1. y \in Handler /\ y.ch = x.ch /\ y.loaded = inFlight[x.ch] /\ Becomes(x, y)
    BY <1>1, <1>2 DEF CountTested, Handler
  <2>2. UNCHANGED <<pending, inFlight, total>>
    BY <1>2 DEF CountTested
  <2> HIDE DEF y
  <2> QED
    BY <1>1, <1>2, <2>1, <2>2, MovesOn
<1>3. CASE CountTested(x) /\ ~(inFlight[x.ch] > 0)
  <2> DEFINE y == [x EXCEPT !.at = "counted"]
  <2>1. y \in Handler /\ y.at = "counted" /\ Becomes(x, y)
    BY <1>1, <1>3 DEF CountTested, Handler
  <2>2. UNCHANGED <<pending, inFlight, total>>
    BY <1>3 DEF CountTested
  <2> HIDE DEF y
  <2> QED
    BY <1>1, <2>1, <2>2, MovesOn
<1>4. CASE CountStored(x)
  <2> DEFINE y == [x EXCEPT !.at = "counted"]
  <2>1. y \in Handler /\ y.at = "counted" /\ busy' = (busy \ {x}) \cup {y}
    BY <1>1, <1>4 DEF CountStored, Becomes, Handler
  <2>2. x.loaded \in 1 .. MaxInflight /\ inFlight' = [inFlight EXCEPT ![x.ch] = x.loaded - 1]
    BY <1>4 DEF CountStored, CountsLoaded
  <2>3. x.loaded - 1 \in Nat /\ x.loaded - 1 < MaxInflight
    BY <2>2, PipelineConstants
  <2>4. /\ inFlight' \in [Channel -> Nat]
        /\ \A c \in Channel : inFlight'[c] = IF c = x.ch THEN x.loaded - 1 ELSE inFlight[c]
    BY <1>1, <2>2, <2>3
  <2>5. /\ \A c \in Channel : inFlight[c] <= MaxInflight => inFlight'[c] <= MaxInflight
        /\ \A c \in Channel : inFlight[c] < MaxInflight => inFlight'[c] < MaxInflight
    BY <2>3, <2>4, PipelineConstants
  <2>6. UNCHANGED <<pending, total>> /\ Shrinks
    BY <1>4, ShrinksIfSame DEF CountStored
  <2> HIDE DEF y
  <2>7. busy' \subseteq Handler /\ \A z \in busy' : z \in busy \/ z.at # "count"
    BY <2>1 DEF TasksTypeOK
  <2> QED
    BY <2>4, <2>5, <2>6, <2>7 DEF Relieves
<1> QED
  BY <1>2, <1>3, <1>4

LEMMA TotalAccesses ==
  ASSUME WordIsPositive, TasksTypeOK, NEW x \in busy,
         TotalTested(x) \/ TotalLoaded(x) \/ TotalStored(x)
  PROVE  /\ busy' \subseteq Handler /\ Relieves
         /\ total' \in Nat /\ total' < Word /\ UNCHANGED <<pending, inFlight>>
<1>1. /\ x \in Handler /\ x.loaded \in Nat /\ x.amount \in Nat
      /\ total \in Nat /\ total < Word
      /\ \A at \in Stage : [x EXCEPT !.at = at] \in Handler
      /\ \A at \in Stage, loaded \in Nat : [x EXCEPT !.at = at, !.loaded = loaded] \in Handler
  BY HandlerFacts DEF TasksTypeOK, TypeOK
<1>2. UNCHANGED <<pending, inFlight>>
  BY DEF TotalTested, TotalLoaded, TotalStored
<1>3. \E at \in Stage \ {"count"} :
        Becomes(x, [x EXCEPT !.at = at]) \/ Becomes(x, [x EXCEPT !.at = at, !.loaded = total])
  <2>1. CASE TotalTested(x)
    <3>1. \E at \in {"enough", "short", "taken"} : Becomes(x, [x EXCEPT !.at = at])
      BY <2>1 DEF TotalTested
    <3> QED
      BY <3>1 DEF Stage
  <2>2. CASE TotalLoaded(x)
    BY <2>2 DEF TotalLoaded, Stage
  <2>3. CASE TotalStored(x)
    BY <2>3 DEF TotalStored, Stage
  <2> QED
    BY <2>1, <2>2, <2>3
<1>4. \E y \in Handler : y.at # "count" /\ Becomes(x, y)
  <2>1. PICK at \in Stage \ {"count"} :
          Becomes(x, [x EXCEPT !.at = at]) \/ Becomes(x, [x EXCEPT !.at = at, !.loaded = total])
    BY <1>3
  <2>2. [x EXCEPT !.at = at].at = at /\ [x EXCEPT !.at = at, !.loaded = total].at = at
    BY <1>1 DEF Handler
  <2> QED
    BY <1>1, <2>1, <2>2
<1>5. busy' \subseteq Handler /\ Relieves
  BY <1>2, <1>4, MovesOn
<1>6. total' \in Nat /\ total' < Word
  <2>1. x.loaded - x.amount \in Int
    <3>1. x.loaded \in Nat /\ x.amount \in Nat
      BY <1>1
    <3> QED
      BY <3>1
  <2>2. 0 < Word
    BY DEF WordIsPositive
  <2>3. CASE TotalStored(x)
    BY <2>1, <2>2, <2>3, WordBounds DEF TotalStored
  <2>4. CASE TotalTested(x) \/ TotalLoaded(x)
    BY <1>1, <2>4 DEF TotalTested, TotalLoaded
  <2> QED
    BY <2>3, <2>4
<1> QED
  BY <1>2, <1>5, <1>6

LEMMA SweepAccess ==
  ASSUME TasksTypeOK, NEW x \in busy, Swept(x)
  PROVE  /\ busy' \subseteq Handler /\ Relieves
         /\ pending' \in [Slot -> Entry] /\ UNCHANGED <<inFlight, total>>
<1> DEFINE mine   == x.slot \in Owned(x.ch)
           amount == IF mine THEN x.amount + 1 ELSE x.amount
           at     == IF x.slot + 1 \in Slot THEN "sweep" ELSE IF amount > 0 THEN "counted" ELSE "taken"
           y      == [x EXCEPT !.slot = x.slot + 1, !.amount = amount, !.at = at]
<1>1. /\ pending' = IF mine THEN [pending EXCEPT ![x.slot] = Cleared] ELSE pending
      /\ busy' = (busy \ {x}) \cup {y}
      /\ UNCHANGED <<inFlight, total>>
  BY DEF Swept, Becomes
<1>2. y \in Handler /\ y.at # "count"
  <2>1. x.slot + 1 \in Nat /\ amount \in Nat
    <3>1. x.slot \in Nat /\ x.amount \in Nat
      BY HandlerFacts
    <3> QED
      BY <3>1
  <2>2. at \in Stage /\ at # "count"
    BY DEF Stage
  <2>3. x \in Handler
    BY HandlerFacts
  <2> HIDE DEF at, amount
  <2> QED
    BY <2>1, <2>2, <2>3 DEF Handler
<1>3. pending' \in [Slot -> Entry] /\ Shrinks
  <2>1. pending \in [Slot -> Entry]
    BY DEF TasksTypeOK, TypeOK
  <2>2. CASE mine
    <3>1. pending' = [pending EXCEPT ![x.slot] = Cleared]
      BY <1>1, <2>2
    <3>2. pending' \in [Slot -> Entry]
      BY <2>1, <3>1, ClearedType
    <3>3. Shrinks
      BY <2>1, <3>1 DEF Shrinks, Pending, Cleared
    <3> QED
      BY <3>2, <3>3
  <2>3. CASE ~mine
    BY <1>1, <2>1, <2>3, ShrinksIfSame
  <2> QED
    BY <2>2, <2>3
<1> HIDE DEF y, mine, amount, at
<1>4. busy' \subseteq Handler /\ \A z \in busy' : z \in busy \/ z.at # "count"
  BY <1>1, <1>2 DEF TasksTypeOK
<1> QED
  BY <1>1, <1>3, <1>4 DEF Relieves

LEMMA LastAccesses ==
  ASSUME TasksTypeOK, NEW x \in busy,
         \/ SlotCleared(x) /\ UNCHANGED <<chanVars, flowVars>>
         \/ QueueDeleted(x) \/ ChannelReset(x)
  PROVE  /\ busy' \subseteq Handler /\ Relieves
         /\ pending' \in [Slot -> Entry] /\ inFlight' \in [Channel -> Nat]
         /\ total' = total /\ returned' \in Nat /\ timedOut' \in Nat /\ reclaimed' \in Nat
         /\ state' \in [Channel -> {"IDLE", "REQUESTING", "ACTIVE"}]
         /\ fd' \in [Channel -> Fd \cup {NoFd}] /\ mixed' \subseteq Channel
         /\ queue' \in [Channel -> Seq(Key)] /\ wire' \in [Channel -> Seq(Key)]
         /\ up' \in [Channel -> BOOLEAN] /\ dials' \in [Channel -> Nat]
<1>1. TypeOK /\ x \in Handler /\ x.ch \in Channel /\ x.amount \in Nat /\ << >> \in Seq(Key)
  <2>1. << >> \in Seq(Key)
    OBVIOUS
  <2> QED
    BY <2>1, HandlerFacts DEF TasksTypeOK
<1>2. CASE SlotCleared(x) /\ UNCHANGED <<chanVars, flowVars>>
  <2>1. /\ pending' = [pending EXCEPT ![x.slot] = Cleared]
        /\ busy' = busy \ {x} /\ UNCHANGED <<inFlight, total, reclaimed>>
        /\ returned' \in Nat /\ timedOut' \in Nat
    BY <1>1, <1>2 DEF SlotCleared, TypeOK
  <2>2. pending \in [Slot -> Entry]
    BY <1>1 DEF TypeOK
  <2>3. pending' \in [Slot -> Entry]
    BY <2>1, <2>2, ClearedType
  <2>4. Shrinks
    BY <2>1, <2>2 DEF Shrinks, Pending, Cleared
  <2>5. Relieves /\ busy' \subseteq Handler
    BY <2>1, <2>4 DEF Relieves, TasksTypeOK
  <2> QED
    BY <1>1, <1>2, <2>1, <2>3, <2>5 DEF TypeOK, chanVars, flowVars
<1>3. CASE QueueDeleted(x)
  <2>1. /\ busy' = (Survivors(x.ch) \ {x}) \cup {[x EXCEPT !.at = "closing"]}
        /\ queue' = [queue EXCEPT ![x.ch] = << >>]
        /\ UNCHANGED <<chanVars, wire, mixed, tableVars, returned, timedOut, reclaimed>>
    BY <1>3 DEF QueueDeleted
  <2>2. [x EXCEPT !.at = "closing"] \in Handler /\ [x EXCEPT !.at = "closing"].at = "closing"
    BY <1>1 DEF Handler, Stage
  <2>3. busy' \subseteq Handler /\ \A z \in busy' : z \in busy \/ z.at # "count"
    BY <2>1, <2>2 DEF TasksTypeOK, Survivors
  <2>4. UNCHANGED <<pending, inFlight, total>> /\ Shrinks
    BY <2>1, ShrinksIfSame DEF tableVars
  <2>5. Relieves
    BY <2>3, <2>4 DEF Relieves
  <2>6. queue' \in [Channel -> Seq(Key)]
    BY <1>1, <2>1 DEF TypeOK
  <2> QED
    BY <1>1, <2>1, <2>3, <2>4, <2>5, <2>6 DEF TypeOK, chanVars
<1>4. CASE ChannelReset(x)
  <2>1. /\ busy' = busy \ {x} /\ Rewire({x.ch}, {})
        /\ inFlight' = [inFlight EXCEPT ![x.ch] = 0]
        /\ reclaimed' = reclaimed + x.amount
        /\ UNCHANGED <<pending, total, returned, timedOut>>
    BY <1>4 DEF ChannelReset
  <2>2. {} \in SUBSET Channel
    OBVIOUS
  <2>3. /\ inFlight' \in [Channel -> Nat]
        /\ \A c \in Channel : inFlight'[c] = 0 \/ inFlight'[c] = inFlight[c]
    BY <1>1, <2>1 DEF TypeOK
  <2>4. Relieves /\ busy' \subseteq Handler
    BY <2>1, <2>3, ShrinksIfSame, PipelineConstants DEF Relieves, TasksTypeOK
  <2>5. pending' \in [Slot -> Entry] /\ returned' \in Nat /\ timedOut' \in Nat /\ reclaimed' \in Nat
    BY <1>1, <2>1 DEF TypeOK
  <2>6. /\ state' \in [Channel -> {"IDLE", "REQUESTING", "ACTIVE"}]
        /\ fd' \in [Channel -> Fd \cup {NoFd}] /\ mixed' \subseteq Channel
        /\ queue' \in [Channel -> Seq(Key)] /\ wire' \in [Channel -> Seq(Key)]
        /\ up' \in [Channel -> BOOLEAN] /\ dials' \in [Channel -> Nat]
    BY <1>1, <2>1, <2>2, RewireTypes
  <2> QED
    BY <2>1, <2>3, <2>4, <2>5, <2>6
<1> QED
  BY <1>2, <1>3, <1>4

LEMMA HandlerStepFacts ==
  ASSUME WordIsPositive, TasksTypeOK, CountsLoaded, HandlerStep
  PROVE  TasksTypeOK' /\ Relieves /\ UNCHANGED <<cycle, next, chosen>>
<1>1. PICK x \in busy :
        \/ /\ \/ CountTested(x) \/ CountStored(x) \/ TotalTested(x) \/ TotalLoaded(x)
              \/ TotalStored(x) \/ Swept(x)
           /\ UNCHANGED <<chanVars, flowVars, returned, timedOut, reclaimed>>
        \/ SlotCleared(x) /\ UNCHANGED <<chanVars, flowVars>>
        \/ QueueDeleted(x) \/ ChannelReset(x)
  BY DEF HandlerStep
<1>2. UNCHANGED <<readers, held, loopVars, dispatched, pass, chosen>>
  BY DEF HandlerStep
<1>3. TypeOK /\ total < Word
  BY DEF TasksTypeOK
<1>4. ASSUME UNCHANGED <<chanVars, flowVars, returned, timedOut, reclaimed>>,
             pending' \in [Slot -> Entry], inFlight' \in [Channel -> Nat],
             total' \in Nat
      PROVE  TypeOK'
  BY <1>2, <1>3, <1>4 DEF TypeOK, chanVars, flowVars, loopVars
<1>5. CASE /\ CountTested(x) \/ CountStored(x)
           /\ UNCHANGED <<chanVars, flowVars, returned, timedOut, reclaimed>>
  <2>1. /\ busy' \subseteq Handler /\ Relieves
        /\ inFlight' \in [Channel -> Nat] /\ UNCHANGED <<pending, total>>
    BY <1>5, CountAccesses
  <2>2. pending' \in [Slot -> Entry] /\ total' \in Nat /\ total' < Word
    BY <1>3, <2>1 DEF TypeOK
  <2> QED
    BY <1>2, <1>4, <1>5, <2>1, <2>2 DEF TasksTypeOK, OneDispatch, loopVars
<1>6. CASE /\ TotalTested(x) \/ TotalLoaded(x) \/ TotalStored(x)
           /\ UNCHANGED <<chanVars, flowVars, returned, timedOut, reclaimed>>
  <2>1. /\ busy' \subseteq Handler /\ Relieves
        /\ total' \in Nat /\ total' < Word /\ UNCHANGED <<pending, inFlight>>
    BY <1>6, TotalAccesses
  <2>2. pending' \in [Slot -> Entry] /\ inFlight' \in [Channel -> Nat]
    BY <1>3, <2>1 DEF TypeOK
  <2> QED
    BY <1>2, <1>4, <1>6, <2>1, <2>2 DEF TasksTypeOK, OneDispatch, loopVars
<1>7. CASE Swept(x) /\ UNCHANGED <<chanVars, flowVars, returned, timedOut, reclaimed>>
  <2>1. /\ busy' \subseteq Handler /\ Relieves
        /\ pending' \in [Slot -> Entry] /\ UNCHANGED <<inFlight, total>>
    BY <1>7, SweepAccess
  <2>2. inFlight' \in [Channel -> Nat] /\ total' \in Nat /\ total' < Word
    BY <1>3, <2>1 DEF TypeOK
  <2> QED
    BY <1>2, <1>4, <1>7, <2>1, <2>2 DEF TasksTypeOK, OneDispatch, loopVars
<1>8. CASE \/ SlotCleared(x) /\ UNCHANGED <<chanVars, flowVars>>
           \/ QueueDeleted(x) \/ ChannelReset(x)
  <2>1. /\ busy' \subseteq Handler /\ Relieves
        /\ pending' \in [Slot -> Entry] /\ inFlight' \in [Channel -> Nat]
        /\ total' = total /\ returned' \in Nat /\ timedOut' \in Nat /\ reclaimed' \in Nat
        /\ state' \in [Channel -> {"IDLE", "REQUESTING", "ACTIVE"}]
        /\ fd' \in [Channel -> Fd \cup {NoFd}] /\ mixed' \subseteq Channel
        /\ queue' \in [Channel -> Seq(Key)] /\ wire' \in [Channel -> Seq(Key)]
        /\ up' \in [Channel -> BOOLEAN] /\ dials' \in [Channel -> Nat]
    BY <1>8, LastAccesses
  <2>2. TypeOK'
    BY <1>2, <1>3, <2>1 DEF TypeOK, loopVars
  <2> QED
    BY <1>2, <1>3, <2>1, <2>2 DEF TasksTypeOK, OneDispatch, loopVars
<1> QED
  BY <1>1, <1>5, <1>6, <1>7, <1>8
-----------------------------------------------------------------------------
(***************************************************************************)
(* Steps that leave the table alone: a connect of the manager, and the     *)
(* actions of WorkPipeline that touch neither the table nor its counters.  *)
(***************************************************************************)

LEMMA DialFacts ==
  ASSUME TasksTypeOK, NEW c \in Channel, ManagerDials(c)
  PROVE  TasksTypeOK' /\ UNCHANGED <<tableVars, loopVars, chosen, busy>>
<1>1. TypeOK /\ {c} \in SUBSET Channel /\ {c} \ {} = {c}
  BY DEF TasksTypeOK
<1>2. /\ Rewire({}, {c}) /\ readers' = readers \cup {Receiver(c, fd'[c])}
      /\ UNCHANGED <<held, tableVars, loopVars, countVars, chosen, busy>>
  BY DEF ManagerDials
<1>3. /\ state' \in [Channel -> {"IDLE", "REQUESTING", "ACTIVE"}]
      /\ fd' \in [Channel -> Fd \cup {NoFd}] /\ \A d \in {c} \ {} : fd'[d] \in Fd
      /\ mixed' \subseteq Channel
      /\ queue' \in [Channel -> Seq(Key)] /\ wire' \in [Channel -> Seq(Key)]
      /\ up' \in [Channel -> BOOLEAN] /\ dials' \in [Channel -> Nat]
  BY <1>1, <1>2, RewireTypes
<1>4. readers' \subseteq Reader
  BY <1>1, <1>2, <1>3 DEF TypeOK, Reader, Receiver
<1>5. TypeOK'
  BY <1>1, <1>2, <1>3, <1>4 DEF TypeOK, tableVars, loopVars, countVars
<1> QED
  BY <1>2, <1>5 DEF TasksTypeOK, OneDispatch, tableVars

LEMMA QuietFacts ==
  ASSUME TasksTypeOK, ComputeElse \/ Elsewhere, UNCHANGED <<chosen, busy>>
  PROVE  /\ TasksTypeOK' /\ UNCHANGED tableVars
         /\ Later /\ (chosen = {} \/ UNCHANGED <<cycle, next>>)
<1>1. TypeOK
  BY DEF TasksTypeOK
<1>2. CASE ComputeElse
  <2>1. TypeOK' /\ UNCHANGED tableVars /\ chosen = {}
    BY <1>1, <1>2, ControlTypes DEF ComputeElse, StartCycle, DispatchBusy, DispatchUnsent
  <2>2. Later
    <3>1. CASE StartCycle
      BY <1>1, <3>1 DEF StartCycle, CycleIncrement, Later, Before, TypeOK
    <3>2. CASE DispatchBusy \/ DispatchUnsent
      BY <1>1, <3>2 DEF DispatchBusy, DispatchUnsent, Later, Before, TypeOK
    <3> QED
      BY <1>2, <3>1, <3>2 DEF ComputeElse
  <2> QED
    BY <2>1, <2>2 DEF TasksTypeOK, OneDispatch, tableVars
<1>3. CASE Elsewhere
  <2>1. TypeOK'
    BY <1>1, <1>3, ControlTypes, TransportTypes DEF Elsewhere
  <2>2. UNCHANGED tableVars /\ UNCHANGED loopVars
    BY <1>3 DEF Elsewhere, TryOffload, Accepted, HostGone, Send, ReadResult, SplitResult, Reads
  <2>3. Later /\ UNCHANGED <<cycle, next>>
    BY <2>2, LaterIfSame DEF loopVars
  <2> QED
    BY <2>1, <2>2, <2>3 DEF TasksTypeOK, OneDispatch, tableVars
<1> QED
  BY <1>2, <1>3
-----------------------------------------------------------------------------
(***************************************************************************)
(* The steps of the dispatch.                                              *)
(***************************************************************************)

LEMMA QueuedFacts ==
  ASSUME TasksTypeOK, DispatchQueued
  PROVE  /\ TasksTypeOK'
         /\ chosen = {} /\ UNCHANGED <<tableVars, cycle, next, busy>>
         /\ \A x \in chosen' : x.at = "queued" /\ inFlight[x.ch] < MaxInflight
<1>1. PICK s \in Slot, c \in Channel :
        /\ Turn(c)
        /\ Enqueue(c)
        /\ chosen' = {[slot |-> s, ch |-> c, at |-> "queued", loaded |-> 0]}
  BY DEF DispatchQueued
<1>2. OneDispatch'
  BY <1>1 DEF OneDispatch, Underway, Place
<1>3. rr' \in Channel
  BY <1>1, NextTurnInRange DEF DispatchQueued, TasksTypeOK, TypeOK
<1>4. [ch |-> c, conn |-> dials[c], cycle |-> cycle, block |-> next] \in Key
  BY DEF TasksTypeOK, TypeOK, Key
<1>5. queue' \in [Channel -> Seq(Key)]
  BY <1>1, <1>4 DEF Enqueue, TasksTypeOK, TypeOK
<1>6. UNCHANGED <<chanVars, wire, mixed, readers, held, tableVars, cycle, next, todo, countVars, busy>>
  BY DEF DispatchQueued
<1>7. TypeOK'
  BY <1>3, <1>5, <1>6 DEF TasksTypeOK, TypeOK, chanVars, tableVars, countVars
<1>8. inFlight[c] < MaxInflight
  BY <1>1 DEF Turn, Eligible
<1>9. TasksTypeOK'
  BY <1>2, <1>6, <1>7 DEF TasksTypeOK, tableVars
<1>10. \A x \in chosen' : x.at = "queued" /\ inFlight[x.ch] < MaxInflight
  BY <1>1, <1>8
<1>11. chosen = {} /\ UNCHANGED <<tableVars, cycle, next, busy>>
  BY <1>6 DEF DispatchQueued
<1> QED
  BY <1>9, <1>10, <1>11

LEMMA DispatchStepTypes ==
  ASSUME WordIsPositive, TasksTypeOK, DispatchStep
  PROVE  TasksTypeOK'
<1>1. PICK x \in chosen :
        EnterSlot(x) \/ LoadCount(x) \/ StoreCount(x) \/ LoadTotal(x) \/ StoreTotal(x)
  BY DEF DispatchStep
<1>2. x \in Underway /\ x.slot \in Slot /\ x.ch \in Channel /\ x.loaded \in Nat
  BY DEF TasksTypeOK, OneDispatch, Underway
<1>3. UNCHANGED <<chanVars, flowVars, readers, held, cycle, todo, rr,
                  returned, timedOut, reclaimed, pass, busy>>
  BY DEF DispatchStep
<1>4. /\ pending' \in [Slot -> Entry] /\ inFlight' \in [Channel -> Nat]
      /\ total' \in Nat /\ total' < Word /\ dispatched' \in Nat /\ next' \in Nat
  <2>1. /\ pending \in [Slot -> Entry] /\ inFlight \in [Channel -> Nat]
        /\ total \in Nat /\ total < Word /\ dispatched \in Nat /\ next \in Nat
    BY DEF TasksTypeOK, TypeOK
  <2>2. CASE EnterSlot(x)
    <3>1. [on |-> TRUE, cycle |-> cycle, block |-> next, ch |-> x.ch, age |-> 0] \in Entry
      BY <1>2, PipelineConstants DEF TasksTypeOK, TypeOK, Entry, Channel
    <3> QED
      BY <2>1, <2>2, <3>1 DEF EnterSlot
  <2>3. CASE StoreCount(x)
    <3>1. x.loaded + 1 \in Nat
      BY <1>2
    <3>2. inFlight' = [inFlight EXCEPT ![x.ch] = x.loaded + 1]
      BY <2>3 DEF StoreCount
    <3>3. inFlight' \in [Channel -> Nat]
      BY <2>1, <3>1, <3>2
    <3> QED
      BY <2>1, <2>3, <3>3 DEF StoreCount
  <2>4. CASE StoreTotal(x)
    <3>1. x.loaded + 1 \in Int /\ dispatched + 1 \in Nat /\ next + 1 \in Nat
      BY <1>2, <2>1
    <3>2. /\ total' = (x.loaded + 1) % Word
          /\ dispatched' = dispatched + 1 /\ next' = next + 1
          /\ UNCHANGED <<pending, inFlight>>
      BY <2>4 DEF StoreTotal
    <3>3. total' \in Nat /\ total' < Word
      BY <3>1, <3>2, WordBounds
    <3> QED
      BY <2>1, <3>1, <3>2, <3>3
  <2>5. CASE LoadCount(x) \/ LoadTotal(x)
    BY <2>1, <2>5 DEF LoadCount, LoadTotal
  <2> QED
    BY <1>1, <2>2, <2>3, <2>4, <2>5
<1>5. OneDispatch'
  <2>1. OneDispatch /\ inFlight[x.ch] \in Nat /\ total \in Nat
    BY <1>2 DEF TasksTypeOK, TypeOK
  <2>2. CASE StoreTotal(x)
    BY <2>2 DEF StoreTotal, OneDispatch
  <2>3. ASSUME NEW from, NEW to \in Place, NEW value \in Nat, Reached(x, from, to, value)
        PROVE  OneDispatch'
    BY <2>1, <2>3, ReachedFacts
  <2>4. CASE EnterSlot(x) \/ LoadCount(x) \/ StoreCount(x) \/ LoadTotal(x)
    BY <2>1, <2>3, <2>4 DEF EnterSlot, LoadCount, StoreCount, LoadTotal, Place
  <2> QED
    BY <1>1, <2>2, <2>4
<1>6. TypeOK'
  BY <1>3, <1>4 DEF TasksTypeOK, TypeOK, chanVars, flowVars
<1> QED
  BY <1>3, <1>4, <1>5, <1>6 DEF TasksTypeOK
-----------------------------------------------------------------------------
(***************************************************************************)
(* The invariant.                                                          *)
(*                                                                         *)
(* The cap is tested long before the count is stored, and the store writes *)
(* what was loaded in between; but all that runs meanwhile lowers counts,  *)
(* so what is stored is no more than the cap allows (RoomLeft).  The loop  *)
(* of compute_task moves only between two dispatches, so the key of the    *)
(* dispatch under way is the one it stands at and all others were passed   *)
(* (KeysBehind).                                                           *)
(***************************************************************************)

RoomLeft ==
  /\ CapRespected
  /\ \A x \in chosen :
       /\ x.at \in {"queued", "entered"} => inFlight[x.ch] < MaxInflight
       /\ x.at = "loaded count" => x.loaded < MaxInflight
  /\ CountsLoaded

\* Keys in the table were passed by the dispatch loop, or it stands at them.
KeysBehind ==
  \A s \in Pending :
    \/ Before(pending[s].cycle, pending[s].block)
    \/ /\ \E x \in chosen : x.slot = s /\ x.at # "queued"
       /\ pending[s].cycle = cycle /\ pending[s].block = next

TInv == RoomLeft /\ KeysBehind /\ KeysUnique

\* Steps beside the dispatch.
LEMMA BesideKeeps ==
  ASSUME TasksTypeOK, TInv, Relieves, Later, UNCHANGED chosen,
         chosen = {} \/ UNCHANGED <<cycle, next>>
  PROVE  TInv'
<1>1. /\ \A x \in chosen : x.ch \in Channel
      /\ \A c \in Channel : inFlight[c] \in Nat
      /\ \A s \in Pending : pending[s].cycle \in Nat /\ pending[s].block \in Nat
  BY FrameTypes DEF TasksTypeOK, OneDispatch, Underway, TypeOK
<1>2. CapRespected'
  BY DEF TInv, RoomLeft, CapRespected, Relieves
<1>3. CountsLoaded'
  <2> SUFFICES ASSUME NEW y \in busy', y.at = "count" PROVE y.loaded \in 1 .. MaxInflight
    BY DEF CountsLoaded
  <2>1. CASE y \in busy
    BY <2>1 DEF TInv, RoomLeft, CountsLoaded
  <2>2. CASE y \notin busy
    <3>1. y.ch \in Channel /\ y.loaded = inFlight[y.ch] /\ y.loaded > 0
      BY <2>2 DEF Relieves
    <3>2. inFlight[y.ch] <= MaxInflight /\ inFlight[y.ch] \in Nat
      BY <1>1, <3>1 DEF TInv, RoomLeft, CapRespected
    <3> QED
      BY <3>1, <3>2, PipelineConstants
  <2> QED
    BY <2>1, <2>2
<1>4. RoomLeft'
  BY <1>1, <1>2, <1>3 DEF TInv, RoomLeft, Relieves
<1>5. KeysBehind'
  <2> SUFFICES ASSUME NEW s \in Pending'
               PROVE  \/ pending'[s].cycle < cycle'
                      \/ pending'[s].cycle = cycle' /\ pending'[s].block < next'
                      \/ /\ \E x \in chosen' : x.slot = s /\ x.at # "queued"
                         /\ pending'[s].cycle = cycle' /\ pending'[s].block = next'
    BY DEF KeysBehind, Before
  <2>1. /\ s \in Pending
        /\ pending'[s].cycle = pending[s].cycle /\ pending'[s].block = pending[s].block
    BY DEF Relieves, Shrinks
  <2>2. \/ Before(pending[s].cycle, pending[s].block)
        \/ /\ \E x \in chosen : x.slot = s /\ x.at # "queued"
           /\ pending[s].cycle = cycle /\ pending[s].block = next
    BY <2>1 DEF TInv, KeysBehind
  <2>3. CASE Before(pending[s].cycle, pending[s].block)
    BY <1>1, <2>1, <2>3 DEF Later, Before
  <2>4. CASE /\ \E x \in chosen : x.slot = s /\ x.at # "queued"
             /\ pending[s].cycle = cycle /\ pending[s].block = next
    BY <2>1, <2>4
  <2> QED
    BY <2>2, <2>3, <2>4
<1>6. KeysUnique'
  BY DEF Relieves, Shrinks, TInv, KeysUnique
<1> QED
  BY <1>4, <1>5, <1>6 DEF TInv

\* The dispatch has queued a frame and recorded nothing.
LEMMA QueuedKeeps ==
  ASSUME TasksTypeOK, TInv, DispatchQueued
  PROVE  TInv'
<1>1. /\ chosen = {} /\ pending' = pending /\ inFlight' = inFlight /\ busy' = busy
      /\ cycle' = cycle /\ next' = next
      /\ \A x \in chosen' : x.at = "queued" /\ inFlight[x.ch] < MaxInflight
  BY QueuedFacts DEF tableVars
<1>2. Pending' = Pending
  BY <1>1 DEF Pending
<1>3. RoomLeft'
  BY <1>1 DEF TInv, RoomLeft, CapRespected, CountsLoaded
<1>4. KeysBehind'
  BY <1>1, <1>2 DEF TInv, KeysBehind, Before
<1>5. KeysUnique'
  BY <1>1, <1>2 DEF TInv, KeysUnique
<1> QED
  BY <1>3, <1>4, <1>5 DEF TInv

\* The entry is written.  Its key is the one the loop stands at, which no other
\* slot has: those were passed.
LEMMA EnterKeeps ==
  ASSUME TasksTypeOK, TInv, NEW x \in chosen, EnterSlot(x), UNCHANGED <<cycle, busy>>
  PROVE  TInv'
<1>1. /\ x.at = "queued" /\ x.slot \in Slot /\ x.ch \in Channel /\ chosen = {x}
      /\ \A y \in chosen' : y.slot = x.slot /\ y.ch = x.ch /\ y.at = "entered"
      /\ chosen' # {}
  <2>1. Reached(x, "queued", "entered", 0) /\ "entered" \in Place /\ 0 \in Nat /\ OneDispatch
    BY DEF EnterSlot, Place, TasksTypeOK
  <2>2. x \in Underway /\ chosen' # {}
    BY <2>1 DEF Reached, OneDispatch
  <2>3. chosen = {x} /\ x.at = "queued"
    BY <2>1, ReachedFacts
  <2>4. chosen' = {[x EXCEPT !.at = "entered", !.loaded = 0]}
    BY <2>1 DEF Reached
  <2> QED
    BY <2>2, <2>3, <2>4 DEF Underway
<1>2. /\ pending' = [pending EXCEPT ![x.slot] =
           [on |-> TRUE, cycle |-> cycle, block |-> next, ch |-> x.ch, age |-> 0]]
      /\ inFlight' = inFlight /\ next' = next /\ cycle' = cycle
  BY DEF EnterSlot
<1>3. /\ Pending' = Pending \cup {x.slot}
      /\ pending'[x.slot].cycle = cycle /\ pending'[x.slot].block = next
      /\ \A s \in Slot : s # x.slot => pending'[s] = pending[s]
  <2>1. pending \in [Slot -> Entry]
    BY DEF TasksTypeOK, TypeOK
  <2>2. /\ pending'[x.slot] = [on |-> TRUE, cycle |-> cycle, block |-> next, ch |-> x.ch, age |-> 0]
        /\ \A s \in Slot : s # x.slot => pending'[s] = pending[s]
    BY <1>1, <1>2, <2>1
  <2>3. pending'[x.slot].on /\ pending'[x.slot].cycle = cycle /\ pending'[x.slot].block = next
    BY <2>2
  <2>4. Pending' = Pending \cup {x.slot}
    BY <1>1, <2>2, <2>3 DEF Pending
  <2> QED
    BY <2>2, <2>3, <2>4
<1>4. KeysOld
  BY <1>1 DEF TInv, KeysBehind, KeysOld
<1>5. RoomLeft'
  BY <1>1, <1>2 DEF TInv, RoomLeft, CapRespected, CountsLoaded
<1>6. KeysBehind'
  <2>1. ASSUME NEW s \in Pending'
        PROVE  \/ pending'[s].cycle < cycle'
               \/ pending'[s].cycle = cycle' /\ pending'[s].block < next'
               \/ /\ \E y \in chosen' : y.slot = s /\ y.at # "queued"
                  /\ pending'[s].cycle = cycle' /\ pending'[s].block = next'
    <3>1. CASE s = x.slot
      BY <1>1, <1>2, <1>3, <3>1
    <3>2. CASE s # x.slot
      <4>1. s \in Pending /\ pending'[s] = pending[s]
        BY <1>3, <2>1, <3>2 DEF Pending
      <4> QED
        BY <1>2, <1>4, <4>1 DEF KeysOld, Before
    <3> QED
      BY <3>1, <3>2
  <2> QED
    BY <2>1 DEF KeysBehind, Before
<1>7. KeysUnique'
  <2> SUFFICES ASSUME NEW s \in Pending', NEW u \in Pending',
                      pending'[s].cycle = pending'[u].cycle,
                      pending'[s].block = pending'[u].block
               PROVE  s = u
    BY DEF KeysUnique
  <2>1. ASSUME NEW v \in Pending', v # x.slot
        PROVE  /\ v \in Pending /\ pending'[v] = pending[v]
               /\ ~(pending'[v].cycle = cycle /\ pending'[v].block = next)
    <3>1. v \in Pending /\ pending'[v] = pending[v]
      BY <1>3, <2>1 DEF Pending
    <3>2. Before(pending[v].cycle, pending[v].block)
      BY <1>4, <3>1 DEF KeysOld
    <3>3. ~Before(cycle, next)
      BY DEF Before, TasksTypeOK, TypeOK
    <3> QED
      BY <3>1, <3>2, <3>3
  <2>2. CASE s # x.slot /\ u # x.slot
    BY <2>1, <2>2 DEF TInv, KeysUnique
  <2>3. CASE s = x.slot \/ u = x.slot
    BY <1>3, <2>1, <2>3
  <2> QED
    BY <2>2, <2>3
<1> QED
  BY <1>5, <1>6, <1>7 DEF TInv

\* The steps between the entry and the last store leave the table alone.
LEMMA CountingKeepsKeys ==
  ASSUME TasksTypeOK, TInv, NEW x \in chosen, NEW from, NEW to \in Place, NEW value \in Nat,
         Reached(x, from, to, value), to # "queued",
         UNCHANGED <<pending, cycle, next>>
  PROVE  KeysBehind' /\ KeysUnique'
<1>1. Pending' = Pending /\ chosen = {x}
  BY DEF Pending, TasksTypeOK, OneDispatch
<1>2. chosen' # {} /\ \A y \in chosen' : y.slot = x.slot /\ y.at = to
  BY ReachedFacts DEF TasksTypeOK, Reached
<1>3. ASSUME NEW s \in Pending'
      PROVE  \/ pending'[s].cycle < cycle'
             \/ pending'[s].cycle = cycle' /\ pending'[s].block < next'
             \/ /\ \E y \in chosen' : y.slot = s /\ y.at # "queued"
                /\ pending'[s].cycle = cycle' /\ pending'[s].block = next'
  <2>1. s \in Pending
    BY <1>1, <1>3
  <2>2. \/ Before(pending[s].cycle, pending[s].block)
        \/ x.slot = s /\ pending[s].cycle = cycle /\ pending[s].block = next
    BY <1>1, <2>1 DEF TInv, KeysBehind
  <2> QED
    BY <1>2, <2>2 DEF Before
<1>4. KeysBehind'
  BY <1>3 DEF KeysBehind, Before
<1>5. KeysUnique'
  BY <1>1 DEF TInv, KeysUnique
<1> QED
  BY <1>4, <1>5

LEMMA CountingKeeps ==
  ASSUME TasksTypeOK, TInv, NEW x \in chosen, UNCHANGED <<cycle, busy>>,
         LoadCount(x) \/ StoreCount(x) \/ LoadTotal(x)
  PROVE  TInv'
<1>1. /\ OneDispatch /\ chosen = {x} /\ x.ch \in Channel /\ x.loaded \in Nat
      /\ inFlight \in [Channel -> Nat] /\ inFlight[x.ch] \in Nat /\ total \in Nat
  BY DEF TasksTypeOK, OneDispatch, Underway, TypeOK
<1>2. /\ {"entered", "loaded count", "counted", "loaded total"} \subseteq Place /\ 0 \in Nat
      /\ CountsLoaded' /\ CapRespected
  BY DEF Place, CountsLoaded, TInv, RoomLeft
<1>3. CASE LoadCount(x)
  <2>1. /\ Reached(x, "entered", "loaded count", inFlight[x.ch])
        /\ UNCHANGED <<pending, inFlight, cycle, next>>
    BY <1>3 DEF LoadCount
  <2>2. x.at = "entered" /\ \A y \in chosen' : y.at = "loaded count" /\ y.loaded = inFlight[x.ch]
    <3>1. "loaded count" \in Place
      BY DEF Place
    <3>2. x.at = "entered" /\ x \in Underway
      BY <1>1, <2>1, <3>1, ReachedFacts
    <3>3. chosen' = {[x EXCEPT !.at = "loaded count", !.loaded = inFlight[x.ch]]}
      BY <2>1 DEF Reached
    <3> QED
      BY <3>2, <3>3 DEF Underway
  <2>3. inFlight[x.ch] < MaxInflight
    BY <2>2 DEF TInv, RoomLeft
  <2>4. RoomLeft'
    BY <1>2, <2>1, <2>2, <2>3 DEF RoomLeft, CapRespected
  <2>5. KeysBehind' /\ KeysUnique'
    BY <1>1, <1>2, <2>1, CountingKeepsKeys
  <2> QED
    BY <2>4, <2>5 DEF TInv
<1>4. CASE StoreCount(x)
  <2>1. /\ Reached(x, "loaded count", "counted", 0)
        /\ inFlight' = [inFlight EXCEPT ![x.ch] = x.loaded + 1]
        /\ UNCHANGED <<pending, cycle, next>>
    BY <1>4 DEF StoreCount
  <2>2. x.at = "loaded count" /\ \A y \in chosen' : y.at = "counted"
    BY <1>1, <1>2, <2>1, ReachedFacts
  <2>3. x.loaded + 1 <= MaxInflight
    <3>1. x.loaded < MaxInflight
      BY <2>2 DEF TInv, RoomLeft
    <3> QED
      BY <1>1, <3>1, PipelineConstants
  <2>4. CapRespected'
    BY <1>1, <1>2, <2>1, <2>3 DEF CapRespected
  <2>5. RoomLeft'
    BY <1>2, <2>2, <2>4 DEF RoomLeft
  <2>6. KeysBehind' /\ KeysUnique'
    BY <1>1, <1>2, <2>1, CountingKeepsKeys
  <2> QED
    BY <2>5, <2>6 DEF TInv
<1>5. CASE LoadTotal(x)
  <2>1. /\ Reached(x, "counted", "loaded total", total)
        /\ UNCHANGED <<pending, inFlight, cycle, next>>
    BY <1>5 DEF LoadTotal
  <2>2. \A y \in chosen' : y.at = "loaded total"
    BY <1>1, <1>2, <2>1, ReachedFacts
  <2>3. RoomLeft'
    BY <1>2, <2>1, <2>2 DEF RoomLeft, CapRespected
  <2>4. KeysBehind' /\ KeysUnique'
    BY <1>1, <1>2, <2>1, CountingKeepsKeys
  <2> QED
    BY <2>3, <2>4 DEF TInv
<1> QED
  BY <1>3, <1>4, <1>5

\* The last store, and on to the next block: the key is passed.
LEMMA StoreTotalKeeps ==
  ASSUME TasksTypeOK, TInv, NEW x \in chosen, StoreTotal(x), UNCHANGED <<cycle, busy>>
  PROVE  TInv'
<1>1. /\ chosen' = {} /\ next' = next + 1 /\ cycle' = cycle /\ next \in Nat
      /\ pending' = pending /\ inFlight' = inFlight
  BY DEF StoreTotal, TasksTypeOK, TypeOK
<1>2. Pending' = Pending /\ \A s \in Pending : pending[s].cycle \in Nat /\ pending[s].block \in Nat
  BY <1>1, FrameTypes DEF Pending, TasksTypeOK
<1>3. RoomLeft'
  BY <1>1 DEF TInv, RoomLeft, CapRespected, CountsLoaded
<1>4. KeysBehind'
  <2> SUFFICES ASSUME NEW s \in Pending
               PROVE  \/ pending[s].cycle < cycle
                      \/ pending[s].cycle = cycle /\ pending[s].block < next + 1
    BY <1>1, <1>2 DEF KeysBehind, Before
  <2>1. \/ Before(pending[s].cycle, pending[s].block)
        \/ pending[s].cycle = cycle /\ pending[s].block = next
    BY DEF TInv, KeysBehind
  <2> QED
    BY <1>1, <1>2, <2>1 DEF Before
<1>5. KeysUnique'
  BY <1>1, <1>2 DEF TInv, KeysUnique
<1> QED
  BY <1>3, <1>4, <1>5 DEF TInv
-----------------------------------------------------------------------------
(***************************************************************************)
(* The theorems.                                                           *)
(***************************************************************************)

LEMMA TasksStart ==
  ASSUME WordIsPositive, TasksInit
  PROVE  TasksTypeOK /\ TInv
<1>1. Init /\ chosen = {} /\ busy = {}
  BY DEF TasksInit
<1>2. TasksTypeOK
  BY <1>1, InitTypes DEF WordIsPositive, TasksTypeOK, OneDispatch, Init
<1>3. Pending = {}
  BY <1>1 DEF Init, Pending, Cleared
<1>4. CapRespected
  BY <1>1, PipelineConstants DEF Init, CapRespected
<1> QED
  BY <1>1, <1>2, <1>3, <1>4 DEF TInv, RoomLeft, CountsLoaded, KeysBehind, KeysUnique

\* Steps that leave the table alone count among those beside the dispatch.
LEMMA RelievesIfSame ==
  ASSUME TasksTypeOK, UNCHANGED tableVars, NoneLoaded
  PROVE  Relieves
BY ShrinksIfSame DEF Relieves, NoneLoaded, tableVars

LEMMA TasksStep ==
  ASSUME WordIsPositive, TasksTypeOK, TInv, [TasksNext]_taskVars
  PROVE  TasksTypeOK' /\ TInv'
<1>1. CASE UNCHANGED taskVars
  <2>1. UNCHANGED <<tableVars, chosen, busy, cycle, next>> /\ NoneLoaded
    BY <1>1 DEF taskVars, vars, loopVars, NoneLoaded
  <2>2. TasksTypeOK'
    BY <1>1 DEF taskVars, vars, TasksTypeOK, TypeOK, OneDispatch, chanVars, flowVars, tableVars,
       loopVars, countVars
  <2> QED
    BY <2>1, <2>2, RelievesIfSame, LaterIfSame, BesideKeeps
<1>2. CASE DispatchQueued
  BY <1>2, QueuedFacts, QueuedKeeps
<1>3. CASE DispatchStep
  <2>1. PICK x \in chosen :
          EnterSlot(x) \/ LoadCount(x) \/ StoreCount(x) \/ LoadTotal(x) \/ StoreTotal(x)
    BY <1>3 DEF DispatchStep
  <2>2. UNCHANGED <<cycle, busy>>
    BY <1>3 DEF DispatchStep
  <2> QED
    BY <1>3, <2>1, <2>2, DispatchStepTypes, EnterKeeps, CountingKeeps, StoreTotalKeeps
<1>4. CASE HandlerStep
  <2>1. TasksTypeOK' /\ Relieves /\ UNCHANGED <<cycle, next, chosen>>
    BY <1>4, HandlerStepFacts DEF TInv, RoomLeft
  <2> QED
    BY <2>1, LaterIfSame, BesideKeeps
<1>5. CASE Beginning
  <2>1. TasksTypeOK' /\ NoneLoaded /\ UNCHANGED <<tableVars, cycle, next, chosen>>
    BY <1>5, BeginningFacts DEF loopVars
  <2> QED
    BY <2>1, RelievesIfSame, LaterIfSame, BesideKeeps
<1>6. CASE \E c \in Channel : ManagerDials(c)
  <2>1. TasksTypeOK' /\ NoneLoaded /\ UNCHANGED <<tableVars, cycle, next, chosen>>
    BY <1>6, DialFacts DEF loopVars, NoneLoaded
  <2> QED
    BY <2>1, RelievesIfSame, LaterIfSame, BesideKeeps
<1>7. CASE (ComputeElse \/ Elsewhere) /\ UNCHANGED <<chosen, busy>>
  <2>1. /\ TasksTypeOK' /\ NoneLoaded /\ UNCHANGED <<tableVars, chosen>>
        /\ Later /\ (chosen = {} \/ UNCHANGED <<cycle, next>>)
    BY <1>7, QuietFacts DEF NoneLoaded
  <2> QED
    BY <2>1, RelievesIfSame, BesideKeeps
<1> QED
  BY <1>1, <1>2, <1>3, <1>4, <1>5, <1>6, <1>7 DEF TasksNext, Beginning

\* The invariant of the tasks, for any width of deleg_inflight_total.
THEOREM TasksInvariant ==
  ASSUME WordIsPositive
  PROVE  TasksSpec => [](TasksTypeOK /\ TInv)
<1>1. TasksInit => TasksTypeOK /\ TInv
  BY TasksStart
<1>2. TasksTypeOK /\ TInv /\ [TasksNext]_taskVars => TasksTypeOK' /\ TInv'
  BY TasksStep
<1> QED
  BY <1>1, <1>2, PTL DEF TasksSpec

\* However the dispatch and the handlers are preempted, every variable keeps its
\* type, deleg_inflight_total its width, and one dispatch at most is under way.
THEOREM TasksTyped ==
  ASSUME WordIsPositive
  PROVE  TasksSpec => []TasksTypeOK
BY TasksInvariant, PTL

\* The counter that the cap is tested against stays within it, although it is
\* tested long before it is stored and other tasks store it meanwhile.
THEOREM CountWithinCap ==
  ASSUME WordIsPositive
  PROVE  TasksSpec => []CapRespected
BY TasksInvariant, PTL DEF TInv, RoomLeft

\* No two pending slots carry the same (cycle, block) pair, although a slot may
\* be taken back between the entry of its key and the end of its dispatch.
THEOREM TasksKeysUnique ==
  ASSUME WordIsPositive
  PROVE  TasksSpec => []KeysUnique
BY TasksInvariant, PTL DEF TInv
=============================================================================
