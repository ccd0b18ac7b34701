-------------------------- MODULE StealthLoopProofs --------------------------
(***************************************************************************)
(* What the stealth loop promises, for every number of interventions,      *)
(* operators, workers, attempts, takeovers and restarts: the variables     *)
(* keep their types, a takeover leaves the loop as it found it, one        *)
(* intervention counts once unless two reports crossed, and a draft that   *)
(* was delivered is closed.                                                *)
(*                                                                         *)
(* The last two rest on how far an intervention must have come for a       *)
(* thread to be where it is (Stages), on what the journal holds of one     *)
(* that is closed (Closed), and on somebody being there to finish what     *)
(* was begun (Attended).                                                   *)
(***************************************************************************)
EXTENDS StealthLoop, FiniteSetTheorems, TLAPS

-----------------------------------------------------------------------------
(* Takeovers.                                                               *)

\* While a takeover that nothing disturbed lasts, the policy is off, and what it was
\* before is remembered.
TakeoverInv ==
  /\ {enabled, wasEnabled, before, disturbed} \subseteq BOOLEAN
  /\ takeover \in {None, "active", "overdue"}
  /\ ~disturbed => IF takeover = None THEN enabled = before
                   ELSE ~enabled /\ wasEnabled = before

-----------------------------------------------------------------------------
(* Interventions.                                                           *)

On(t, i)  == thread[t] # Idle /\ thread[t].item = i
At(i, pc) == \E t \in Operators : thread[t].pc = pc /\ thread[t].item = i
Reporting == {"performing", "consuming", "closing", "recording", "counting"}
Reporters(i) == {t \in Operators : thread[t].pc \in Reporting /\ thread[t].item = i}

Threads ==
  [Operators -> {Idle} \cup [pc : Reporting \cup {"sending"}, item : Items]
                       \cup [pc : {"journaling"}, item : Items, sent : BOOLEAN]]

Rows == [Items -> [state : {None} \cup States, approval : Sent]]

ItemTypes ==
  /\ event \in {Idle} \cup [pc : {"prepare", "inline", "assembling"}, item : Items]
  /\ item \in [Items -> {None, "gone"} \cup States] /\ approval \in [Items -> Sent]
  /\ drafted \subseteq Items
  /\ row \in Rows
  /\ outcomes \in [Items -> Nat]
  /\ job \in [Items -> [pc : {None, "queued", "running", "waiting", "done", "dead"},
                        attempts : 0 .. MaxAttempts]]
  /\ thread \in Threads
  /\ delivered \cup crossed \cup cut \subseteq Items

\* A job that is to run again has an attempt left.
AttemptsLeft ==
  \A i \in Items : job[i].pc \in {"queued", "waiting"} => job[i].attempts < MaxAttempts

\* Nothing is known of an intervention before it is made ...
Unmade ==
  \A i \in Items : item[i] = None =>
    /\ i \notin drafted /\ job[i] = NoJob /\ row[i].state = None /\ outcomes[i] = 0
    /\ \A t \in Operators : ~On(t, i)

\* ... and until its event is done with it, nobody else has it.
Secluded ==
  event # Idle =>
    /\ item[event.item] = IF event.pc = "assembling" THEN "preparing" ELSE None
    /\ event.item \notin drafted /\ job[event.item] = NoJob

\* How far an intervention has come when a thread is there.
Stage(pc) ==
  CASE pc \in {"sending", "journaling"} -> {"ready", "injected", "executed", "consumed", "outcome"}
    [] pc = "consuming"                 -> {"injected", "executed", "consumed", "outcome"}
    [] pc = "performing"                -> {"executed", "consumed", "outcome"}
    [] pc = "closing"                   -> {"consumed", "outcome"}
    [] pc \in {"recording", "counting"} -> {"outcome"}

Stages == \A t \in Operators : thread[t] # Idle => item[thread[t].item] \in Stage(thread[t].pc)

\* One that counts is closed, in the journal too; one that went with a restart is not
\* open in the journal; and the journal is not ahead of the loop.
Closed ==
  /\ \A i \in Items : outcomes[i] > 0 => item[i] \in {"outcome", "gone"} /\ row[i].state = "outcome"
  /\ \A i \in Items : item[i] = "gone" => row[i].state \in {None, "outcome"}
  /\ \A i \in Items : row[i].state = "consumed" => item[i] \in {"consumed", "outcome"}

\* Reports that did not cross come one at a time, the first to count being the last.
OneReport ==
  \A i \in Items \ crossed :
    /\ outcomes[i] <= 1
    /\ \A t, u \in Operators : t \in Reporters(i) /\ u \in Reporters(i) => t = u
    /\ Reporters(i) # {} => outcomes[i] = 0

\* The operator whose delivery is still to be reported.
ToReport(i) == \E t \in Operators : thread[t].pc = "journaling" /\ thread[t].item = i /\ thread[t].sent

\* What was begun has somebody to finish it, unless it was cut short.
Attended ==
  \A i \in Items \ cut :
    /\ item[i] = "consumed" => At(i, "closing")
    /\ item[i] = "outcome" => row[i].state = "outcome" \/ At(i, "recording")
    /\ i \in delivered =>
         item[i] \in {"outcome", "gone"} \/ At(i, "consuming") \/ At(i, "closing") \/ ToReport(i)

LoopInv ==
  /\ ItemTypes /\ AttemptsLeft /\ Unmade /\ Secluded /\ Stages /\ Closed
  /\ OneReport /\ Attended

\* An intervention is counted at most once by each operator.
Bounded ==
  \A i \in Items : outcomes[i] + Cardinality(Reporters(i)) <= Cardinality(Operators)

-----------------------------------------------------------------------------
(* What a step does to interventions, apart from how.                       *)

(* An operator's step touches its own thread and one intervention. *)
Alone(t, i) ==
  /\ \A u \in Operators \ {t} : thread'[u] = thread[u]
  /\ \A k \in Items \ {i} : item'[k] = item[k] /\ row'[k] = row[k] /\ outcomes'[k] = outcomes[k]
  /\ UNCHANGED <<event, job>>

Goes(t, i, step) == i \in Items /\ Alone(t, i) /\ thread'[t] = step
Kept(i)      == item'[i] = item[i]
Unwritten(i) == row'[i] = row[i]

Consumes(t, i) ==
  /\ thread[t].pc \in {"performing", "consuming"} /\ thread[t].item = i /\ Unwritten(i)
  /\ UNCHANGED <<outcomes, delivered, crossed, cut, drafted>>
  /\ \/ /\ item[i] \in {"injected", "executed", "consumed"} /\ item'[i] = "consumed"
        /\ Goes(t, i, [pc |-> "closing", item |-> i])
     \/ /\ item[i] \notin {"injected", "executed"} /\ Kept(i) /\ Goes(t, i, Idle)
        /\ thread[t].pc = "consuming" => item[i] # "consumed"

Closes(t, i) ==
  /\ thread[t].pc = "closing" /\ thread[t].item = i /\ Unwritten(i)
  /\ UNCHANGED <<outcomes, delivered, crossed, cut, drafted>>
  /\ item'[i] = "outcome" /\ Goes(t, i, [pc |-> "recording", item |-> i])

Records(t, i) ==
  /\ thread[t].pc = "recording" /\ thread[t].item = i /\ Kept(i)
  /\ UNCHANGED <<outcomes, delivered, crossed, drafted>>
  /\ \/ /\ row'[i].state = item[i] /\ cut' = cut
        /\ Goes(t, i, [pc |-> "counting", item |-> i])
     \/ Unwritten(i) /\ cut' = cut \cup {i} /\ Goes(t, i, Idle)

Counts(t, i) ==
  /\ thread[t].pc = "counting" /\ thread[t].item = i /\ Kept(i) /\ Goes(t, i, Idle)
  /\ UNCHANGED <<delivered, crossed, cut, drafted>>
  /\ \/ row'[i].state = "outcome" /\ outcomes'[i] = outcomes[i] + 1
     \/ Unwritten(i) /\ outcomes'[i] = outcomes[i]

Sends(t, i) ==
  /\ thread[t].pc = "sending" /\ thread[t].item = i /\ Kept(i) /\ Unwritten(i)
  /\ UNCHANGED <<outcomes, crossed, cut, drafted>>
  /\ \E ok \in BOOLEAN : /\ delivered' = IF ok THEN delivered \cup {i} ELSE delivered
                         /\ Goes(t, i, [pc |-> "journaling", item |-> i, sent |-> ok])

Enters(t, i) ==
  /\ Observable(i) /\ item'[i] = (IF item[i] = "ready" THEN "executed" ELSE item[i])
  /\ crossed' = IF Closing(i) # {} THEN crossed \cup {i} ELSE crossed
  /\ Goes(t, i, [pc |-> "consuming", item |-> i])

Reports(t, i) ==
  /\ thread[t].pc = "journaling" /\ thread[t].item = i /\ (Unwritten(i) \/ row'[i].state = item[i])
  /\ UNCHANGED <<outcomes, delivered, cut, drafted>>
  /\ \/ Enters(t, i)
     \/ ~(thread[t].sent /\ Observable(i)) /\ Kept(i) /\ crossed' = crossed /\ Goes(t, i, Idle)

Observes(t, i) ==
  /\ thread[t] = Idle /\ Unwritten(i) /\ Enters(t, i)
  /\ UNCHANGED <<outcomes, delivered, cut, drafted>>

Approves(t, i) ==
  /\ thread[t] = Idle /\ item[i] \in States /\ i \in drafted /\ Unwritten(i)
  /\ item'[i] = (IF item[i] \in {"queued", "preparing"} THEN "ready" ELSE item[i])
  /\ UNCHANGED <<outcomes, delivered, crossed, cut, drafted>>
  /\ Goes(t, i, [pc |-> "sending", item |-> i])

Acts(t, i) ==
  /\ thread[t] = Idle /\ Fresh(i) /\ item'[i] = "executed" /\ drafted' = drafted \cup {i}
  /\ (Unwritten(i) \/ row'[i].state = "queued")
  /\ UNCHANGED <<outcomes, delivered, crossed, cut>>
  /\ Goes(t, i, [pc |-> "performing", item |-> i])

OperatorStep(t, i) ==
  \/ Consumes(t, i) \/ Closes(t, i) \/ Records(t, i) \/ Counts(t, i) \/ Sends(t, i)
  \/ Reports(t, i) \/ Observes(t, i) \/ Approves(t, i) \/ Acts(t, i)

(* What threads do to the intervention they have. *)
LEMMA ThreadEffects ==
  ASSUME ItemTypes, ItemTypes', NEW t \in Operators, NEW i, i = thread[t].item
  PROVE  /\ Performed(t) \/ Consume(t) => Consumes(t, i)
         /\ Close(t) => Closes(t, i)
         /\ \A ok \in BOOLEAN : /\ Record(t, ok) => Records(t, i)
                                /\ Count(t, ok) => Counts(t, i)
                                /\ Send(t, ok) => Sends(t, i)
                                /\ JournalApproval(t, ok) => Reports(t, i)
<1> USE DEF ItemTypes, Rows, Threads, Reporting, States, None, Idle, Alone, Goes, Kept, Unwritten, journal
<1>1. ASSUME Performed(t) PROVE Consumes(t, i)
  <2>1. i \in Items /\ thread[t].pc = "performing"
    BY <1>1 DEF Performed
  <2>2. CASE May(i, "consumed")
    BY <2>1, <2>2, <1>1 DEF Performed, Consumes, May, Allowed, Moved, Step, Await
  <2>3. CASE ~May(i, "consumed")
    BY <2>1, <2>3, <1>1 DEF Performed, Consumes, May, Allowed, Return, Await
  <2> QED BY <2>2, <2>3
<1>2. ASSUME Consume(t) PROVE Consumes(t, i)
  <2>1. i \in Items /\ thread[t].pc = "consuming"
    BY <1>2 DEF Consume
  <2>2. CASE item[i] = "consumed" \/ May(i, "consumed")
    BY <2>1, <2>2, <1>2 DEF Consume, Consumes, May, Allowed, Moved, Step, Await
  <2>3. CASE ~(item[i] = "consumed" \/ May(i, "consumed"))
    BY <2>1, <2>3, <1>2 DEF Consume, Consumes, May, Allowed, Return, Await
  <2> QED BY <2>2, <2>3
<1>3. ASSUME Close(t) PROVE Closes(t, i)
  BY <1>3 DEF Close, Closes, Moved, Step, Await
<1>4. ASSUME NEW ok \in BOOLEAN, Record(t, ok) PROVE Records(t, i)
  <2>1. CASE ok
    BY <2>1, <1>4 DEF Record, Records, Journal, Current, Step, Await
  <2>2. CASE ~ok
    BY <2>2, <1>4 DEF Record, Records, Journal, Return, Await
  <2> QED BY <2>1, <2>2
<1>5. ASSUME NEW ok \in BOOLEAN, Count(t, ok) PROVE Counts(t, i)
  <2>1. CASE ok
    BY <2>1, <1>5 DEF Count, Counts, Return, Await
  <2>2. CASE ~ok
    BY <2>2, <1>5 DEF Count, Counts, Return, Await
  <2> QED BY <2>1, <2>2
<1>6. ASSUME NEW ok \in BOOLEAN, Send(t, ok) PROVE Sends(t, i)
  BY <1>6 DEF Send, Sends, Await
<1>7. ASSUME NEW ok \in BOOLEAN, JournalApproval(t, ok) PROVE Reports(t, i)
  <2>1. i \in Items /\ thread[t].pc = "journaling" /\ thread[t].sent \in BOOLEAN
    BY <1>7 DEF JournalApproval
  <2>2. /\ Unwritten(i) \/ row'[i].state = item[i]
        /\ \A k \in Items \ {i} : row'[k] = row[k]
    BY <2>1, <1>7 DEF JournalApproval, Journal, Current
  <2>3. CASE thread[t].sent /\ Observable(i)
    <3>1. Entered(i) /\ Step(t, "consuming") /\ UNCHANGED <<event, outcomes, job, delivered, cut, drafted>>
      BY <1>7, <2>3 DEF JournalApproval
    <3>2. /\ item'[i] = (IF item[i] = "ready" THEN "executed" ELSE item[i])
          /\ \A k \in Items \ {i} : item'[k] = item[k]
      BY <2>1, <3>1 DEF Entered, Moved
    <3>3. crossed' = IF Closing(i) # {} THEN crossed \cup {i} ELSE crossed
      BY <3>1 DEF Entered
    <3>4. thread' = [thread EXCEPT ![t] = [pc |-> "consuming", item |-> i]]
      BY <3>1 DEF Step, Await
    <3> QED BY <2>1, <2>2, <2>3, <3>1, <3>2, <3>3, <3>4 DEF Reports, Enters
  <2>4. CASE ~(thread[t].sent /\ Observable(i))
    <3>1. Return(t) /\ UNCHANGED <<event, item, crossed, outcomes, job, delivered, cut, drafted>>
      BY <1>7, <2>4 DEF JournalApproval
    <3> QED BY <2>1, <2>2, <2>4, <3>1 DEF Reports, Return, Await
  <2> QED BY <2>3, <2>4
<1> HIDE DEF ItemTypes, Alone, Goes, Kept, Unwritten
<1> QED BY <1>1, <1>2, <1>3, <1>4, <1>5, <1>6, <1>7

(* And what idle ones begin. *)
LEMMA EntryEffects ==
  ASSUME ItemTypes, ItemTypes', NEW t \in Operators, NEW i \in Items
  PROVE  /\ Observe(t, i) => Observes(t, i)
         /\ Approve(t, i) => Approves(t, i)
         /\ \A saved \in BOOLEAN : AgentActs(t, i, saved) => Acts(t, i)
<1> USE DEF ItemTypes, Rows, Threads, Alone, Goes, Kept, Unwritten, journal, Moved, Await
<1>1. ASSUME Observe(t, i) PROVE Observes(t, i)
  <2>1. /\ Entered(i) /\ thread[t] = Idle /\ Observable(i)
        /\ UNCHANGED <<row, event, outcomes, job, delivered, cut, drafted>>
        /\ thread' = [thread EXCEPT ![t] = [pc |-> "consuming", item |-> i]]
    BY <1>1 DEF Observe
  <2>2. /\ item'[i] = (IF item[i] = "ready" THEN "executed" ELSE item[i])
        /\ \A k \in Items \ {i} : item'[k] = item[k]
    BY <2>1 DEF Entered
  <2>3. crossed' = IF Closing(i) # {} THEN crossed \cup {i} ELSE crossed
    BY <2>1 DEF Entered
  <2> QED BY <2>1, <2>2, <2>3 DEF Observes, Enters
<1>2. ASSUME Approve(t, i) PROVE Approves(t, i)
  BY <1>2 DEF Approve, Approves, Known, Walked
<1>3. ASSUME NEW saved \in BOOLEAN, AgentActs(t, i, saved) PROVE Acts(t, i)
  BY <1>3 DEF AgentActs, Acts
<1> HIDE DEF ItemTypes, Alone, Goes, Kept, Unwritten
<1> QED BY <1>1, <1>2, <1>3

(* Events, jobs and hosts take an intervention forward before anybody closes it; edits     *)
(* and whatever else writes the journal write what is the case.                             *)
Forward(k) ==
  \/ item'[k] = item[k]
  \/ item[k] = None /\ item'[k] \in {"queued", "preparing", "ready"}
  \/ <<item[k], item'[k]>> \in {<<"queued", "preparing">>, <<"preparing", "ready">>,
                                <<"ready", "injected">>}

Journaled(k) ==
  \/ row'[k].state = row[k].state
  \/ item[k] = None /\ item'[k] # None /\ row'[k].state = "queued"
  \/ item[k] \in States /\ item'[k] = item[k] /\ row'[k].state = item[k]

Background ==
  /\ \A k \in Items : Forward(k) /\ Journaled(k)
  /\ UNCHANGED <<thread, outcomes, delivered, crossed, cut>>

EventStep ==
  \/ \E i \in Items : Judge(i, "prepare") \/ Judge(i, "inline")
  \/ \E ok \in BOOLEAN : Create(ok) \/ AssembleInline(ok)
  \/ \E i \in Items, asks, saved \in BOOLEAN : Draft(i, asks, saved)
  \/ \E i \in Items : \/ Take(i) \/ Requeue(i) \/ Inject(i)
                      \/ \E ok \in BOOLEAN : Finish(i, ok) \/ Edit(i, ok)

TakeoverStep == \/ \E on \in BOOLEAN : Start(on) \/ Release(on) \/ Status(on) \/ Command(on)
                \/ Overrun

LEMMA EventEffects ==
  ASSUME ItemTypes, ItemTypes', Secluded, EventStep PROVE Background
<1> USE DEF ItemTypes, Secluded, Background, Forward, Journaled, States, None, Idle, Moved, May, Allowed, journal
<1>1. ASSUME NEW i \in Items, NEW how \in {"prepare", "inline"}, Judge(i, how) PROVE Background
  BY <1>1 DEF Judge
<1>2. ASSUME NEW saved \in BOOLEAN, Create(saved) PROVE Background
  BY <1>2 DEF Create
<1>3. ASSUME NEW ok \in BOOLEAN, AssembleInline(ok) PROVE Background
  BY <1>3 DEF AssembleInline
<1>4. ASSUME NEW i \in Items, NEW asks \in BOOLEAN, NEW saved \in BOOLEAN, Draft(i, asks, saved) PROVE Background
  BY <1>4 DEF Draft, Fresh
<1>5. ASSUME NEW i \in Items, Take(i) PROVE Background
  BY <1>5 DEF Take
<1>6. ASSUME NEW i \in Items, Requeue(i) PROVE Background
  BY <1>6 DEF Requeue
<1>7. ASSUME NEW i \in Items, Inject(i) PROVE Background
  BY <1>7 DEF Inject
<1>8. ASSUME NEW i \in Items, NEW ok \in BOOLEAN, Finish(i, ok) PROVE Background
  BY <1>8 DEF Finish
<1>9. ASSUME NEW i \in Items, NEW saved \in BOOLEAN, Edit(i, saved) PROVE Background
  BY <1>9 DEF Edit, Journal, Current, Known
<1> HIDE DEF ItemTypes, Secluded, Background
<1> QED BY <1>1, <1>2, <1>3, <1>4, <1>5, <1>6, <1>7, <1>8, <1>9 DEF EventStep

(* Takeovers and commands touch none of it. *)
LEMMA TakeoverEffects ==
  TakeoverStep \/ UNCHANGED vars
    => UNCHANGED <<event, item, drafted, approval, row, outcomes, job, thread, delivered, crossed, cut>>
BY DEF TakeoverStep, Start, Command, Overrun, Release, Status, Ends, vars, operator, journal

(* Every step is one of these. *)
LEMMA StepKinds ==
  ASSUME ItemTypes, ItemTypes', [Next]_vars
  PROVE  \/ EventStep \/ TakeoverStep \/ Restart \/ UNCHANGED vars
         \/ \E t \in Operators, i \in Items : OperatorStep(t, i)
<1>1. ASSUME NEW t \in Operators,
             \/ Performed(t) \/ Consume(t) \/ Close(t)
             \/ \E ok \in BOOLEAN : \/ Record(t, ok) \/ Count(t, ok) \/ Send(t, ok)
                                    \/ JournalApproval(t, ok)
      PROVE  \E i \in Items : OperatorStep(t, i)
  <2>1. OperatorStep(t, thread[t].item)
    BY <1>1, ThreadEffects DEF OperatorStep
  <2>2. thread[t].item \in Items
    BY <1>1, ThreadEffects DEF Consumes, Closes, Records, Counts, Sends, Reports, Enters, Goes
  <2> QED BY <2>1, <2>2
<1>2. ASSUME NEW t \in Operators, NEW i \in Items,
             \/ Observe(t, i) \/ Approve(t, i)
             \/ \E ok \in BOOLEAN : AgentActs(t, i, ok)
      PROVE  OperatorStep(t, i)
  BY <1>2, EntryEffects DEF OperatorStep
<1> QED BY <1>1, <1>2 DEF Next, EventStep, TakeoverStep

-----------------------------------------------------------------------------
(* Types.                                                                   *)

LEMMA TypesInit == Init => ItemTypes /\ AttemptsLeft
BY LoopAssumption DEF Init, ItemTypes, Rows, AttemptsLeft, Threads, States, Sent, None, Idle, NoJob

(* What is written in the journal is a row of it. *)
LEMMA RowsWritten ==
  ASSUME ItemTypes, NEW i \in Items
  PROVE  /\ \A s \in States : [row EXCEPT ![i].state = s] \in Rows
         /\ item[i] \in States => [row EXCEPT ![i] = Current(i)] \in Rows
BY DEF ItemTypes, Rows, Current

(* Every step keeps the types; a job is queued again only with an attempt left, and an    *)
(* intervention that is being made has no job yet.                                         *)
LEMMA TypesStep ==
  ItemTypes /\ AttemptsLeft /\ Secluded /\ Stages /\ [Next]_vars => ItemTypes' /\ AttemptsLeft'
<1> SUFFICES ASSUME ItemTypes, AttemptsLeft, Secluded, Stages, [Next]_vars
             PROVE  ItemTypes' /\ AttemptsLeft'
  OBVIOUS
<1> DEFINE Goal == ItemTypes' /\ AttemptsLeft'
<1>0. row \in Rows /\ \A t \in Operators : thread[t] # Idle => /\ thread[t].item \in Items
                                                            /\ item[thread[t].item] \in States
  BY DEF ItemTypes, Rows, Threads, Stages, Stage, States, Reporting
<1> USE LoopAssumption DEF ItemTypes, AttemptsLeft, Threads, Reporting, States, Sent, None, Idle, NoJob, Moved, May,
                           Allowed, operator, journal
<1>1. ASSUME NEW i \in Items, NEW how \in {"prepare", "inline"}, Judge(i, how) PROVE Goal
  BY <1>1 DEF Judge
<1>2. ASSUME NEW saved \in BOOLEAN, Create(saved) PROVE Goal
  <2>1. event.item \in Items /\ job[event.item] = NoJob
    BY <1>2 DEF Create, Secluded
  <2>2. row' \in Rows
    BY <1>2, <2>1, <1>0, RowsWritten DEF Create
  <2>3. item' \in [Items -> {None, "gone"} \cup States]
    BY <1>2, <2>1 DEF Create
  <2>4. CASE event.pc = "prepare"
    <3>1. job' = [job EXCEPT ![event.item].pc = "queued"] /\ event' = Idle
      BY <1>2, <2>4 DEF Create
    <3> QED BY <1>2, <2>1, <2>2, <2>3, <3>1 DEF Create, Rows
  <2>5. CASE event.pc = "inline"
    BY <1>2, <2>1, <2>2, <2>3, <2>5 DEF Create, Rows
  <2> QED BY <1>2, <2>4, <2>5 DEF Create
<1>3. ASSUME NEW ok \in BOOLEAN, AssembleInline(ok) PROVE Goal
  BY <1>3 DEF AssembleInline
<1>4. ASSUME NEW i \in Items, NEW asks \in BOOLEAN, NEW saved \in BOOLEAN, Draft(i, asks, saved) PROVE Goal
  <2>1. row' \in Rows
    BY <1>0, <1>4, RowsWritten DEF Draft
  <2> QED BY <1>4, <2>1 DEF Draft, Rows
<1>5. ASSUME NEW i \in Items, Take(i) PROVE Goal
  BY <1>5 DEF Take
<1>6. ASSUME NEW i \in Items, Requeue(i) PROVE Goal
  BY <1>6 DEF Requeue
<1>7. ASSUME NEW i \in Items, Inject(i) PROVE Goal
  BY <1>7 DEF Inject
<1>8. ASSUME NEW i \in Items, NEW ok \in BOOLEAN, Finish(i, ok) PROVE Goal
  BY <1>8 DEF Finish, Exhausted
<1>9. ASSUME NEW i \in Items, NEW saved \in BOOLEAN, Edit(i, saved) PROVE Goal
  BY <1>0, <1>9, RowsWritten DEF Edit, Journal, Known, Rows
<1>10. ASSUME NEW t \in Operators, Performed(t) PROVE Goal
  <2>1. thread[t].item \in Items
    BY <1>10, <1>0 DEF Performed
  <2>2. thread' \in Threads
    BY <1>10, <2>1 DEF Performed, Step, Return, Await
  <2>3. item' \in [Items -> {None, "gone"} \cup States]
    BY <1>10, <2>1 DEF Performed
  <2> QED BY <1>10, <2>2, <2>3 DEF Performed
<1>11. ASSUME NEW t \in Operators, Consume(t) PROVE Goal
  <2> DEFINE i == thread[t].item
  <2>1. CASE item[i] = "consumed" \/ May(i, "consumed")
    <3>1. /\ item' = [item EXCEPT ![i] = "consumed"]
          /\ thread' = [thread EXCEPT ![t] = [pc |-> "closing", item |-> i]]
      BY <1>11, <2>1 DEF Consume, Step, Await
    <3>2. i \in Items
      BY <1>11, <1>0 DEF Consume
    <3> QED BY <1>11, <3>1, <3>2 DEF Consume
  <2>2. CASE ~(item[i] = "consumed" \/ May(i, "consumed"))
    BY <1>11, <2>2 DEF Consume, Return, Await
  <2> QED BY <2>1, <2>2
<1>12. ASSUME NEW t \in Operators, Close(t) PROVE Goal
  BY <1>12 DEF Close, Step, Await
<1>13. ASSUME NEW t \in Operators, NEW i \in Items, Observe(t, i) PROVE Goal
  BY <1>13 DEF Observe, Observable, Entered, Await
<1>14. ASSUME NEW t \in Operators, NEW i \in Items, Approve(t, i) PROVE Goal
  BY <1>14 DEF Approve, Walked, Known, Await
<1>15. ASSUME NEW t \in Operators, NEW saved \in BOOLEAN, Record(t, saved) PROVE Goal
  <2>1. thread' \in Threads /\ cut' \subseteq Items
    BY <1>15 DEF Record, Step, Return, Await
  <2>2. row' \in Rows
    <3>1. thread[t].item \in Items /\ item[thread[t].item] \in States
      BY <1>15, <1>0 DEF Record
    <3>2. [row EXCEPT ![thread[t].item] = Current(thread[t].item)] \in Rows
      BY <3>1, RowsWritten
    <3> QED BY <1>15, <1>0, <3>2 DEF Record, Journal
  <2> QED BY <1>15, <2>1, <2>2 DEF Record, Rows
<1>16. ASSUME NEW t \in Operators, NEW saved \in BOOLEAN, Count(t, saved) PROVE Goal
  <2>1. row' \in Rows
    <3>1. thread[t].item \in Items
      BY <1>16, <1>0 DEF Count
    <3>2. [row EXCEPT ![thread[t].item].state = "outcome"] \in Rows
      BY <3>1, RowsWritten
    <3> QED BY <1>16, <1>0, <3>2 DEF Count, journal
  <2>2. outcomes' \in [Items -> Nat]
    BY <1>16, <1>0 DEF Count
  <2> QED BY <1>16, <2>1, <2>2 DEF Count, Return, Await, Rows
<1>17. ASSUME NEW t \in Operators, NEW ok \in BOOLEAN, Send(t, ok) PROVE Goal
  BY <1>17 DEF Send, Await
<1>18. ASSUME NEW t \in Operators, NEW saved \in BOOLEAN, JournalApproval(t, saved) PROVE Goal
  <2>1. thread[t].item \in Items
    BY <1>18 DEF JournalApproval
  <2>2. row' \in Rows
    <3>1. thread[t].item \in Items /\ item[thread[t].item] \in States
      BY <1>18, <1>0 DEF JournalApproval
    <3>2. [row EXCEPT ![thread[t].item] = Current(thread[t].item)] \in Rows
      BY <3>1, RowsWritten
    <3> QED BY <1>18, <1>0, <3>2 DEF JournalApproval, Journal
  <2>3. thread' \in Threads /\ item' \in [Items -> {None, "gone"} \cup States] /\ crossed' \subseteq Items
    <3>1. CASE thread[t].sent /\ Observable(thread[t].item)
      <4>1. Entered(thread[t].item) /\ Step(t, "consuming")
        BY <1>18, <3>1 DEF JournalApproval
      <4>2. thread' \in Threads
        BY <2>1, <4>1 DEF Step, Await
      <4> QED BY <2>1, <4>1, <4>2 DEF Entered
    <3>2. CASE ~(thread[t].sent /\ Observable(thread[t].item))
      BY <1>18, <2>1, <3>2 DEF JournalApproval, Return, Await
    <3> QED BY <3>1, <3>2
  <2> QED BY <1>18, <2>2, <2>3 DEF JournalApproval, Rows
<1>19. ASSUME NEW t \in Operators, NEW i \in Items, NEW saved \in BOOLEAN, AgentActs(t, i, saved) PROVE Goal
  <2>1. row' \in Rows
    BY <1>0, <1>19, RowsWritten DEF AgentActs
  <2> QED BY <1>19, <2>1 DEF AgentActs, Await, Rows
<1>20. CASE TakeoverStep \/ UNCHANGED vars
  BY <1>20, TakeoverEffects
<1>21. CASE Restart
  BY <1>0, <1>21 DEF Restart, Rows
<1> HIDE DEF ItemTypes, AttemptsLeft, Threads, Reporting, States, Sent, None, Idle, NoJob, Moved, May,
             Allowed, operator, journal
<1> QED BY <1>1, <1>2, <1>3, <1>4, <1>5, <1>6, <1>7, <1>8, <1>9, <1>10, <1>11, <1>12, <1>13, <1>14,
           <1>15, <1>16, <1>17, <1>18, <1>19, <1>20, <1>21 DEF Next, TakeoverStep

-----------------------------------------------------------------------------
(* How far it has come, and what the journal has of it.                     *)

(* A thread is idle, or at work on an intervention. *)
AtWork == Reporting \cup {"sending", "journaling"}

LEMMA ThreadKinds ==
  ASSUME ItemTypes, NEW t \in Operators
  PROVE  \/ thread[t] = Idle /\ thread[t].pc = "idle"
         \/ thread[t] # Idle /\ thread[t].pc \in AtWork /\ thread[t].item \in Items
BY DEF ItemTypes, Threads, AtWork, Reporting, Idle

LEMMA StageValues ==
  /\ Stage("sending") = {"ready", "injected", "executed", "consumed", "outcome"}
  /\ Stage("journaling") = {"ready", "injected", "executed", "consumed", "outcome"}
  /\ Stage("consuming") = {"injected", "executed", "consumed", "outcome"}
  /\ Stage("performing") = {"executed", "consumed", "outcome"}
  /\ Stage("closing") = {"consumed", "outcome"}
  /\ Stage("recording") = {"outcome"} /\ Stage("counting") = {"outcome"}
BY DEF Stage

(* Nothing goes back: whatever stage an intervention has reached, it has still reached. *)
Onward == \A k \in Items, pc \in AtWork : item[k] \in Stage(pc) => item'[k] \in Stage(pc)

LEMMA BackgroundOnward == Background /\ ItemTypes => Onward
BY StageValues DEF Onward, AtWork, Reporting, Background, Forward, None

LEMMA OperatorsOnward ==
  ASSUME ItemTypes, Stages, Unmade, NEW t \in Operators, NEW i \in Items, OperatorStep(t, i)
  PROVE  /\ Onward /\ Alone(t, i)
         /\ thread'[t] # Idle => /\ thread'[t].pc \in AtWork /\ thread'[t].item = i
                                 /\ item'[i] \in Stage(thread'[t].pc)
<1>1. thread[t] # Idle /\ thread[t].item = i => thread[t].pc \in AtWork /\ item[i] \in Stage(thread[t].pc)
  BY ThreadKinds DEF Stages
<1> USE StageValues DEF Goes, Kept, AtWork, Reporting
<1> DEFINE Goal == /\ \A pc \in AtWork : item[i] \in Stage(pc) => item'[i] \in Stage(pc)
                   /\ Alone(t, i)
                   /\ thread'[t] # Idle => /\ thread'[t].pc \in AtWork /\ thread'[t].item = i
                                           /\ item'[i] \in Stage(thread'[t].pc)
<1>2. CASE Consumes(t, i)
  <2> Goal
    BY <1>1, <1>2 DEF Consumes, Idle
  <2> QED BY DEF Onward, Alone
<1>3. CASE Closes(t, i)
  <2> Goal
    BY <1>1, <1>3 DEF Closes, Idle
  <2> QED BY DEF Onward, Alone
<1>4. CASE Records(t, i)
  <2> Goal
    BY <1>1, <1>4 DEF Records, Idle
  <2> QED BY DEF Onward, Alone
<1>8. CASE Counts(t, i)
  <2> Goal
    BY <1>1, <1>8 DEF Counts
  <2> QED BY DEF Onward, Alone
<1>9. CASE Sends(t, i)
  <2> Goal
    BY <1>1, <1>9 DEF Sends, Idle
  <2> QED BY DEF Onward, Alone
<1>5. CASE Reports(t, i) \/ Observes(t, i)
  <2> Goal
    BY <1>1, <1>5 DEF Reports, Observes, Enters, Observable, Idle
  <2> QED BY DEF Onward, Alone
<1>6. CASE Approves(t, i)
  <2> Goal
    BY <1>6 DEF Approves, Idle, States
  <2> QED BY DEF Onward, Alone
<1>7. CASE Acts(t, i)
  <2> Goal
    BY <1>7 DEF Acts, Fresh, None
  <2> QED BY DEF Onward, Alone
<1> QED BY <1>2, <1>3, <1>4, <1>5, <1>6, <1>7, <1>8, <1>9 DEF OperatorStep

(* So what a thread found, or something later, is still the case. *)
LEMMA StagesStep ==
  ASSUME ItemTypes, ItemTypes', Unmade, Secluded, Stages, [Next]_vars PROVE Stages'
<1>1. ASSUME Background PROVE Stages'
  BY <1>1, BackgroundOnward, ThreadKinds DEF Background, Onward, Stages
<1>2. ASSUME NEW t \in Operators, NEW i \in Items, OperatorStep(t, i) PROVE Stages'
  BY <1>2, OperatorsOnward, ThreadKinds DEF Onward, Stages, Alone
<1>3. CASE TakeoverStep \/ UNCHANGED vars
  BY <1>3, TakeoverEffects DEF Stages
<1>4. CASE Restart
  BY <1>4 DEF Restart, Stages, Idle
<1> QED BY <1>1, <1>2, <1>3, <1>4, StepKinds, EventEffects

(* What is closed stays closed, in memory and in the journal. *)
LEMMA ClosedStep ==
  ASSUME ItemTypes, ItemTypes', Unmade, Secluded, Stages, Closed, [Next]_vars PROVE Closed'
<1>0. outcomes \in [Items -> Nat]
  BY DEF ItemTypes
<1>1. ASSUME Background PROVE Closed'
  BY <1>1 DEF Background, Forward, Journaled, Closed, None, States
<1>2. ASSUME NEW t \in Operators, NEW i \in Items, OperatorStep(t, i) PROVE Closed'
  <2>1. Alone(t, i) /\ (item[i] = "outcome" => item'[i] = "outcome")
    BY <1>2, OperatorsOnward, StageValues DEF Onward, AtWork, Reporting
  <2>2. thread[t] # Idle /\ thread[t].item = i => thread[t].pc \in AtWork /\ item[i] \in Stage(thread[t].pc)
    BY ThreadKinds DEF Stages
  <2>3. \/ item[i] # "gone" /\ item'[i] # "gone"
    BY <1>2, <2>2, StageValues DEF OperatorStep, Consumes, Closes, Records, Counts, Sends, Reports, Observes,
         Approves, Acts, Enters, Observable, Kept, Idle, AtWork, Reporting, States, Fresh, None
  <2>4. outcomes'[i] > 0 => item'[i] = "outcome" /\ row'[i].state = "outcome"
    <3>1. CASE outcomes'[i] = outcomes[i]
      <4>1. outcomes[i] > 0 => item[i] = "outcome" /\ row[i].state = "outcome"
        BY <2>3 DEF Closed
      <4>2. Unwritten(i) \/ row'[i].state \in {item[i], "outcome"} \/ Fresh(i)
        BY <1>2 DEF OperatorStep, Consumes, Closes, Records, Counts, Sends, Reports, Observes, Approves, Acts
      <4> QED BY <2>1, <3>1, <4>1, <4>2 DEF Unwritten, Fresh, None
    <3>2. CASE Counts(t, i)
      BY <3>2, <2>2, <2>3, StageValues, <1>0 DEF Counts, Kept, Unwritten, Idle, Closed
    <3> QED BY <1>2, <3>1, <3>2 DEF OperatorStep, Consumes, Closes, Records, Sends, Reports, Observes,
              Approves, Acts
  <2>5. row'[i].state = "consumed" => item'[i] \in {"consumed", "outcome"}
    <3>1. item[i] \in {"consumed", "outcome"} => item'[i] \in {"consumed", "outcome"}
      BY <1>2, OperatorsOnward, StageValues DEF Onward, AtWork, Reporting
    <3>2. Unwritten(i) \/ row'[i].state \in {item[i], "outcome", "queued"}
      BY <1>2 DEF OperatorStep, Consumes, Closes, Records, Counts, Sends, Reports, Observes, Approves, Acts
    <3> QED BY <3>1, <3>2 DEF Unwritten, Closed
  <2> QED BY <2>1, <2>3, <2>4, <2>5 DEF Closed, Alone
<1>3. CASE TakeoverStep \/ UNCHANGED vars
  BY <1>3, TakeoverEffects DEF Closed
<1>4. CASE Restart
  BY <1>0, <1>4 DEF Restart, Unmade, journal, Closed, ItemTypes, Rows, States, None
<1> QED BY <1>1, <1>2, <1>3, <1>4, StepKinds, EventEffects

-----------------------------------------------------------------------------
(* One report at a time.                                                    *)

(* No report begins on an intervention that counts already, and none beside another that  *)
(* it does not cross; a report that counts has ended.                                      *)
ReportsMove(t, i) ==
  /\ \A k \in Items \ {i} : Reporters(k)' \subseteq Reporters(k) /\ outcomes'[k] = outcomes[k]
  /\ \/ Reporters(i)' \subseteq Reporters(i) /\ outcomes'[i] = outcomes[i]
     \/ /\ t \in Reporters(i) /\ Reporters(i)' \subseteq Reporters(i) \ {t}
        /\ outcomes'[i] = outcomes[i] + 1
     \/ /\ outcomes[i] = 0 /\ outcomes'[i] = 0
        /\ i \notin crossed' => Reporters(i)' = {t}

LEMMA OperatorsReport ==
  ASSUME ItemTypes, Unmade, Stages, Closed, NEW t \in Operators, NEW i \in Items, OperatorStep(t, i)
  PROVE  ReportsMove(t, i)
<1>0. outcomes \in [Items -> Nat]
  BY DEF ItemTypes
<1>1. Alone(t, i) /\ (thread'[t] = Idle \/ thread'[t].item = i)
  BY OperatorsOnward
<1>2. \A k \in Items \ {i} : Reporters(k)' \subseteq Reporters(k) /\ outcomes'[k] = outcomes[k]
  BY <1>1 DEF Reporters, Reporting, Alone, Idle
<1>3. item[i] # "outcome" => ~At(i, "recording") /\ ~At(i, "counting")
  BY StageValues DEF At, Stages, Idle
<1>4. \/ Reporters(i)' \subseteq Reporters(i) /\ outcomes'[i] = outcomes[i]
      \/ /\ t \in Reporters(i) /\ Reporters(i)' \subseteq Reporters(i) \ {t}
         /\ outcomes'[i] = outcomes[i] + 1
      \/ /\ outcomes[i] = 0 /\ outcomes'[i] = 0
         /\ i \notin crossed' => Reporters(i)' = {t}
  <2>0. \A u \in Operators \ {t} : thread'[u] = thread[u]
    BY <1>1 DEF Alone
  <2>1. CASE Consumes(t, i) \/ Closes(t, i) \/ Records(t, i)
    BY <2>0, <2>1 DEF Consumes, Closes, Records, Reporters, Reporting, Goes, Idle
  <2>2. CASE Counts(t, i)
    BY <2>0, <2>2 DEF Counts, Reporters, Reporting, Goes, Idle, Unwritten
  <2>3. CASE Sends(t, i)
    <3>1. thread'[t].pc \notin Reporting /\ outcomes' = outcomes
      BY <2>3 DEF Sends, Goes, Reporting
    <3> QED BY <2>0, <3>1 DEF Reporters
  <2>6. CASE Approves(t, i)
    BY <2>0, <2>6 DEF Approves, Reporters, Reporting, Goes, Idle
  <2>4. CASE Reports(t, i) \/ Observes(t, i)
    <3>1. CASE Enters(t, i)
      <4>1. Observable(i) /\ (i \notin crossed' => Closing(i) = {}) /\ outcomes' = outcomes
        BY <2>4, <3>1 DEF Reports, Observes, Enters
      <4>2. outcomes[i] = 0
        BY <1>0, <4>1, OperatorsOnward DEF Closed, Observable, Enters, Goes
      <4>3. i \notin crossed' => Reporters(i) = {}
        BY <4>1, <1>3 DEF Reporters, Reporting, Closing, Observable, At
      <4> QED BY <2>0, <3>1, <4>1, <4>2, <4>3 DEF Enters, Goes, Reporters, Reporting
    <3>2. CASE ~Enters(t, i)
      BY <2>0, <2>4, <3>2 DEF Reports, Observes, Reporters, Reporting, Goes, Idle
    <3> QED BY <3>1, <3>2
  <2>5. CASE Acts(t, i)
    <3>1. Reporters(i) = {} /\ outcomes[i] = 0
      BY <2>5 DEF Acts, Fresh, Unmade, On, Reporters, Reporting, Idle
    <3> QED BY <2>0, <2>5, <3>1 DEF Acts, Reporters, Reporting, Goes, Idle
  <2> QED BY <2>1, <2>2, <2>3, <2>4, <2>5, <2>6 DEF OperatorStep
<1> QED BY <1>2, <1>4 DEF ReportsMove

LEMMA OneReportStep ==
  ASSUME ItemTypes, ItemTypes', Unmade, Secluded, Stages, Closed, OneReport, [Next]_vars PROVE OneReport'
<1>0. outcomes \in [Items -> Nat]
  BY DEF ItemTypes
<1>1. ASSUME UNCHANGED <<thread, outcomes, crossed>> PROVE OneReport'
  BY <1>1 DEF OneReport, Reporters
<1>2. ASSUME NEW t \in Operators, NEW i \in Items, OperatorStep(t, i) PROVE OneReport'
  <2>1. ReportsMove(t, i)
    BY <1>2, OperatorsReport
  <2>5. crossed \subseteq crossed'
    BY <1>2 DEF OperatorStep, Consumes, Closes, Records, Counts, Sends, Reports, Observes, Approves, Acts,
                Enters
  <2>6. ASSUME NEW k \in Items, k \notin crossed'
        PROVE  /\ outcomes'[k] <= 1
               /\ \A u, v \in Reporters(k)' : u = v
               /\ Reporters(k)' # {} => outcomes'[k] = 0
    <3>1. /\ outcomes[k] <= 1 /\ outcomes[k] \in Nat
          /\ \A u, v \in Reporters(k) : u = v
          /\ Reporters(k) # {} => outcomes[k] = 0
      BY <1>0, <2>5, <2>6 DEF OneReport, Reporters
    <3>2. CASE k # i
      BY <2>1, <3>1, <3>2 DEF ReportsMove
    <3>3. CASE k = i
      BY <2>1, <2>6, <3>1, <3>3 DEF ReportsMove
    <3> QED BY <3>2, <3>3
  <2> QED BY <2>6 DEF OneReport, Reporters
<1>3. CASE Restart
  BY <1>3 DEF Restart, journal, OneReport, Reporters, Reporting, Idle
<1> QED BY <1>1, <1>2, <1>3, StepKinds, EventEffects, TakeoverEffects DEF Background

-----------------------------------------------------------------------------
(* Somebody finishes it.                                                    *)

LEMMA AttendedStep ==
  ASSUME ItemTypes, ItemTypes', Unmade, Secluded, Stages, Closed, Attended, [Next]_vars PROVE Attended'
<1>1. ASSUME Background PROVE Attended'
  <2>1. \A i \in Items : /\ ToReport(i)' = ToReport(i)
                         /\ \A pc : At(i, pc)' = At(i, pc)
    BY <1>1 DEF Background, At, ToReport
  <2>2. delivered' = delivered /\ cut' = cut
    BY <1>1 DEF Background
  <2>3. ASSUME NEW i \in Items PROVE item'[i] \in {"consumed", "outcome", "gone"} <=> item[i] \in {"consumed", "outcome", "gone"}
    BY <1>1 DEF Background, Forward, None
  <2>4. ASSUME NEW i \in Items, item[i] \in {"consumed", "outcome", "gone"} PROVE item'[i] = item[i]
    BY <1>1, <2>4 DEF Background, Forward, None
  <2>5. ASSUME NEW i \in Items, item[i] = "outcome" PROVE row'[i].state \in {row[i].state, "outcome"}
    BY <1>1, <2>5 DEF Background, Journaled, None
  <2> QED BY <2>1, <2>2, <2>3, <2>4, <2>5 DEF Attended
<1>2. ASSUME NEW t \in Operators, NEW i \in Items, OperatorStep(t, i) PROVE Attended'
  <2>1. /\ Alone(t, i) /\ (thread'[t] = Idle \/ thread'[t].item = i)
        /\ thread[t] = Idle \/ thread[t].item = i
        /\ \A k \in Items \ {i} : k \in delivered' => k \in delivered
        /\ cut \subseteq cut'
    BY <1>2, OperatorsOnward DEF OperatorStep, Consumes, Closes, Records, Counts, Sends, Reports, Observes,
          Approves, Acts, Enters
  <2>2. ASSUME NEW k \in Items \ {i}
        PROVE  ToReport(k)' = ToReport(k) /\ \A pc \in AtWork : At(k, pc)' = At(k, pc)
    BY <2>1 DEF ToReport, At, Alone, Idle, AtWork, Reporting
  <2>3. \A pc \in AtWork : At(i, pc) /\ thread[t].pc # pc => At(i, pc)'
    BY <2>1 DEF At, Alone
  <2>4. ToReport(i) /\ (thread[t].pc # "journaling" \/ ~thread[t].sent) => ToReport(i)'
    BY <2>1 DEF ToReport, Alone
  <2>5. \A pc : thread'[t] # Idle /\ thread'[t].pc = pc => At(i, pc)'
    BY <2>1 DEF At
  <2>6. thread[t] # Idle => item[i] \in Stage(thread[t].pc)
    BY <2>1 DEF Stages
  <2> DEFINE InFlight == At(i, "consuming") \/ At(i, "closing") \/ ToReport(i)
  <2>7. ASSUME i \notin cut'
        PROVE  /\ item'[i] = "consumed" => At(i, "closing")'
               /\ item'[i] = "outcome" => row'[i].state = "outcome" \/ At(i, "recording")'
               /\ i \in delivered' => item'[i] \in {"outcome", "gone"} \/ InFlight'
    <3>0. /\ item[i] = "consumed" => At(i, "closing")
          /\ item[i] = "outcome" => row[i].state = "outcome" \/ At(i, "recording")
          /\ i \in delivered => item[i] \in {"outcome", "gone"} \/ InFlight
      BY <2>1, <2>7 DEF Attended
    <3> USE StageValues DEF AtWork, Reporting, Goes, Kept, Unwritten
    <3>1. CASE Consumes(t, i)
      <4>1. CASE thread'[t] = Idle
        BY <2>3, <2>4, <2>6, <3>0, <3>1, <4>1 DEF Consumes, Idle
      <4>2. CASE thread'[t] # Idle
        BY <2>5, <3>0, <3>1, <4>2 DEF Consumes, Idle
      <4> QED BY <4>1, <4>2
    <3>2. CASE Closes(t, i)
      BY <2>3, <2>4, <2>5, <3>0, <3>2 DEF Closes, Idle
    <3>3. CASE Records(t, i)
      BY <2>3, <2>4, <2>6, <2>7, <3>0, <3>3 DEF Records, Idle
    <3>4. CASE Counts(t, i)
      BY <2>3, <2>4, <3>0, <3>4 DEF Counts, Idle
    <3>5. CASE Sends(t, i)
      <4>1. i \in delivered' /\ i \notin delivered => ToReport(i)'
        BY <3>5 DEF Sends, ToReport
      <4> QED BY <2>3, <2>4, <3>0, <3>5, <4>1 DEF Sends, Idle
    <3>6. CASE Reports(t, i)
      <4>1. CASE Enters(t, i)
        BY <2>5, <3>6, <4>1 DEF Reports, Enters, Observable, Idle
      <4>2. CASE ~Enters(t, i) /\ thread[t].sent
        BY <2>3, <2>6, <3>0, <3>6, <4>2 DEF Reports, Observable, Idle
      <4>3. CASE ~Enters(t, i) /\ ~thread[t].sent
        BY <2>3, <2>4, <3>0, <3>6, <4>3 DEF Reports, Idle
      <4> QED BY <4>1, <4>2, <4>3
    <3>7. CASE Observes(t, i)
      BY <2>5, <3>7 DEF Observes, Enters, Observable, Idle
    <3>8. CASE Approves(t, i)
      BY <2>3, <2>4, <3>0, <3>8 DEF Approves, Idle
    <3>9. CASE Acts(t, i)
      <4>1. i \notin delivered
        BY <3>0, <3>9 DEF Acts, Fresh, Unmade, On, At, ToReport, Idle, None
      <4> QED BY <3>9, <4>1 DEF Acts
    <3> QED BY <1>2, <3>1, <3>2, <3>3, <3>4, <3>5, <3>6, <3>7, <3>8, <3>9 DEF OperatorStep
  <2> QED BY <2>1, <2>2, <2>7 DEF Attended, Alone, AtWork, Reporting
<1>3. CASE TakeoverStep \/ UNCHANGED vars
  BY <1>3, TakeoverEffects DEF Attended, At, ToReport
<1>4. CASE Restart
  <2>1. ASSUME NEW i \in Items, i \notin cut'
        PROVE  ~At(i, "closing") /\ ~At(i, "recording") /\ ~At(i, "consuming") /\ ~ToReport(i) /\ i \notin cut
    BY <1>4, <2>1 DEF Restart, At, ToReport, Idle
  <2>2. delivered' = delivered /\ row' = row
    BY <1>4 DEF Restart, journal
  <2>3. ASSUME NEW i \in Items, i \notin cut'
        PROVE  /\ item'[i] \notin {"consumed", "outcome"}
               /\ i \in delivered' => item'[i] = "gone"
    BY <1>4, <2>1, <2>2, <2>3 DEF Restart, Attended, Closed, ItemTypes, Rows, None, States
  <2> QED BY <2>3 DEF Attended
<1> QED BY <1>1, <1>2, <1>3, <1>4, StepKinds, EventEffects

-----------------------------------------------------------------------------
(* Until it is made.                                                        *)

(* Only Create, Draft and an agent that acts make an intervention, and none of them twice. *)
LEMMA SecludedStep ==
  ASSUME ItemTypes, ItemTypes', Unmade, Secluded, Stages, [Next]_vars
  PROVE  Unmade' /\ Secluded'
<1> USE DEF ItemTypes, Rows, Threads, Reporting, Unmade, Secluded, States, None, Idle, NoJob, Moved, May, Allowed,
            On, operator, journal
<1>1. ASSUME NEW i \in Items, NEW how \in {"prepare", "inline"}, Judge(i, how) PROVE Unmade' /\ Secluded'
  BY <1>1 DEF Judge, Fresh, UnderWay
<1>2. ASSUME NEW saved \in BOOLEAN, Create(saved) PROVE Unmade' /\ Secluded'
  <2>1. /\ event.item \in Items /\ item'[event.item] # None
        /\ \A k \in Items \ {event.item} :
             item'[k] = item[k] /\ job'[k] = job[k] /\ row'[k] = row[k] /\ outcomes'[k] = outcomes[k]
        /\ thread' = thread /\ drafted' = drafted
    BY <1>2 DEF Create
  <2>2. Unmade'
    BY <2>1
  <2>3. Secluded'
    BY <1>2 DEF Create
  <2> QED BY <2>2, <2>3
<1>3. ASSUME NEW ok \in BOOLEAN, AssembleInline(ok) PROVE Unmade' /\ Secluded'
  BY <1>3 DEF AssembleInline
<1>4. ASSUME NEW i \in Items, NEW asks \in BOOLEAN, NEW saved \in BOOLEAN, Draft(i, asks, saved)
      PROVE  Unmade' /\ Secluded'
  BY <1>4 DEF Draft, Fresh, UnderWay
<1>5. ASSUME NEW i \in Items, Take(i) PROVE Unmade' /\ Secluded'
  BY <1>5 DEF Take
<1>6. ASSUME NEW i \in Items, Requeue(i) \/ Inject(i) PROVE Unmade' /\ Secluded'
  BY <1>6 DEF Requeue, Inject
<1>7. ASSUME NEW i \in Items, NEW ok \in BOOLEAN, Finish(i, ok) PROVE Unmade' /\ Secluded'
  BY <1>7 DEF Finish
<1>8. ASSUME NEW i \in Items, NEW saved \in BOOLEAN, Edit(i, saved) PROVE Unmade' /\ Secluded'
  BY <1>8 DEF Edit, Journal, Known
<1> HIDE DEF ItemTypes, Rows, Threads, Reporting, Unmade, Secluded, States, None, Idle, NoJob, Moved, May,
             Allowed, On, operator, journal
<1>9. ASSUME NEW t \in Operators, NEW i \in Items, OperatorStep(t, i) PROVE Unmade' /\ Secluded'
  <2>1. Alone(t, i) /\ (thread'[t] = Idle \/ thread'[t].item = i)
    BY <1>9, OperatorsOnward
  <2>2. \/ Fresh(i) /\ drafted' = drafted \cup {i} /\ item'[i] = "executed"
        \/ drafted' = drafted /\ item[i] # None
    <3>1. thread[t] # Idle /\ thread[t].item = i => item[i] # None
      BY DEF Unmade, On
    <3> QED BY <1>9, <3>1 DEF OperatorStep, Consumes, Closes, Records, Counts, Sends, Reports, Observes,
              Approves, Acts, Enters, Observable, States, None, Idle
  <2>3. \/ Fresh(i) \/ item'[i] = item[i] \/ item[i] \notin {None, "preparing"} \/ i \in drafted
    <3>1. thread[t] # Idle /\ thread[t].item = i => item[i] \in Stage(thread[t].pc)
      BY DEF Stages
    <3> QED BY <1>9, <3>1, StageValues DEF OperatorStep, Consumes, Closes, Records, Counts, Sends, Reports,
              Observes, Approves, Acts, Enters, Observable, Kept, Idle, None
  <2>4. item'[i] # None
    <3>1. item[i] # None => item'[i] # None
      BY <1>9 DEF OperatorStep, Consumes, Closes, Records, Counts, Sends, Reports, Observes, Approves, Acts,
                  Enters, Kept, None
    <3> QED BY <2>2, <3>1 DEF None
  <2>5. Unmade'
    BY <2>1, <2>2, <2>4 DEF Alone, Unmade, On
  <2>6. Secluded'
    BY <2>1, <2>2, <2>3 DEF Alone, Fresh, UnderWay, Secluded, ItemTypes
  <2> QED BY <2>5, <2>6
<1>10. CASE TakeoverStep \/ UNCHANGED vars
  BY <1>10, TakeoverEffects DEF Unmade, Secluded, On
<1>11. CASE Restart
  BY <1>11 DEF Restart, Unmade, Secluded, On, ItemTypes, Rows, States, None, journal
<1> QED BY <1>1, <1>2, <1>3, <1>4, <1>5, <1>6, <1>7, <1>8, <1>9, <1>10, <1>11, StepKinds DEF EventStep

-----------------------------------------------------------------------------
(* The invariant, and what follows from it.                                 *)

LEMMA LoopInit == Init => LoopInv
BY TypesInit DEF Init, LoopInv, ItemTypes, Unmade, Secluded, Stages, Closed, OneReport, Attended, Reporters,
                 Reporting, On, Idle, None, NoJob

LEMMA LoopStep == LoopInv /\ [Next]_vars => LoopInv'
<1> SUFFICES ASSUME LoopInv, [Next]_vars PROVE LoopInv'
  OBVIOUS
<1> USE DEF LoopInv
<1>1. ItemTypes' /\ AttemptsLeft'
  BY TypesStep
<1>2. Unmade' /\ Secluded'
  BY <1>1, SecludedStep
<1>3. Stages' /\ Closed' /\ OneReport' /\ Attended'
  BY <1>1, StagesStep, ClosedStep, OneReportStep, AttendedStep
<1> QED BY <1>1, <1>2, <1>3

LEMMA LoopCorrect == Spec => []LoopInv
BY LoopInit, LoopStep, PTL DEF Spec

(* An intervention whose outcome counts twice had two outcomes under way at once. *)
THEOREM LoopOutcomesExplained == Spec => []OutcomesExplained
<1>1. LoopInv => OutcomesExplained
  BY DEF LoopInv, OneReport, OutcomesExplained, ItemTypes
<1> QED BY <1>1, LoopCorrect, PTL

(* A delivered draft that nobody works on any more is closed, or its closing was cut short. *)
THEOREM LoopDeliveredIsClosed == Spec => []DeliveredIsClosed
<1>1. ASSUME LoopInv PROVE DeliveredIsClosed
  <2> SUFFICES ASSUME NEW i \in delivered \ cut,
                      \A t \in Operators : thread[t] = Idle \/ thread[t].item # i
               PROVE  ~Known(i) \/ item[i] = "outcome"
    BY DEF DeliveredIsClosed
  <2>1. i \in Items /\ (item[i] \in {"outcome", "gone"} \/ At(i, "consuming") \/ At(i, "closing") \/ ToReport(i))
    BY <1>1 DEF LoopInv, Attended, ItemTypes
  <2>2. ~At(i, "consuming") /\ ~At(i, "closing") /\ ~ToReport(i)
    BY DEF At, ToReport, Idle
  <2> QED BY <2>1, <2>2 DEF Known, States
<1> QED BY <1>1, LoopCorrect, PTL

-----------------------------------------------------------------------------
(* How often one counts.                                                    *)

(* An operator counts an intervention once: none reports one that counts already, so what *)
(* was counted and who still may never exceed the operators.                               *)
LEMMA BoundedStep ==
  ASSUME LoopInv, LoopInv', Bounded, [Next]_vars PROVE Bounded'
<1> USE LoopAssumption
<1>1. /\ \A i \in Items : IsFiniteSet(Reporters(i)) /\ IsFiniteSet(Reporters(i)')
      /\ outcomes \in [Items -> Nat]
  BY FS_Subset DEF Reporters, LoopInv, ItemTypes
<1>2. CASE UNCHANGED <<thread, outcomes>>
  BY <1>2 DEF Bounded, Reporters
<1>3. CASE Restart
  <2>1. \A i \in Items : Reporters(i)' = {} /\ outcomes'[i] = outcomes[i]
    BY <1>3 DEF Restart, Reporters, Reporting, Idle, journal
  <2>2. \A i \in Items : Cardinality(Reporters(i)) \in Nat /\ Cardinality(Operators) \in Nat
    BY <1>1, FS_CardinalityType
  <2> QED BY <1>1, <2>1, <2>2, FS_EmptySet DEF Bounded
<1>4. ASSUME NEW t \in Operators, NEW i \in Items, OperatorStep(t, i) PROVE Bounded'
  <2>1. ReportsMove(t, i)
    BY <1>4, OperatorsReport DEF LoopInv
  <2>2. ASSUME NEW k \in Items PROVE outcomes'[k] + Cardinality(Reporters(k)') <= Cardinality(Operators)
    <3>1. /\ Cardinality(Reporters(k)) \in Nat /\ Cardinality(Reporters(k)') \in Nat
          /\ Cardinality(Operators) \in Nat
          /\ outcomes[k] \in Nat /\ outcomes[k] + Cardinality(Reporters(k)) <= Cardinality(Operators)
      BY <1>1, FS_CardinalityType DEF Bounded
    <3>2. CASE Reporters(k)' \subseteq Reporters(k) /\ outcomes'[k] = outcomes[k]
      <4>1. Cardinality(Reporters(k)') <= Cardinality(Reporters(k))
        BY <1>1, <3>2, FS_Subset
      <4> QED BY <3>1, <3>2, <4>1
    <3>3. CASE /\ t \in Reporters(k) /\ Reporters(k)' \subseteq Reporters(k) \ {t}
               /\ outcomes'[k] = outcomes[k] + 1
      <4>1. /\ IsFiniteSet(Reporters(k) \ {t})
            /\ Cardinality(Reporters(k) \ {t}) = Cardinality(Reporters(k)) - 1
        BY <1>1, <3>3, FS_RemoveElement
      <4>2. Cardinality(Reporters(k)') <= Cardinality(Reporters(k) \ {t})
        BY <3>3, <4>1, FS_Subset
      <4> QED BY <3>1, <3>3, <4>1, <4>2
    <3>4. CASE outcomes'[k] = 0
      <4>1. Reporters(k)' \subseteq Operators
        BY DEF Reporters
      <4>2. Cardinality(Reporters(k)') <= Cardinality(Operators)
        BY <4>1, FS_Subset
      <4> QED BY <3>1, <3>4, <4>2
    <3> QED BY <2>1, <3>2, <3>3, <3>4 DEF ReportsMove
  <2> QED BY <2>2 DEF Bounded
<1> QED BY <1>2, <1>3, <1>4, StepKinds, EventEffects, TakeoverEffects DEF Background, LoopInv

LEMMA BoundedInit == Init => Bounded
<1> SUFFICES ASSUME Init PROVE Bounded
  OBVIOUS
<1>1. \A i \in Items : Reporters(i) = {} /\ outcomes[i] = 0
  BY DEF Init, Reporters, Reporting, Idle
<1>2. Cardinality(Operators) \in Nat
  BY LoopAssumption, FS_CardinalityType
<1>3. \A i \in Items : Cardinality(Reporters(i)) = 0
  BY <1>1, FS_EmptySet
<1> QED BY <1>1, <1>2, <1>3 DEF Bounded

-----------------------------------------------------------------------------
(* Takeovers.                                                               *)

(* Only takeovers, commands and restarts touch the policy. *)
LEMMA PolicyAside ==
  [Next]_vars => TakeoverStep \/ Restart \/ UNCHANGED operator
<1> SUFFICES ASSUME [Next]_vars PROVE TakeoverStep \/ Restart \/ UNCHANGED operator
  OBVIOUS
<1>1. ASSUME EventStep PROVE UNCHANGED operator
  BY <1>1 DEF EventStep, Judge, Create, AssembleInline, Draft, Take, Requeue, Inject, Finish, Edit
<1>2. ASSUME NEW t \in Operators,
             \/ Performed(t) \/ Consume(t) \/ Close(t)
             \/ \E i \in Items : Observe(t, i) \/ Approve(t, i)
             \/ \E ok \in BOOLEAN : \/ Record(t, ok) \/ Count(t, ok) \/ Send(t, ok)
                                    \/ JournalApproval(t, ok)
                                    \/ \E i \in Items : AgentActs(t, i, ok)
      PROVE  UNCHANGED operator
  BY <1>2 DEF Performed, Consume, Close, Observe, Approve, Record, Count, Send, JournalApproval, AgentActs
<1> QED BY <1>1, <1>2 DEF Next, EventStep, TakeoverStep, vars

(* What a takeover remembers is what the loop was, until something else touches the policy. *)
LEMMA TakeoverStepKeeps == TakeoverInv /\ [Next]_vars => TakeoverInv'
<1> SUFFICES ASSUME TakeoverInv, [Next]_vars PROVE TakeoverInv'
  OBVIOUS
<1> USE DEF TakeoverInv, None
<1>1. ASSUME NEW hooked \in BOOLEAN, Start(hooked) PROVE TakeoverInv'
  BY <1>1 DEF Start
<1>2. CASE Overrun
  BY <1>2 DEF Overrun
<1>3. ASSUME NEW hooked \in BOOLEAN, Release(hooked) \/ Status(hooked) PROVE TakeoverInv'
  BY <1>3 DEF Release, Status, Ends, Resumed
<1>4. ASSUME NEW e \in BOOLEAN, Command(e) PROVE TakeoverInv'
  BY <1>4 DEF Command
<1>5. CASE Restart
  BY <1>5 DEF Restart
<1>6. CASE UNCHANGED operator
  BY <1>6 DEF operator
<1> HIDE DEF TakeoverInv
<1> QED BY <1>1, <1>2, <1>3, <1>4, <1>5, <1>6, PolicyAside DEF TakeoverStep

LEMMA TakeoverCorrect == Spec => []TakeoverInv
<1>1. Init => TakeoverInv
  BY DEF Init, TakeoverInv, None
<1> QED BY <1>1, TakeoverStepKeeps, PTL DEF Spec

(* A takeover that ends leaves the loop as it found it. *)
THEOREM LoopRestoredAsFound == Spec => []RestoredAsFound
<1>1. TakeoverInv => RestoredAsFound
  BY DEF TakeoverInv, RestoredAsFound
<1> QED BY <1>1, TakeoverCorrect, PTL

-----------------------------------------------------------------------------
(* The variables keep their types, and no intervention counts more often than there are *)
(* operators.                                                                            *)
THEOREM LoopTypeCorrect == Spec => []TypeOK
<1>1. Spec => []Bounded
  <2>1. LoopInv /\ LoopInv' /\ Bounded /\ [Next]_vars => Bounded'
    BY BoundedStep
  <2> QED BY <2>1, BoundedInit, LoopCorrect, PTL DEF Spec
<1>2. ASSUME LoopInv, Bounded, TakeoverInv PROVE TypeOK
  <2>1. outcomes \in [Items -> 0 .. Cardinality(Operators)]
    <3>1. Cardinality(Operators) \in Nat
      BY LoopAssumption, FS_CardinalityType
    <3>2. ASSUME NEW i \in Items PROVE outcomes[i] \in 0 .. Cardinality(Operators)
      <4>1. Cardinality(Reporters(i)) \in Nat
        BY LoopAssumption, FS_Subset, FS_CardinalityType DEF Reporters
      <4>2. outcomes[i] \in Nat /\ outcomes[i] + Cardinality(Reporters(i)) <= Cardinality(Operators)
        BY <1>2 DEF Bounded, LoopInv, ItemTypes
      <4> QED BY <3>1, <4>1, <4>2
    <3> QED BY <1>2, <3>2 DEF LoopInv, ItemTypes
  <2>2. thread \in [Operators ->
       {Idle} \cup [pc : {"performing", "sending", "consuming", "closing", "recording", "counting"}, item : Items]
              \cup [pc : {"journaling"}, item : Items, sent : BOOLEAN]]
    BY <1>2 DEF LoopInv, ItemTypes, Threads, Reporting
  <2> QED BY <1>2, <2>1, <2>2 DEF TypeOK, LoopInv, ItemTypes, Rows, TakeoverInv
<1> QED BY <1>1, <1>2, LoopCorrect, TakeoverCorrect, PTL
=============================================================================
