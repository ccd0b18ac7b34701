----------------------------- MODULE StealthLoop -----------------------------
(***************************************************************************)
(* The stealth loop's interventions and the takeover that pauses it.       *)
(*                                                                         *)
(* An event that the evaluator lets through becomes an intervention        *)
(* (stealth/loop.py), whose context is prepared inline or by a background  *)
(* job (stealth/runtime.py); an agent's output becomes one with drafted    *)
(* actions, which an operator approves (connectors/stealth_service.py).    *)
(* Hosts inject what is ready and report outcomes.  Events are processed   *)
(* one at a time; nothing else is locked.  The journal (stealth/store.py)  *)
(* hears of an intervention when it is made, edited, approved and closed;  *)
(* a restart goes on from there, without the jobs.                         *)
(*                                                                         *)
(* A takeover (stealth/takeover.py) disables the policy and makes the live *)
(* executors (stealth/computer_live.py) refuse; it ends when released, or  *)
(* when a guard or the console looks at it after its time.                 *)
(***************************************************************************)
EXTENDS Naturals, FiniteSets

CONSTANTS
  Items,         \* interventions, each made from an event or from an agent's output
  Operators,     \* threads that approve drafts and report outcomes
  Workers,       \* number of the runtime's threads
  MaxAttempts,   \* max_attempts of a job
  MaxTakeovers,  \* bound on takeovers
  MaxCommands,   \* bound on /ghost pause and resume
  MaxCrashes     \* bound on restarts

ASSUME LoopAssumption ==
  /\ IsFiniteSet(Operators)
  /\ {Workers, MaxAttempts} \subseteq Nat \ {0}
  /\ {MaxTakeovers, MaxCommands, MaxCrashes} \subseteq Nat

VARIABLES
  enabled,     \* policy.enabled
  takeover,    \* _active: "none", "active", or "overdue" and not yet noticed
  wasEnabled,  \* _was_enabled
  event,       \* the intervention under way under the loop's lock, if any
  item,        \* state of each intervention in memory
  drafted,     \* those that hold drafted actions
  approval,    \* its provenance["approval"], in memory
  row,         \* the journal: its state and approval
  outcomes,    \* the journal: its rows in `outcomes`
  job,         \* its background job
  thread,      \* what each operator is in the middle of
  before,      \* history: the policy when the loop was last free of takeovers
  disturbed,   \* history: what else touched the policy since
  delivered,   \* history: drafts whose actions were sent
  crossed,     \* history: interventions with two outcomes under way at once
  cut,         \* history: interventions whose closing a restart or a failing write cut short
  takeovers, commands, crashes

operator == <<enabled, takeover, wasEnabled, before, disturbed, takeovers, commands>>
journal  == <<row, outcomes>>
vars     == <<operator, event, item, drafted, approval, journal, job, thread,
              delivered, crossed, cut, crashes>>

None   == "none"
Idle   == [pc |-> "idle"]
NoJob  == [pc |-> "none", attempts |-> 0]
States == {"queued", "preparing", "ready", "injected", "executed", "consumed", "outcome"}
Sent   == {None, "sent", "unsent"}

TypeOK ==
  /\ {enabled, wasEnabled, before, disturbed} \subseteq BOOLEAN
  /\ takeover \in {None, "active", "overdue"}
  /\ event \in {Idle} \cup [pc : {"prepare", "inline", "assembling"}, item : Items]
  /\ item \in [Items -> {None, "gone"} \cup States] /\ approval \in [Items -> Sent]
  /\ drafted \subseteq Items
  /\ row \in [Items -> [state : {None} \cup States, approval : Sent]]
  /\ outcomes \in [Items -> 0 .. Cardinality(Operators)]
  /\ job \in [Items -> [pc : {None, "queued", "running", "waiting", "done", "dead"},
                        attempts : 0 .. MaxAttempts]]
  /\ thread \in [Operators ->
       {Idle} \cup [pc : {"performing", "sending", "consuming", "closing", "recording", "counting"}, item : Items]
              \cup [pc : {"journaling"}, item : Items, sent : BOOLEAN]]
  /\ delivered \cup crossed \cup cut \subseteq Items

Init ==
  /\ enabled = TRUE /\ takeover = None /\ wasEnabled = TRUE
  /\ event = Idle
  /\ item = [i \in Items |-> None] /\ drafted = {} /\ approval = [i \in Items |-> None]
  /\ row = [i \in Items |-> [state |-> None, approval |-> None]]
  /\ outcomes = [i \in Items |-> 0] /\ job = [i \in Items |-> NoJob]
  /\ thread = [t \in Operators |-> Idle]
  /\ before = TRUE /\ disturbed = FALSE
  /\ delivered = {} /\ crossed = {} /\ cut = {}
  /\ takeovers = 0 /\ commands = 0 /\ crashes = 0

-----------------------------------------------------------------------------
(* The life of an intervention.                                             *)

\* _ALLOWED_TRANSITIONS, without expiry, which nothing asks for.
Allowed == { <<"queued", "preparing">>, <<"preparing", "ready">>, <<"ready", "injected">>,
             <<"ready", "executed">>, <<"injected", "consumed">>, <<"executed", "consumed">>,
             <<"consumed", "outcome">> }

Known(i)      == item[i] \in States
May(i, to)    == <<item[i], to>> \in Allowed
Moved(i, to)  == [item EXCEPT ![i] = to]
Early(i)      == [state |-> "ready", approval |-> approval[i]]   \* mutant: a state read early
Current(i)    == [state |-> item[i], approval |-> approval[i]]
Journal(i, saved) == row' = IF saved THEN [row EXCEPT ![i] = Current(i)] ELSE row

-----------------------------------------------------------------------------
(* Events: judged, then made into an intervention, under the loop's lock.   *)

UnderWay == IF event = Idle THEN {} ELSE {event.item}

Fresh(i) == item[i] = None /\ i \notin UnderWay

\* evaluate(): a disabled policy decides NONE.
Judge(i, how) ==
  /\ event = Idle /\ enabled /\ Fresh(i)
  /\ event' = [pc |-> how, item |-> i]
  /\ UNCHANGED <<operator, item, approval, journal, job, thread, delivered, crossed,
                 cut, drafted, crashes>>

\* PREPARE leaves the context to a job; INJECT and ACT assemble it before they go on.
Create(saved) ==
  /\ event.pc \in {"prepare", "inline"}
  /\ LET i == event.item IN
     /\ item' = Moved(i, IF event.pc = "prepare" THEN "queued" ELSE "preparing")
     /\ row' = IF saved THEN [row EXCEPT ![i].state = "queued"] ELSE row
     /\ IF event.pc = "prepare"
        THEN /\ job' = [job EXCEPT ![i].pc = "queued"]
             /\ event' = Idle
        ELSE /\ event' = [event EXCEPT !.pc = "assembling"]
             /\ UNCHANGED job
  /\ UNCHANGED <<operator, approval, outcomes, thread, delivered, crossed, cut, drafted,
                 crashes>>

AssembleInline(ok) ==
  /\ event.pc = "assembling"
  /\ item' = IF ok THEN Moved(event.item, "ready") ELSE item
  /\ event' = Idle
  /\ UNCHANGED <<operator, approval, journal, job, thread, delivered, crossed, cut,
                 drafted, crashes>>

\* handle_agent_output(): the draft is ready, or waits to be approved; the states it passes
\* through on the way, on one thread and before anybody has its id, are one step.
Draft(i, asks, saved) ==
  /\ Fresh(i) /\ drafted' = drafted \cup {i}
  /\ item' = Moved(i, IF asks THEN "queued" ELSE "ready")
  /\ row' = IF saved THEN [row EXCEPT ![i].state = "queued"] ELSE row
  /\ UNCHANGED <<operator, event, approval, outcomes, job, thread, delivered, crossed,
                 cut, crashes>>

-----------------------------------------------------------------------------
(* The background job of an intervention.                                   *)

Running == {i \in Items : job[i].pc = "running"}

\* A retry finds the intervention where the failed attempt left it, and raises.
Take(i) ==
  /\ job[i].pc = "queued" /\ Cardinality(Running) < Workers
  /\ job' = [job EXCEPT ![i] = [pc |-> "running", attempts |-> @.attempts + 1]]
  /\ item' = IF May(i, "preparing") THEN Moved(i, "preparing") ELSE item
  /\ UNCHANGED <<operator, event, approval, journal, thread, delivered, crossed, cut,
                 drafted, crashes>>

Patient(i)   == job[i].attempts > MaxAttempts         \* mutant: off by one
Exhausted(i) == job[i].attempts >= MaxAttempts

\* Only the first attempt is between PREPARING and READY.
Finish(i, ok) ==
  /\ job[i].pc = "running" /\ (ok => item[i] = "preparing" /\ job[i].attempts = 1)
  /\ item' = IF ok THEN Moved(i, "ready") ELSE item
  /\ job' = [job EXCEPT ![i].pc = IF ok THEN "done" ELSE IF Exhausted(i) THEN "dead"
                                  ELSE "waiting"]
  /\ UNCHANGED <<operator, event, approval, journal, thread, delivered, crossed, cut,
                 drafted, crashes>>

\* The timer after a backoff.
Requeue(i) ==
  /\ job[i].pc = "waiting"
  /\ job' = [job EXCEPT ![i].pc = "queued"]
  /\ UNCHANGED <<operator, event, item, approval, journal, thread, delivered, crossed,
                 cut, drafted, crashes>>

-----------------------------------------------------------------------------
(* Hosts and operators.                                                     *)

Inject(i) ==
  /\ May(i, "injected")
  /\ item' = Moved(i, "injected")
  /\ UNCHANGED <<operator, event, approval, journal, job, thread, delivered, crossed,
                 cut, drafted, crashes>>

Await(t, step)   == thread' = [thread EXCEPT ![t] = step]
Step(t, pc)      == Await(t, [pc |-> pc, item |-> thread[t].item])
Return(t)        == Await(t, Idle)
Closing(i)       == {t \in Operators : thread[t].pc \in {"performing", "consuming", "closing", "recording"}
                                       /\ thread[t].item = i}
Observable(i)    == item[i] \in {"ready", "injected", "executed"}

\* observe_outcome() begins: an intervention that is not there yet, or past it, raises.
Entered(i) ==
  /\ item' = IF item[i] = "ready" THEN Moved(i, "executed") ELSE item
  /\ crossed' = IF Closing(i) # {} THEN crossed \cup {i} ELSE crossed

Observe(t, i) ==
  /\ thread[t] = Idle /\ Observable(i)
  /\ Entered(i)
  /\ Await(t, [pc |-> "consuming", item |-> i])
  /\ UNCHANGED <<operator, event, approval, journal, job, delivered, cut, drafted, crashes>>

\* handle_agent_output() when the policy lets the agent act: the executor runs, and the
\* intervention is closed at once.
AgentActs(t, i, saved) ==
  /\ thread[t] = Idle /\ Fresh(i) /\ drafted' = drafted \cup {i}
  /\ item' = Moved(i, "executed")
  /\ row' = IF saved THEN [row EXCEPT ![i].state = "queued"] ELSE row
  /\ Await(t, [pc |-> "performing", item |-> i])
  /\ UNCHANGED <<operator, event, approval, outcomes, job, delivered, crossed, cut,
                 crashes>>

Performed(t) ==
  LET i == thread[t].item IN
  /\ thread[t].pc = "performing"
  /\ IF May(i, "consumed") THEN item' = Moved(i, "consumed") /\ Step(t, "closing")
     ELSE Return(t) /\ UNCHANGED item
  /\ UNCHANGED <<operator, event, approval, journal, job, delivered, crossed, cut,
                 drafted, crashes>>

Consume(t) ==
  LET i == thread[t].item IN
  /\ thread[t].pc = "consuming"
  /\ IF item[i] = "consumed" \/ May(i, "consumed")
     THEN item' = Moved(i, "consumed") /\ Step(t, "closing")
     ELSE Return(t) /\ UNCHANGED item
  /\ UNCHANGED <<operator, event, approval, journal, job, delivered, crossed, cut,
                 drafted, crashes>>

\* record_outcome() takes one that is closed already, too.
Close(t) ==
  /\ thread[t].pc = "closing"
  /\ item' = Moved(thread[t].item, "outcome")
  /\ Step(t, "recording")
  /\ UNCHANGED <<operator, event, approval, journal, job, delivered, crossed, cut,
                 drafted, crashes>>

\* The journal, in two commits; a failing one skips the rest.
Record(t, saved) ==
  /\ thread[t].pc = "recording"
  /\ Journal(thread[t].item, saved)
  /\ IF saved THEN Step(t, "counting") /\ UNCHANGED cut
     ELSE Return(t) /\ cut' = cut \cup {thread[t].item}
  /\ UNCHANGED <<operator, event, item, approval, outcomes, job, delivered, crossed,
                 drafted, crashes>>

Count(t, saved) ==
  LET i == thread[t].item IN
  /\ thread[t].pc = "counting"
  /\ IF saved THEN /\ outcomes' = [outcomes EXCEPT ![i] = @ + 1]
                   /\ row' = [row EXCEPT ![i].state = "outcome"]
     ELSE UNCHANGED journal
  /\ Return(t)
  /\ UNCHANGED <<operator, event, item, approval, job, delivered, crossed, cut, drafted, crashes>>

-----------------------------------------------------------------------------
(* approve_draft().                                                         *)

Unwalked(i) == item                                   \* mutant: the draft is left queued
Walked(i) == IF item[i] \in {"queued", "preparing"} THEN Moved(i, "ready") ELSE item

Approve(t, i) ==
  /\ thread[t] = Idle /\ i \in drafted /\ Known(i)
  /\ item' = Walked(i)
  /\ Await(t, [pc |-> "sending", item |-> i])
  /\ UNCHANGED <<operator, event, approval, journal, job, delivered, crossed, cut,
                 drafted, crashes>>

\* The engine delivers every action or raises.
Send(t, ok) ==
  LET i == thread[t].item IN
  /\ thread[t].pc = "sending"
  /\ delivered' = IF ok THEN delivered \cup {i} ELSE delivered
  /\ approval' = [approval EXCEPT ![i] = IF ok THEN "sent" ELSE "unsent"]
  /\ Await(t, [pc |-> "journaling", item |-> i, sent |-> ok])
  /\ UNCHANGED <<operator, event, item, journal, job, crossed, cut, drafted, crashes>>

\* What was sent is reported as a success; that it cannot be is not an error.
JournalApproval(t, saved) ==
  LET i == thread[t].item IN
  /\ thread[t].pc = "journaling"
  /\ Journal(i, saved)
  /\ IF thread[t].sent /\ Observable(i)
     THEN Entered(i) /\ Step(t, "consuming")
     ELSE Return(t) /\ UNCHANGED <<item, crossed>>
  /\ UNCHANGED <<operator, event, approval, outcomes, job, delivered, cut, drafted, crashes>>

\* The operator edits the text of a draft, whatever became of it.
Edit(i, saved) ==
  /\ i \in drafted /\ Known(i)
  /\ Journal(i, saved)
  /\ UNCHANGED <<operator, event, item, approval, outcomes, job, thread, delivered,
                 crossed, cut, drafted, crashes>>

-----------------------------------------------------------------------------
(* Takeovers.                                                               *)

AlwaysResumed == TRUE                                 \* mutant: the prior state is forgotten
Resumed == IF wasEnabled THEN TRUE ELSE enabled

\* The takeover is over, also where the resume hook fails, which is swallowed.
Ends(hooked) ==
  /\ takeover' = None
  /\ enabled' = IF hooked THEN Resumed ELSE enabled
  /\ disturbed' = (disturbed \/ (wasEnabled /\ ~hooked))

\* start(): an overdue takeover that nobody looked at is replaced as it stands.  A hook
\* that fails pauses nothing, and the loop counts as enabled.
Start(hooked) ==
  /\ takeover # "active" /\ takeovers < MaxTakeovers
  /\ takeovers' = takeovers + 1
  /\ takeover' = "active"
  /\ wasEnabled' = (hooked => enabled)
  /\ enabled' = (enabled /\ ~hooked)
  /\ before' = IF takeover = None THEN enabled ELSE before
  /\ disturbed' = (~hooked \/ takeover = "overdue")
  /\ UNCHANGED <<event, item, approval, journal, job, thread, delivered, crossed, cut,
                 commands, drafted, crashes>>

Overrun ==
  /\ takeover = "active" /\ takeover' = "overdue"
  /\ UNCHANGED <<enabled, wasEnabled, before, disturbed, takeovers, commands,
                 event, item, approval, journal, job, thread, delivered, crossed, cut, drafted, crashes>>

Release(hooked) ==
  /\ takeover # None
  /\ Ends(hooked)
  /\ UNCHANGED <<wasEnabled, before, takeovers, commands, event, item,
                 approval, journal, job, thread, delivered, crossed, cut, drafted, crashes>>

\* status() by the console, or by an executor's guard.
Status(hooked) ==
  /\ takeover = "overdue"
  /\ Ends(hooked)
  /\ UNCHANGED <<wasEnabled, before, takeovers, commands, event, item,
                 approval, journal, job, thread, delivered, crossed, cut, drafted, crashes>>

\* /ghost pause and /ghost resume.
Command(e) ==
  /\ commands < MaxCommands /\ commands' = commands + 1
  /\ enabled' = e
  /\ before' = IF takeover = None THEN e ELSE before
  /\ disturbed' = (takeover # None)
  /\ UNCHANGED <<takeover, wasEnabled, takeovers, event, item, approval, journal,
                 job, thread, delivered, crossed, cut, drafted, crashes>>

-----------------------------------------------------------------------------
\* restore_from_store(): what is not closed in the journal, as it stands there.
Restart ==
  /\ crashes < MaxCrashes /\ crashes' = crashes + 1
  /\ item' = [i \in Items |-> IF row[i].state \in States \ {"outcome"} THEN row[i].state
                              ELSE IF item[i] = None THEN None ELSE "gone"]
  /\ approval' = [i \in Items |-> row[i].approval]
  /\ job' = [i \in Items |-> NoJob]
  /\ thread' = [t \in Operators |-> Idle]
  /\ event' = Idle
  /\ cut' = cut \cup {i \in Items : \E t \in Operators : thread[t] # Idle /\ thread[t].item = i}
  /\ enabled' = TRUE /\ takeover' = None /\ wasEnabled' = TRUE
  /\ before' = TRUE /\ disturbed' = FALSE
  /\ UNCHANGED <<journal, delivered, crossed, drafted, takeovers, commands>>

Next ==
  \/ \E i \in Items : Judge(i, "prepare") \/ Judge(i, "inline")
  \/ \E ok \in BOOLEAN : Create(ok) \/ AssembleInline(ok)
  \/ \E i \in Items, asks, saved \in BOOLEAN : Draft(i, asks, saved)
  \/ \E i \in Items : Take(i) \/ Requeue(i) \/ Inject(i)
                      \/ \E ok \in BOOLEAN : Finish(i, ok) \/ Edit(i, ok)
  \/ \E t \in Operators : \/ Performed(t) \/ Consume(t) \/ Close(t)
                          \/ \E i \in Items : Observe(t, i) \/ Approve(t, i)
                          \/ \E ok \in BOOLEAN : \/ Record(t, ok) \/ Count(t, ok) \/ Send(t, ok)
                                                \/ JournalApproval(t, ok)
                                                \/ \E i \in Items : AgentActs(t, i, ok)
  \/ \E hooked \in BOOLEAN : Start(hooked) \/ Release(hooked) \/ Status(hooked)
  \/ Overrun
  \/ \E e \in BOOLEAN : Command(e)
  \/ Restart

Spec == Init /\ [][Next]_vars

-----------------------------------------------------------------------------
\* One intervention counts once, across restarts and failing writes, unless two outcomes
\* were reported at the same moment.
OutcomesExplained == \A i \in Items : outcomes[i] > 1 => i \in crossed

\* A draft that was delivered ends as closed once nobody works on it, although its success
\* is reported after the delivery, beside other reports, and a refusal is swallowed; only
\* a restart in between, or one after a failing write, reopens it.
DeliveredIsClosed ==
  \A i \in delivered \ cut :
    (\A t \in Operators : thread[t] = Idle \/ thread[t].item # i)
      => ~Known(i) \/ item[i] = "outcome"

\* "Restoring its prior enabled state": after a takeover the loop is as it was before,
\* unless it was paused or resumed meanwhile, a hook failed, or an overdue takeover that
\* nobody had looked at was replaced.
RestoredAsFound == takeover = None /\ ~disturbed => enabled = before
=============================================================================
