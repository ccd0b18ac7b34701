----------------------------- MODULE Automations -----------------------------
(***************************************************************************)
(* Automations (connectors/automations.py): a trigger, cron or new mail,   *)
(* and an action.  Either the action runs at once (log, webhook), or it is *)
(* a provider write: then the firing asks the ledger for an approval and   *)
(* parks a run, which the operator executes.  The approval is consumed     *)
(* only behind the write gate, which is off unless it was switched on.     *)
(* One thread polls; console requests fire, pause, delete and execute.     *)
(* The engine's lock covers the bookkeeping of a firing, and the whole of  *)
(* a mail check once the mail is fetched.                                  *)
(*                                                                         *)
(* Mail is known by what IMAP SEARCH returns: its number in the mailbox.   *)
(* The engine compares these numbers as text when it trims what it saw.    *)
(***************************************************************************)
EXTENDS Integers, FiniteSets, Sequences
LOCAL INSTANCE Functions

CONSTANTS
  Autos,        \* automations
  Cron,         \* those with a cron trigger; the others watch mail
  Writes,       \* those whose action is a provider write
  Callers,      \* console requests
  Poller,       \* the poll thread
  Runs,         \* ids of parked runs and of their approvals
  Messages,     \* mail that may arrive and match
  FirstNumber,  \* mailbox number the first of them gets; older mail has 1 .. FirstNumber - 1
  FetchMax,     \* messages a fetch returns (10)
  MaxSeen,      \* MAX_SEEN_UIDS (200)
  MaxFirings,   \* bound on the firings of a message, past which mail is fetched no more
  MaxGrants,    \* bound on the approvals granted
  MaxStrikes,   \* bound on the times a cron automation falls due
  MaxCrashes    \* bound on restarts

ASSUME AutomationsAssumption ==
  /\ Cron \subseteq Autos /\ Writes \subseteq Autos
  /\ Poller \notin Callers /\ "none" \notin Runs
  /\ IsFiniteSet(Messages) /\ IsFiniteSet(Callers)
  /\ {FirstNumber, FetchMax, MaxSeen} \subseteq Nat \ {0}
  /\ {MaxFirings, MaxGrants, MaxStrikes, MaxCrashes} \subseteq Nat

Threads == Callers \cup {Poller}
Mail    == Autos \ Cron
NoMail  == "none"

VARIABLES
  auto,      \* automations.json, and the engine's copy of it
  log,       \* automations_runs.jsonl: parked runs and completions
  approval,  \* the ledger's records, by the run that asked
  gate,      \* write_approval_required()
  grants,    \* history: times an approval was granted
  lifted,    \* history: the gate was off at some time
  box,       \* the unread matching mail, oldest first
  first,     \* the mailbox number of the oldest of it
  came,      \* the messages that have arrived so far
  thread,    \* what each thread is in the middle of
  todo,      \* automations left of the poller's current tick
  check,     \* the mail check the poller is in
  calls,     \* history: provider calls made, by the approval consumed for them
  bare,      \* history: a call was made for which none was
  fired,     \* history: firings per automation and message
  ticks,     \* history: cron automations: times due, firings by the poller
  crashes    \* history: restarts, and mail checks they interrupted

engine  == <<auto, todo, check>>
mailbox == <<box, first, came>>
ledger  == <<approval, gate, grants, lifted>>
history == <<calls, bare, fired, ticks, crashes>>
vars    == <<auto, log, approval, gate, grants, lifted, box, first, came, thread, todo, check,
             calls, bare, fired, ticks, crashes>>

Idle    == [pc |-> "idle"]
NoRun   == [status |-> "none"]
NoAsk   == [state |-> "none"]
NoCheck == [auto |-> "none"]
Numbers == 1 .. FirstNumber + Cardinality(Messages)
Asks    == [state : {"PENDING", "APPROVED", "DENIED", "EXPIRED", "USED"}, auto : Writes]

TypeOK ==
  /\ auto \in [Autos -> [state : {"none", "on", "paused", "gone"}, due : BOOLEAN,
                         seen : SUBSET Numbers]]
  /\ log \in [Runs -> {NoRun} \cup [status : {"awaiting"}, auto : Writes]
                              \cup [status : {"complete"}, auto : Writes, parent : Runs]]
  /\ approval \in [Runs -> {NoAsk} \cup Asks]
  /\ \A i \in DOMAIN box : box[i] \in came
  /\ came \subseteq Messages /\ first \in Numbers
  /\ todo \subseteq Autos
  /\ check = NoCheck \/ (check.auto \in Mail /\ check.seen \subseteq Numbers)
  /\ {gate, lifted, bare} \subseteq BOOLEAN
  /\ \A a \in Autos : Cardinality(auto[a].seen) <= MaxSeen

Init ==
  /\ auto = [a \in Autos |-> [state |-> "none", due |-> FALSE, seen |-> {}]]
  /\ log = [r \in Runs |-> NoRun]
  /\ approval = [r \in Runs |-> NoAsk]
  /\ box = <<>> /\ first = FirstNumber /\ came = {}
  /\ thread = [t \in Threads |-> Idle]
  /\ todo = {} /\ check = NoCheck
  /\ gate \in BOOLEAN /\ lifted = ~gate
  /\ grants = [r \in Runs |-> 0]
  /\ calls = [r \in Runs |-> 0] /\ bare = FALSE
  /\ fired = [a \in Autos |-> [m \in Messages |-> 0]]
  /\ ticks = [a \in Autos |-> [due |-> 0, polled |-> 0]]
  /\ crashes = [all |-> 0, checks |-> 0]

-----------------------------------------------------------------------------
(* The operator's bookkeeping.                                              *)

On(a) == auto[a].state = "on"
Holding == check # NoCheck /\ check.held       \* the poller is inside the engine's lock
LockFree(t) == t = Poller \/ ~Holding
Await(t, step) == thread' = [thread EXCEPT ![t] = step]

Create(a) ==
  /\ LockFree("caller") /\ auto[a].state = "none"
  /\ auto' = [auto EXCEPT ![a].state = "on"]
  /\ UNCHANGED <<log, ledger, mailbox, thread, todo, check, history>>

\* set_enabled(): enabling computes the next cron time afresh.
SetEnabled(a, to) ==
  /\ LockFree("caller") /\ auto[a].state \in {"on", "paused"}
  /\ auto' = [auto EXCEPT ![a].state = to, ![a].due = @ /\ to = "paused"]
  /\ UNCHANGED <<log, ledger, mailbox, thread, todo, check, history>>

Delete(a) ==
  /\ LockFree("caller") /\ auto[a].state \in {"on", "paused"}
  /\ auto' = [auto EXCEPT ![a] = [state |-> "gone", due |-> FALSE, seen |-> {}]]
  /\ UNCHANGED <<log, ledger, mailbox, thread, todo, check, history>>

\* next_run_at passes.
FallDue(a) ==
  /\ a \in Cron /\ auto[a].state \in {"on", "paused"} /\ ~auto[a].due
  /\ ticks[a].due < MaxStrikes
  /\ auto' = [auto EXCEPT ![a].due = TRUE]
  /\ ticks' = [ticks EXCEPT ![a].due = @ + 1]
  /\ UNCHANGED <<log, ledger, mailbox, thread, todo, check, calls, bare, fired, crashes>>

-----------------------------------------------------------------------------
(* fire(): check, act, update the automation, record the run.               *)

FreeRuns == {r \in Runs : log[r] = NoRun /\ approval[r] = NoAsk /\
                          \A t \in Threads : thread[t] # Idle => thread[t].run # r}
Fresh(a, r) == IF a \in Writes THEN r \in FreeRuns ELSE r = "none"

Begin(t, a, r, m) ==
  /\ thread[t] = Idle /\ LockFree(t)
  /\ On(a) /\ Fresh(a, r)
  /\ Await(t, [pc |-> "acting", auto |-> a, run |-> r, mail |-> m])

Fire(c, a, r) ==
  /\ c \in Callers
  /\ Begin(c, a, r, NoMail)
  /\ UNCHANGED <<log, ledger, mailbox, todo, check, auto, history>>

\* _execute_action(): a write asks for its approval, anything else happens now.  It
\* may fail, which a record of the run says and nothing else.
Act(t) ==
  /\ thread[t].pc = "acting"
  /\ \E ok \in BOOLEAN :
       /\ Await(t, [thread[t] EXCEPT !.pc = IF ok THEN "acted" ELSE "failed"])
       /\ approval' = IF ok /\ thread[t].auto \in Writes
                      THEN [approval EXCEPT ![thread[t].run] =
                              [state |-> "PENDING", auto |-> thread[t].auto]]
                      ELSE approval
       /\ UNCHANGED <<gate, grants, lifted>>
  /\ fired' = IF thread[t].mail = NoMail THEN fired
              ELSE [fired EXCEPT ![thread[t].auto][thread[t].mail] = @ + 1]
  /\ UNCHANGED <<engine, log, mailbox, calls, bare, ticks, crashes>>

StillDue(a) == auto[a].due                     \* mutant: next run not computed
NextDue(a)  == FALSE

Update(t) ==
  /\ thread[t].pc \in {"acted", "failed"} /\ LockFree(t)
  /\ auto' = [auto EXCEPT ![thread[t].auto].due = NextDue(thread[t].auto)]
  /\ Await(t, IF thread[t].pc = "acted" /\ thread[t].auto \in Writes
              THEN [thread[t] EXCEPT !.pc = "parking"] ELSE Idle)
  /\ UNCHANGED <<log, ledger, mailbox, todo, check, history>>

Park(t) ==
  /\ thread[t].pc = "parking"
  /\ log' = [log EXCEPT ![thread[t].run] = [status |-> "awaiting", auto |-> thread[t].auto]]
  /\ Await(t, Idle)
  /\ UNCHANGED <<engine, ledger, mailbox, history>>

-----------------------------------------------------------------------------
(* execute_approved(): look at the log, consume the approval, call, record. *)

Executed(r) == \E x \in Runs : log[x].status = "complete" /\ log[x].parent = r

\* k is the approval the operator names, or "none".
Execute(c, r, k) ==
  /\ c \in Callers /\ thread[c] = Idle /\ LockFree(c)
  /\ log[r].status = "awaiting" /\ ~Executed(r)
  /\ auto[log[r].auto].state \in {"on", "paused"}
  /\ Await(c, [pc |-> "consuming", auto |-> log[r].auto, run |-> "none", of |-> r, with |-> k])
  /\ UNCHANGED <<engine, log, ledger, mailbox, history>>

SetGate(to) ==
  /\ gate' = to /\ gate # to
  /\ lifted' = (lifted \/ ~to)
  /\ UNCHANGED <<engine, log, approval, grants, mailbox, thread, history>>

Seen(k, a)       == k \in Runs /\ approval[k].state \in {"APPROVED", "USED"} /\ approval[k].auto = a
                                               \* mutant: a spent approval still opens
Consumable(k, a) == k \in Runs /\ approval[k].state = "APPROVED" /\ approval[k].auto = a

\* proxy_request(): behind the gate consume(), which takes the approval of any run of
\* the same automation for the action; without it the approval is not looked at.
Consume(c) ==
  LET k    == thread[c].with
      goes == [thread[c] EXCEPT !.pc = "calling", !.with = IF gate THEN k ELSE "none"]
  IN
  /\ thread[c].pc = "consuming"
  /\ IF gate /\ Consumable(k, thread[c].auto)
     THEN approval' = [approval EXCEPT ![k].state = "USED"]
     ELSE UNCHANGED approval
  /\ Await(c, IF gate => Consumable(k, thread[c].auto) THEN goes ELSE Idle)
  /\ UNCHANGED <<engine, log, gate, grants, lifted, mailbox, history>>

Success(answered) == answered

\* The provider call: no token or no connection, an answer, or an error after it
\* arrived.  The approval is spent whatever happens.
Call(c) ==
  LET k == thread[c].with IN
  /\ thread[c].pc = "calling"
  /\ \E arrived, answered \in BOOLEAN :
       /\ answered => arrived
       /\ calls' = IF arrived /\ k \in Runs THEN [calls EXCEPT ![k] = @ + 1] ELSE calls
       /\ bare' = (bare \/ (arrived /\ k \notin Runs))
       /\ Await(c, IF Success(answered) THEN [thread[c] EXCEPT !.pc = "completing"] ELSE Idle)
  /\ UNCHANGED <<engine, log, ledger, mailbox, fired, ticks, crashes>>

Complete(c, x) ==
  /\ thread[c].pc = "completing" /\ x \in FreeRuns
  /\ log' = [log EXCEPT ![x] =
               [status |-> "complete", auto |-> thread[c].auto, parent |-> thread[c].of]]
  /\ Await(c, Idle)
  /\ UNCHANGED <<engine, ledger, mailbox, history>>

\* The operator decides, or the approval's time runs out.  The UPDATE of a verdict asks
\* for no state: a decider of another console that read PENDING overwrites what is there
\* by now, a used approval as well.
Answer(r, s) ==
  /\ approval[r] # NoAsk
  /\ s = "EXPIRED" => approval[r].state = "PENDING"
  /\ s = "APPROVED" => SumFunction(grants) < MaxGrants
  /\ approval' = [approval EXCEPT ![r].state = s]
  /\ grants' = IF s = "APPROVED" THEN [grants EXCEPT ![r] = @ + 1] ELSE grants
  /\ UNCHANGED <<engine, log, gate, lifted, mailbox, thread, history>>

-----------------------------------------------------------------------------
(* The poll thread.                                                         *)

\* tick(): a snapshot of what is enabled and due; mail is always worth a look.
Tick ==
  /\ thread[Poller] = Idle /\ todo = {} /\ check = NoCheck
  /\ todo' = {a \in Autos : On(a) /\ (a \in Cron => auto[a].due)}
  /\ todo' # {}
  /\ UNCHANGED <<auto, log, ledger, mailbox, thread, check, history>>

\* A due automation fires unless it was paused or deleted since the snapshot.
PollCron(a, r) ==
  /\ thread[Poller] = Idle /\ check = NoCheck /\ a \in todo \cap Cron
  /\ todo' = todo \ {a}
  /\ \/ /\ Begin(Poller, a, r, NoMail)
        /\ ticks' = [ticks EXCEPT ![a].polled = @ + 1]
     \/ /\ ~On(a) /\ UNCHANGED <<thread, ticks>>
  /\ UNCHANGED <<auto, log, ledger, mailbox, check, calls, bare, fired, crashes>>

Later(x, y) == IF x >= y THEN x ELSE y

\* fetch_inbox(): the newest messages, newest first, with their numbers.
Fetched ==
  [i \in 1 .. Len(box) - Later(0, Len(box) - FetchMax) |->
     [number |-> first + Len(box) - i, mail |-> box[Len(box) + 1 - i]]]

\* Fetching takes no lock; it may fail, and then nothing else happens.
Fetch(a) ==
  /\ thread[Poller] = Idle /\ check = NoCheck /\ a \in todo \cap Mail
  /\ \A m \in Messages : fired[a][m] < MaxFirings
  /\ todo' = todo \ {a}
  /\ \/ check' = [auto |-> a, left |-> Fetched, seen |-> {}, held |-> FALSE]
     \/ UNCHANGED check
  /\ UNCHANGED <<auto, log, ledger, mailbox, thread, history>>

\* The lock is taken.  An automation deleted meanwhile has no check; one paused
\* meanwhile refuses its first firing, which ends the check.
Look ==
  /\ check # NoCheck /\ ~check.held
  /\ LET a == check.auto IN
     check' = IF auto[a].state = "gone" \/
                 (~On(a) /\ \E i \in DOMAIN check.left :
                              check.left[i].number \notin auto[a].seen)
              THEN NoCheck
              ELSE [check EXCEPT !.held = TRUE, !.seen = auto[a].seen]
  /\ UNCHANGED <<auto, log, ledger, mailbox, thread, todo, history>>

Unmarked(n) == check.seen                      \* mutant: the number is not noted
Marked(n)   == check.seen \cup {n}

\* One message: fired unless its number was seen.
Examine(r) ==
  /\ Holding /\ thread[Poller] = Idle /\ check.left # <<>>
  /\ LET n == Head(check.left).number IN
     \/ /\ n \in check.seen
        /\ check' = [check EXCEPT !.left = Tail(@)]
        /\ UNCHANGED thread
     \/ /\ n \notin check.seen
        /\ Begin(Poller, check.auto, r, Head(check.left).mail)
        /\ check' = [check EXCEPT !.left = Tail(@), !.seen = Marked(n)]
  /\ UNCHANGED <<auto, log, ledger, mailbox, todo, history>>

\* sorted() of numbers kept as text.
Text(n) == IF n < 10 THEN <<n>> ELSE <<n \div 10, n % 10>>
TextBefore(i, j) ==
  LET s == Text(i)  t == Text(j) IN
  \/ s[1] < t[1]
  \/ s[1] = t[1] /\ Len(s) < Len(t)
  \/ s[1] = t[1] /\ Len(s) = 2 /\ Len(t) = 2 /\ s[2] < t[2]

Untrimmed(S) == S                              \* mutant: the memory grows
Trimmed(S) == {n \in S : Cardinality({x \in S : TextBefore(n, x)}) < MaxSeen}

Save ==
  /\ Holding /\ thread[Poller] = Idle /\ check.left = <<>>
  /\ auto' = [auto EXCEPT ![check.auto].seen = Trimmed(check.seen)]
  /\ check' = NoCheck
  /\ UNCHANGED <<log, ledger, mailbox, thread, todo, history>>

-----------------------------------------------------------------------------
(* The mailbox and restarts.                                                *)

Arrive(m) ==
  /\ m \notin came
  /\ box' = Append(box, m) /\ came' = came \cup {m}
  /\ UNCHANGED <<first, engine, log, ledger, thread, history>>

\* A message is deleted or moved away: those after it take the next lower number.
Expunge(i) ==
  /\ i \in DOMAIN box
  /\ box' = SubSeq(box, 1, i - 1) \o SubSeq(box, i + 1, Len(box))
  /\ UNCHANGED <<first, came, engine, log, ledger, thread, history>>

ExpungeOld ==
  /\ first > 1
  /\ first' = first - 1
  /\ UNCHANGED <<box, came, engine, log, ledger, thread, history>>

Restart ==
  /\ crashes.all < MaxCrashes
  /\ thread' = [t \in Threads |-> Idle]
  /\ todo' = {} /\ check' = NoCheck
  /\ crashes' = [all |-> crashes.all + 1, checks |-> crashes.checks + (IF Holding THEN 1 ELSE 0)]
  /\ UNCHANGED <<auto, log, ledger, mailbox, calls, bare, fired, ticks>>

Next ==
  \/ \E a \in Autos : Create(a) \/ Delete(a) \/ FallDue(a) \/ Fetch(a)
  \/ \E a \in Autos, to \in {"on", "paused"} : SetEnabled(a, to)
  \/ \E a \in Autos, r \in Runs \cup {"none"} :
       PollCron(a, r) \/ \E c \in Callers : Fire(c, a, r)
  \/ \E t \in Threads : Act(t) \/ Update(t) \/ Park(t)
  \/ \E c \in Callers, r \in Runs, k \in Runs \cup {"none"} : Execute(c, r, k)
  \/ \E to \in BOOLEAN : SetGate(to)
  \/ \E c \in Callers : Consume(c) \/ Call(c) \/ \E x \in Runs : Complete(c, x)
  \/ \E r \in Runs, s \in {"APPROVED", "DENIED", "EXPIRED"} : Answer(r, s)
  \/ Tick \/ Look \/ Save
  \/ \E r \in Runs \cup {"none"} : Examine(r)
  \/ \E m \in Messages : Arrive(m)
  \/ \E i \in DOMAIN box : Expunge(i)
  \/ ExpungeOld
  \/ Restart

Spec == Init /\ [][Next]_vars

-----------------------------------------------------------------------------
\* Behind the gate "no approval, no execution", and one call per time an approval was
\* granted: whoever executes which run, and whatever stale deciders bring back, the
\* provider is not called more often on an approval than it was granted, counting what
\* is still open; and nothing is called on no approval unless the gate was off.
CallsAreApproved ==
  /\ \A k \in Runs : calls[k] + (IF approval[k].state = "APPROVED" THEN 1 ELSE 0) <= grants[k]
  /\ bare => lifted

\* A fetch has returned all the mail there was, and no number it is known by was trimmed.
WithinMemory ==
  /\ Cardinality(came) <= FetchMax
  /\ FirstNumber - first + Cardinality(came) <= MaxSeen

\* "Remembers seen UIDs so nothing double-fires": as long as the mail fits the memory, a
\* message fires again only after a restart cut a mail check short, or once for each
\* older message that was expunged.
RefiresAreExplained ==
  WithinMemory => \A a \in Mail, m \in Messages :
    fired[a][m] <= 1 + crashes.checks + (FirstNumber - first)

\* The poller fires a cron automation once for each time it falls due, and again
\* only after a restart.
CronFiresOnce == \A a \in Cron : ticks[a].polled <= ticks[a].due + crashes.all
=============================================================================
