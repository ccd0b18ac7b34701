-------------------------- MODULE AutomationsProofs --------------------------
(***************************************************************************)
(* What the automations promise, for any automations, console requests,    *)
(* runs, mail and restarts: the variables keep their types, behind the     *)
(* write gate the provider is called once at most for each time an         *)
(* approval was granted, the poller fires a cron automation once for each  *)
(* time it falls due, and, as long as the numbers fit the memory, a        *)
(* message that fires again has a reason.                                  *)
(***************************************************************************)
EXTENDS Automations, FiniteSetTheorems, FunctionTheorems, SequenceTheorems, TLAPS

-----------------------------------------------------------------------------
(* Types.                                                                   *)

Mails     == Messages \cup {NoMail}
Firing    == [pc : {"acting", "acted", "failed"}, auto : Autos, run : Runs \cup {"none"},
              mail : Mails]
Parking   == [pc : {"parking"}, auto : Writes, run : Runs, mail : Mails]
Executing == [pc : {"consuming", "calling", "completing"}, auto : Writes,
              run : {"none"}, of : Runs, with : Runs \cup {"none"}]
Entries   == [number : Numbers, mail : Messages]
Checks    == [auto : Mail, left : Seq(Entries), seen : SUBSET Numbers, held : BOOLEAN]
Logged    == [status : {"awaiting"}, auto : Writes]
             \cup [status : {"complete"}, auto : Writes, parent : Runs]

BookTypes ==
  /\ auto \in [Autos -> [state : {"none", "on", "paused", "gone"}, due : BOOLEAN,
                         seen : SUBSET Numbers]]
  /\ log \in [Runs -> {NoRun} \cup Logged]
  /\ approval \in [Runs -> {NoAsk} \cup Asks]
  /\ todo \subseteq Autos
  /\ check \in {NoCheck} \cup Checks

MailTypes ==
  /\ came \subseteq Messages /\ box \in Seq(came) /\ Len(box) <= Cardinality(came)
  /\ first \in 1 .. FirstNumber

\* A write is fired under the id of the run it will be parked as.
ThreadTypes ==
  /\ thread \in [Threads -> {Idle} \cup Firing \cup Parking \cup Executing]
  /\ \A t \in Threads : thread[t].pc \in {"acting", "acted", "failed"} /\ thread[t].auto \in Writes
                          => thread[t].run \in Runs

HistoryTypes ==
  /\ calls \in [Runs -> Nat] /\ grants \in [Runs -> Nat]
  /\ gate \in BOOLEAN /\ lifted \in BOOLEAN /\ bare \in BOOLEAN
  /\ fired \in [Autos -> [Messages -> Nat]]
  /\ ticks \in [Autos -> [due : Nat, polled : Nat]]
  /\ crashes \in [all : Nat, checks : Nat]

Types == BookTypes /\ MailTypes /\ ThreadTypes /\ HistoryTypes

\* What is kept of the numbers seen fits.
SeenFits == \A a \in Autos : Cardinality(auto[a].seen) <= MaxSeen

-----------------------------------------------------------------------------
(* Approvals.                                                               *)

\* The thread is about to ask for an approval.
Asking(t) == thread[t].pc = "acting" /\ thread[t].auto \in Writes

One(b) == IF b THEN 1 ELSE 0

\* Who consumed the approval and is about to call.
Holders(k) == {c \in Callers : thread[c].pc = "calling" /\ thread[c].with = k}

\* The calls made on an approval, those about to be made, and the one it is still open for
\* were granted.
Covered ==
  \A k \in Runs :
    calls[k] + Cardinality(Holders(k)) + One(approval[k].state = "APPROVED") <= grants[k]

\* Who is about to call on no approval found the gate off.
Unguarded ==
  ~gate \/ bare \/ (\E c \in Callers : thread[c].pc = "calling" /\ thread[c].with = "none") => lifted

Backed == Covered /\ Unguarded

-----------------------------------------------------------------------------
(* Cron.                                                                    *)

\* The poller is firing the automation: the next run is not computed yet.
Polling(a) == thread[Poller].pc \in {"acting", "acted", "failed"} /\ thread[Poller].auto = a

\* What the poller is going to fire, or would at its next tick, it owes.
CronOwed ==
  \A a \in Cron :
    /\ ticks[a].polled <= ticks[a].due + crashes.all
    /\ a \in todo \/ (auto[a].due /\ ~Polling(a)) => ticks[a].polled < ticks[a].due + crashes.all

-----------------------------------------------------------------------------
(* Mail.                                                                    *)

\* The firings of a message there may be, and those there were, the one that has begun
\* included.
Allowed        == 1 + crashes.checks + (FirstNumber - first)
InFiring(a, m) ==
  thread[Poller].pc = "acting" /\ thread[Poller].auto = a /\ thread[Poller].mail = m
Firings(a, m)  == fired[a][m] + One(InFiring(a, m))

\* The message would fire by what is known of numbers, now or when older mail is deleted:
\* its number or a lower one is not known, or it is still to come.
Unknown(m, known) ==
  m \notin came \/ \E j \in DOMAIN box : box[j] = m /\ \E n \in first .. first + j - 1 : n \notin known

\* What the check under way knows, has in hand, and is about to fire.
Known                  == IF check.held THEN check.seen ELSE auto[check.auto].seen
InHand(left)           == {left[i].number : i \in DOMAIN left}
Coming(m, left, known) == \E i \in DOMAIN left : left[i].mail = m /\ left[i].number \notin known

\* No message is in the mailbox twice, or twice in what a check has in hand.
OnceInBox   == \A i, j \in DOMAIN box : box[i] = box[j] => i = j
OnceInCheck ==
  check # NoCheck =>
    \A i, j \in DOMAIN check.left : check.left[i].mail = check.left[j].mail => i = j

\* What is known or in hand are numbers unread mail has had.
Top      == FirstNumber + Cardinality(came) - 1
Numbered ==
  /\ \A a \in Mail : auto[a].seen \subseteq first .. Top
  /\ check # NoCheck => Known \subseteq first .. Top /\ InHand(check.left) \subseteq first .. Top

\* A message that would fire again has an explanation left: by what is saved, unless a
\* check is about to overwrite it; by what the check under way knows; and in any case.
SavedKnows ==
  \A a \in Mail, m \in Messages : auto[a].state # "gone" /\ ~(Holding /\ check.auto = a) =>
    Firings(a, m) + One(Unknown(m, auto[a].seen)) <= Allowed
CheckKnows ==
  check # NoCheck /\ (check.held \/ auto[check.auto].state # "gone") => \A m \in Messages :
    Firings(check.auto, m) + One(Coming(m, check.left, Known))
      + One(Unknown(m, Known \cup InHand(check.left))) <= Allowed
Explained == \A a \in Mail, m \in Messages : Firings(a, m) <= Allowed

\* Console requests fire without mail.
CallersAside == \A c \in Callers : thread[c].pc = "acting" => thread[c].mail = NoMail

MailInv == OnceInBox /\ OnceInCheck /\ Numbered /\ SavedKnows /\ CheckKnows /\ Explained

-----------------------------------------------------------------------------
(* What the steps do to the threads.                                        *)

Steps == {Idle} \cup Firing \cup Parking \cup Executing

\* One thread moves on, and it is typed where it comes to.
Moves(t, step) ==
  /\ thread' \in [Threads -> Steps] /\ thread'[t] = step
  /\ \A u \in Threads \ {t} : thread'[u] = thread[u]

LEMMA StepInto ==
  ASSUME ThreadTypes, NEW t \in Threads, NEW step \in Steps, Await(t, step)
  PROVE  Moves(t, step)
BY DEF ThreadTypes, Await, Moves, Steps

\* The fields of a step tell which kind it is of.
LEMMA StepFields ==
  ASSUME ThreadTypes, NEW t \in Threads
  PROVE  /\ thread[t] \in Steps
         /\ thread[t].pc \in {"acting", "acted", "failed"} => thread[t] \in Firing
         /\ thread[t].pc = "parking" => thread[t] \in Parking
         /\ thread[t].pc \in {"consuming", "calling", "completing"} => thread[t] \in Executing
         /\ thread[t].pc = "idle" => thread[t] = Idle
BY DEF ThreadTypes, Steps, Idle, Firing, Parking, Executing

\* A firing begins: what it is fired as is new, if it is a write.
LEMMA FiringBegins ==
  ASSUME ThreadTypes, NEW t \in Threads, NEW a \in Autos, NEW r \in Runs \cup {"none"},
         NEW m \in Mails, Begin(t, a, r, m)
  PROVE  /\ Moves(t, [pc |-> "acting", auto |-> a, run |-> r, mail |-> m]) /\ thread[t] = Idle
         /\ a \in Writes => r \in FreeRuns
         /\ On(a)
<1>1. [pc |-> "acting", auto |-> a, run |-> r, mail |-> m] \in Steps
  BY DEF Steps, Firing
<1> QED BY <1>1, StepInto DEF Begin, Fresh

\* Who acts has acted, or has failed to, and an approval may have been asked for.
LEMMA ActionEnds ==
  ASSUME ThreadTypes, NEW t \in Threads, Act(t)
  PROVE  /\ thread[t] \in Firing /\ thread[t].pc = "acting"
         /\ \E pc \in {"acted", "failed"} : Moves(t, [thread[t] EXCEPT !.pc = pc])
         /\ \/ approval' = approval
            \/ /\ Asking(t)
               /\ approval' = [approval EXCEPT ![thread[t].run] = [state |-> "PENDING", auto |-> thread[t].auto]]
         /\ UNCHANGED <<engine, log, mailbox, calls, bare, gate, grants, lifted, ticks, crashes>>
<1>1. thread[t].pc = "acting" /\ thread[t] \in Firing
  BY StepFields DEF Act
<1>2. \A pc \in {"acted", "failed"} : [thread[t] EXCEPT !.pc = pc] \in Steps
  BY <1>1 DEF Firing, Steps
<1>3. \E pc \in {"acted", "failed"} : Moves(t, [thread[t] EXCEPT !.pc = pc])
  <2>1. \E pc \in {"acted", "failed"} : Await(t, [thread[t] EXCEPT !.pc = pc])
    BY DEF Act
  <2> QED BY <1>2, <2>1, StepInto
<1> QED BY <1>1, <1>3 DEF Act, Asking

\* A firing is over, or its run is to be parked.
LEMMA FiringEnds ==
  ASSUME ThreadTypes, NEW t \in Threads, Update(t)
  PROVE  /\ thread[t] \in Firing /\ thread[t].pc \in {"acted", "failed"}
         /\ \/ Moves(t, Idle)
            \/ Moves(t, [thread[t] EXCEPT !.pc = "parking"]) /\ [thread[t] EXCEPT !.pc = "parking"] \in Parking
<1>1. thread[t].pc \in {"acted", "failed"} /\ thread[t] \in Firing
  BY StepFields DEF Update
<1>2. CASE thread[t].pc = "acted" /\ thread[t].auto \in Writes
  <2>1. thread[t].run \in Runs
    BY <1>2 DEF ThreadTypes
  <2>2. [thread[t] EXCEPT !.pc = "parking"] \in Parking
    BY <1>1, <1>2, <2>1 DEF Firing, Parking
  <2>3. Await(t, [thread[t] EXCEPT !.pc = "parking"])
    BY <1>2 DEF Update
  <2> QED BY <1>1, <2>2, <2>3, StepInto DEF Steps
<1>3. CASE ~(thread[t].pc = "acted" /\ thread[t].auto \in Writes)
  <2>1. Await(t, Idle)
    BY <1>3 DEF Update
  <2> QED BY <1>1, <2>1, StepInto DEF Steps
<1> QED BY <1>2, <1>3

\* An execution goes one step further, or ends.
LEMMA ExecutionGoes ==
  ASSUME ThreadTypes, NEW c \in Callers, Consume(c) \/ Call(c) \/ \E x \in Runs : Complete(c, x)
  PROVE  /\ c \in Threads /\ thread[c] \in Executing
         /\ \/ Moves(c, Idle)
            \/ /\ Consume(c)
               /\ \E k \in {thread[c].with, "none"} :
                    Moves(c, [thread[c] EXCEPT !.pc = "calling", !.with = k])
            \/ Call(c) /\ Moves(c, [thread[c] EXCEPT !.pc = "completing"])
<1>1. c \in Threads /\ thread[c] \in Executing
  BY StepFields DEF Threads, Consume, Call, Complete
<1>2. /\ Idle \in Steps /\ [thread[c] EXCEPT !.pc = "completing"] \in Steps
      /\ \A k \in {thread[c].with, "none"} :
           [thread[c] EXCEPT !.pc = "calling", !.with = k] \in Steps
  BY <1>1 DEF Steps, Executing
<1>3. CASE Await(c, Idle)
  BY <1>1, <1>2, <1>3, StepInto
<1>4. ASSUME Consume(c), NEW k \in {thread[c].with, "none"},
             Await(c, [thread[c] EXCEPT !.pc = "calling", !.with = k])
      PROVE  Moves(c, [thread[c] EXCEPT !.pc = "calling", !.with = k])
  BY <1>1, <1>2, <1>4, StepInto
<1>5. CASE Call(c) /\ Await(c, [thread[c] EXCEPT !.pc = "completing"])
  BY <1>1, <1>2, <1>5, StepInto
<1>6. CASE Consume(c)
  BY <1>1, <1>3, <1>4, <1>6 DEF Consume
<1> QED BY <1>1, <1>3, <1>5, <1>6 DEF Call, Complete

LEMMA ExecutionBegins ==
  ASSUME ThreadTypes, BookTypes, NEW c \in Callers, NEW r \in Runs, NEW k \in Runs \cup {"none"},
         Execute(c, r, k)
  PROVE  /\ Moves(c, [pc |-> "consuming", auto |-> log[r].auto, run |-> "none", of |-> r, with |-> k])
         /\ c \in Threads /\ thread[c] = Idle /\ log[r].auto \in Writes
<1>1. log[r].auto \in Writes
  BY DEF Execute, BookTypes, Logged, NoRun
<1>2. [pc |-> "consuming", auto |-> log[r].auto, run |-> "none", of |-> r, with |-> k] \in Steps
  BY <1>1 DEF Steps, Executing
<1> QED BY <1>1, <1>2, StepInto DEF Execute, Threads

-----------------------------------------------------------------------------
(* Types.                                                                   *)

LEMMA MovesTyped ==
  ASSUME ThreadTypes, NEW t \in Threads, NEW step, Moves(t, step),
         step.pc \in {"acting", "acted", "failed"} /\ step.auto \in Writes => step.run \in Runs
  PROVE  ThreadTypes'
BY DEF ThreadTypes, Moves, Steps

(* Every step keeps the threads' types. *)
LEMMA ThreadsStep ==
  ASSUME ThreadTypes, BookTypes, MailTypes, [Next]_vars PROVE ThreadTypes'
<1>1. ASSUME UNCHANGED thread PROVE ThreadTypes'
  BY <1>1 DEF ThreadTypes
<1>2. ASSUME NEW t \in Threads, NEW a \in Autos, NEW r \in Runs \cup {"none"}, NEW m \in Mails,
             Begin(t, a, r, m)
      PROVE  ThreadTypes'
  <2> DEFINE step == [pc |-> "acting", auto |-> a, run |-> r, mail |-> m]
  <2>1. step.auto = a /\ step.run = r
    OBVIOUS
  <2>2. Moves(t, step) /\ (a \in Writes => r \in Runs)
    BY <1>2, FiringBegins DEF FreeRuns
  <2> HIDE DEF step
  <2> QED BY <2>1, <2>2, MovesTyped
<1>3. ASSUME NEW t \in Threads, Act(t) PROVE ThreadTypes'
  <2>1. PICK pc \in {"acted", "failed"} : Moves(t, [thread[t] EXCEPT !.pc = pc])
    BY <1>3, ActionEnds
  <2>2. thread[t] \in Firing /\ thread[t].pc = "acting"
    BY <1>3, ActionEnds
  <2>3. thread[t].auto \in Writes => thread[t].run \in Runs
    BY <2>2 DEF ThreadTypes
  <2>4. [thread[t] EXCEPT !.pc = pc].auto = thread[t].auto /\ [thread[t] EXCEPT !.pc = pc].run = thread[t].run
    BY <2>2 DEF Firing
  <2> QED BY <2>1, <2>3, <2>4, MovesTyped
<1>4. ASSUME NEW t \in Threads, Update(t) PROVE ThreadTypes'
  <2>1. CASE Moves(t, Idle)
    BY <2>1, MovesTyped DEF Idle
  <2>2. ASSUME Moves(t, [thread[t] EXCEPT !.pc = "parking"]), [thread[t] EXCEPT !.pc = "parking"] \in Parking
        PROVE  ThreadTypes'
    BY <2>2, MovesTyped DEF Parking
  <2> QED BY <1>4, <2>1, <2>2, FiringEnds
<1>5. ASSUME NEW t \in Threads, Park(t) PROVE ThreadTypes'
  BY <1>5, StepInto, MovesTyped DEF Park, Steps, Idle
<1>6. ASSUME NEW c \in Callers, Consume(c) \/ Call(c) \/ \E x \in Runs : Complete(c, x) PROVE ThreadTypes'
  <2>1. /\ c \in Threads /\ [thread[c] EXCEPT !.pc = "completing"].pc = "completing"
        /\ \A k : [thread[c] EXCEPT !.pc = "calling", !.with = k].pc = "calling"
    BY <1>6, ExecutionGoes DEF Executing
  <2> QED BY <1>6, <2>1, ExecutionGoes, MovesTyped DEF Idle
<1>7. ASSUME NEW c \in Callers, NEW r \in Runs, NEW k \in Runs \cup {"none"}, Execute(c, r, k)
      PROVE  ThreadTypes'
  <2> DEFINE step == [pc |-> "consuming", auto |-> log[r].auto, run |-> "none", of |-> r, with |-> k]
  <2>1. step.pc = "consuming"
    OBVIOUS
  <2>2. Moves(c, step) /\ c \in Threads
    BY <1>7, ExecutionBegins
  <2> HIDE DEF step
  <2> QED BY <2>1, <2>2, MovesTyped
<1>8. CASE Restart
  BY <1>8 DEF Restart, ThreadTypes, Idle
<1>9. Poller \in Threads /\ Callers \subseteq Threads /\ NoMail \in Mails
  BY DEF Threads, Mails
<1>10. ASSUME NEW a \in Autos, NEW r \in Runs \cup {"none"},
              PollCron(a, r) \/ \E c \in Callers : Fire(c, a, r)
       PROVE  ThreadTypes'
  BY <1>1, <1>2, <1>9, <1>10 DEF PollCron, Fire
<1>11. ASSUME NEW r \in Runs \cup {"none"}, Examine(r) PROVE ThreadTypes'
  <2>1. CASE UNCHANGED thread
    BY <1>1, <2>1
  <2>2. CASE Begin(Poller, check.auto, r, Head(check.left).mail)
    <3>1. check \in Checks /\ check.left # <<>>
      BY <1>11 DEF BookTypes, Examine, Holding
    <3>2. check.auto \in Autos /\ Head(check.left).mail \in Mails
      <4>1. check.auto \in Mail /\ check.left \in Seq(Entries)
        BY <3>1 DEF Checks
      <4>2. Head(check.left) \in Entries
        BY <3>1, <4>1
      <4> QED BY <4>1, <4>2 DEF Entries, Mails, Mail
    <3> QED BY <1>2, <1>9, <2>2, <3>2
  <2> QED BY <1>11, <2>1, <2>2 DEF Examine
<1>12. ASSUME \/ \E a \in Autos : Create(a) \/ Delete(a) \/ FallDue(a) \/ Fetch(a)
              \/ \E a \in Autos, to \in {"on", "paused"} : SetEnabled(a, to)
              \/ \E r \in Runs, s \in {"APPROVED", "DENIED", "EXPIRED"} : Answer(r, s)
              \/ \E to \in BOOLEAN : SetGate(to)
              \/ Tick \/ Look \/ Save
              \/ \E m \in Messages : Arrive(m)
              \/ \E i \in DOMAIN box : Expunge(i)
              \/ ExpungeOld \/ UNCHANGED vars
       PROVE  UNCHANGED thread
  BY <1>12 DEF Create, Delete, FallDue, Fetch, SetEnabled, Answer, SetGate, Tick, Look, Save, Arrive, Expunge,
               ExpungeOld, vars
<1> QED BY <1>1, <1>3, <1>4, <1>5, <1>6, <1>7, <1>8, <1>10, <1>11, <1>12 DEF Next

LEMMA Finite ==
  ASSUME MailTypes
  PROVE  /\ IsFiniteSet(Messages) /\ Cardinality(Messages) \in Nat /\ IsFiniteSet(came)
         /\ Cardinality(came) \in Nat /\ Cardinality(came) <= Cardinality(Messages)
         /\ Numbers \subseteq Nat /\ IsFiniteSet(Numbers)
<1>1. IsFiniteSet(Messages) /\ FirstNumber \in Nat
  BY AutomationsAssumption
<1>2. Cardinality(Messages) \in Nat
  BY <1>1, FS_CardinalityType
<1>3. IsFiniteSet(came) /\ Cardinality(came) <= Cardinality(Messages)
  BY <1>1, FS_Subset DEF MailTypes
<1>4. Cardinality(came) \in Nat
  BY <1>3, FS_CardinalityType
<1>5. IsFiniteSet(Numbers) /\ Numbers \subseteq Nat
  <2>1. 1 \in Int /\ FirstNumber + Cardinality(Messages) \in Int
    BY <1>1, <1>2
  <2> QED BY <2>1, FS_Interval DEF Numbers
<1> QED BY <1>1, <1>2, <1>3, <1>4, <1>5

(* Every step keeps the mailbox's types. *)
LEMMA MailStep ==
  ASSUME MailTypes, [Next]_vars PROVE MailTypes'
<1>1. CASE UNCHANGED mailbox
  BY <1>1 DEF MailTypes, mailbox
<1>2. ASSUME NEW m \in Messages, Arrive(m) PROVE MailTypes'
  <2>1. box' = Append(box, m) /\ came' = came \cup {m} /\ m \notin came /\ first' = first
    BY <1>2 DEF Arrive
  <2>2. Cardinality(came \cup {m}) = Cardinality(came) + 1
    BY <2>1, Finite, FS_AddElement
  <2>3. box \in Seq(came \cup {m}) /\ Len(box) \in Nat
    BY DEF MailTypes
  <2>4. Append(box, m) \in Seq(came \cup {m}) /\ Len(Append(box, m)) = Len(box) + 1
    BY <2>3
  <2> QED BY <2>1, <2>2, <2>3, <2>4, Finite DEF MailTypes
<1>3. ASSUME NEW i \in DOMAIN box, Expunge(i) PROVE MailTypes'
  <2>1. box' = SubSeq(box, 1, i - 1) \o SubSeq(box, i + 1, Len(box)) /\ UNCHANGED <<came, first>>
    BY <1>3 DEF Expunge
  <2>2. box \in Seq(came) /\ i \in 1 .. Len(box) /\ Len(box) \in Nat
    BY DEF MailTypes
  <2>3. SubSeq(box, 1, i - 1) \in Seq(came) /\ Len(SubSeq(box, 1, i - 1)) = i - 1
    BY <2>2
  <2>4. /\ SubSeq(box, i + 1, Len(box)) \in Seq(came)
        /\ Len(SubSeq(box, i + 1, Len(box))) = Len(box) - i
    BY <2>2
  <2>5. box' \in Seq(came) /\ Len(box') = Len(box) - 1
    <3> DEFINE s == SubSeq(box, 1, i - 1)
               t == SubSeq(box, i + 1, Len(box))
    <3>1. s \in Seq(came) /\ t \in Seq(came) /\ box' = s \o t
      BY <2>1, <2>3, <2>4
    <3>2. Len(s) = i - 1 /\ Len(t) = Len(box) - i
      BY <2>3, <2>4
    <3> HIDE DEF s, t
    <3>3. s \o t \in Seq(came) /\ Len(s \o t) = Len(s) + Len(t)
      BY <3>1
    <3> QED BY <2>2, <3>1, <3>2, <3>3
  <2> QED BY <2>1, <2>2, <2>5, Finite DEF MailTypes
<1>4. CASE ExpungeOld
  BY <1>4, AutomationsAssumption DEF ExpungeOld, MailTypes
<1>5. ASSUME \/ \E a \in Autos : Create(a) \/ Delete(a) \/ FallDue(a) \/ Fetch(a)
             \/ \E a \in Autos, to \in {"on", "paused"} : SetEnabled(a, to)
             \/ \E a \in Autos, r \in Runs \cup {"none"} : PollCron(a, r) \/ \E c \in Callers : Fire(c, a, r)
             \/ \E t \in Threads : Act(t) \/ Update(t) \/ Park(t)
             \/ \E c \in Callers, r \in Runs, k \in Runs \cup {"none"} : Execute(c, r, k)
             \/ \E c \in Callers : Consume(c) \/ Call(c) \/ \E x \in Runs : Complete(c, x)
      PROVE  UNCHANGED mailbox
  BY <1>5 DEF Create, Delete, FallDue, Fetch, SetEnabled, PollCron, Fire, Act, Update, Park, Execute,
              Consume, Call, Complete
<1>6. ASSUME \/ \E r \in Runs, s \in {"APPROVED", "DENIED", "EXPIRED"} : Answer(r, s)
             \/ \E to \in BOOLEAN : SetGate(to)
             \/ Tick \/ Look \/ Save \/ \E r \in Runs \cup {"none"} : Examine(r)
             \/ Restart \/ UNCHANGED vars
      PROVE  UNCHANGED mailbox
  BY <1>6 DEF Answer, SetGate, Tick, Look, Save, Examine, Restart, vars, mailbox
<1> QED BY <1>1, <1>2, <1>3, <1>4, <1>5, <1>6 DEF Next

(* What is fetched are messages of the mailbox with numbers it may have. *)
LEMMA FetchedTyped ==
  ASSUME MailTypes PROVE Fetched \in Seq(Entries)
<1> DEFINE n == Len(box) - Later(0, Len(box) - FetchMax)
<1>1. box \in Seq(came) /\ Len(box) \in Nat /\ Len(box) <= Cardinality(Messages)
      /\ first \in Nat /\ 1 <= first /\ first <= FirstNumber /\ came \subseteq Messages
      /\ Cardinality(Messages) \in Nat /\ FetchMax \in Nat /\ FirstNumber \in Nat
  BY Finite, AutomationsAssumption DEF MailTypes
<1>2. n \in Nat /\ n <= Len(box)
  BY <1>1 DEF Later
<1> HIDE DEF n
<1>3. ASSUME NEW i \in 1 .. n
      PROVE  [number |-> first + Len(box) - i, mail |-> box[Len(box) + 1 - i]] \in Entries
  <2>1. first + Len(box) - i \in Numbers
    BY <1>1, <1>2, <1>3 DEF Numbers
  <2>2. Len(box) + 1 - i \in 1 .. Len(box)
    BY <1>1, <1>2, <1>3
  <2>3. box[Len(box) + 1 - i] \in Messages
    BY <1>1, <2>2
  <2> QED BY <2>1, <2>3 DEF Entries
<1>4. Fetched = [i \in 1 .. n |-> [number |-> first + Len(box) - i, mail |-> box[Len(box) + 1 - i]]]
  BY DEF Fetched, n
<1>5. Fetched \in [1 .. n -> Entries]
  BY <1>3, <1>4
<1>6. Fetched \in Seq(Entries)
  BY <1>2, <1>5, SeqDef
<1> QED BY <1>6

(* What a step may do to the automations, besides what a check saves. *)
AutoStates == [state : {"none", "on", "paused", "gone"}, due : BOOLEAN, seen : SUBSET Numbers]

LEMMA AutosKept ==
  ASSUME ThreadTypes, auto \in [Autos -> AutoStates],
         \/ \E a \in Autos : Create(a) \/ Delete(a) \/ FallDue(a)
         \/ \E a \in Autos, to \in {"on", "paused"} : SetEnabled(a, to)
         \/ \E t \in Threads : Update(t)
  PROVE  /\ auto' \in [Autos -> AutoStates]
         /\ \A a \in Autos : auto'[a].seen \in {auto[a].seen, {}}
<1>1. ASSUME NEW a \in Autos, Create(a) \/ Delete(a) \/ FallDue(a)
      PROVE  auto' \in [Autos -> AutoStates] /\ \A b \in Autos : auto'[b].seen \in {auto[b].seen, {}}
  <2>1. CASE Create(a)
    BY <2>1 DEF Create, AutoStates
  <2>2. CASE Delete(a)
    <3>1. auto' = [auto EXCEPT ![a] = [state |-> "gone", due |-> FALSE, seen |-> {}]]
      BY <2>2 DEF Delete
    <3>2. [state |-> "gone", due |-> FALSE, seen |-> {}] \in AutoStates
      BY DEF AutoStates
    <3> QED BY <3>1, <3>2
  <2>3. CASE FallDue(a)
    BY <2>3 DEF FallDue, AutoStates
  <2> QED BY <1>1, <2>1, <2>2, <2>3
<1>2. ASSUME NEW a \in Autos, NEW to \in {"on", "paused"}, SetEnabled(a, to)
      PROVE  auto' \in [Autos -> AutoStates] /\ \A b \in Autos : auto'[b].seen \in {auto[b].seen, {}}
  <2> DEFINE d == auto[a].due /\ to = "paused"
  <2>1. d \in BOOLEAN
    OBVIOUS
  <2>2. auto' = [auto EXCEPT ![a].state = to, ![a].due = d]
    BY <1>2 DEF SetEnabled
  <2> HIDE DEF d
  <2> QED BY <2>1, <2>2 DEF AutoStates
<1>3. ASSUME NEW t \in Threads, Update(t)
      PROVE  auto' \in [Autos -> AutoStates] /\ \A b \in Autos : auto'[b].seen \in {auto[b].seen, {}}
  <2>1. thread[t].auto \in Autos
    BY <1>3, FiringEnds DEF Firing
  <2>2. auto' = [auto EXCEPT ![thread[t].auto].due = FALSE]
    BY <1>3 DEF Update, NextDue
  <2> QED BY <2>1, <2>2 DEF AutoStates
<1> QED BY <1>1, <1>2, <1>3

(* Every step keeps the types of the automations, the log and the approvals. *)
LEMMA BookStep ==
  ASSUME Types, [Next]_vars PROVE BookTypes'
<1> USE DEF Types
<1>0. /\ auto \in [Autos -> AutoStates] /\ todo \subseteq Autos /\ Mail \subseteq Autos
      /\ log \in [Runs -> {NoRun} \cup Logged] /\ approval \in [Runs -> {NoAsk} \cup Asks]
      /\ check \in {NoCheck} \cup Checks
  BY DEF BookTypes, AutoStates, Mail
<1>1. ASSUME auto' \in [Autos -> AutoStates], UNCHANGED <<log, approval, todo, check>> PROVE BookTypes'
  BY <1>1, <1>0 DEF ledger, BookTypes, AutoStates
<1>2. ASSUME \/ \E a \in Autos : Create(a) \/ Delete(a) \/ FallDue(a)
             \/ \E a \in Autos, to \in {"on", "paused"} : SetEnabled(a, to)
             \/ \E t \in Threads : Update(t)
      PROVE  BookTypes'
  <2>1. UNCHANGED <<log, approval, todo, check>>
    BY <1>2 DEF Create, Delete, FallDue, SetEnabled, Update, ledger
  <2> QED BY <1>0, <1>1, <1>2, <2>1, AutosKept
<1>3. ASSUME NEW a \in Autos, Fetch(a) PROVE BookTypes'
  <2>1. check' \in {NoCheck} \cup Checks
    <3>1. CASE UNCHANGED check
      BY <1>0, <3>1
    <3>2. CASE check' = [auto |-> a, left |-> Fetched, seen |-> {}, held |-> FALSE]
      <4>1. a \in Mail
        BY <1>3 DEF Fetch
      <4> QED BY <3>2, <4>1, FetchedTyped DEF Checks
    <3> QED BY <1>3, <3>1, <3>2 DEF Fetch
  <2> QED BY <1>0, <1>3, <2>1 DEF Fetch, ledger, BookTypes, AutoStates
<1>4. ASSUME NEW a \in Autos, NEW r \in Runs \cup {"none"}, PollCron(a, r) \/ \E c \in Callers : Fire(c, a, r)
      PROVE  BookTypes'
  BY <1>0, <1>4 DEF PollCron, Fire, ledger, BookTypes, AutoStates
<1>5. ASSUME NEW t \in Threads, Act(t) PROVE BookTypes'
  <2>1. CASE approval' = approval
    BY <1>0, <1>5, <2>1, ActionEnds DEF ledger, BookTypes, AutoStates, engine
  <2>2. CASE Asking(t) /\ approval' = [approval EXCEPT ![thread[t].run] =
                                         [state |-> "PENDING", auto |-> thread[t].auto]]
    <3>1. [state |-> "PENDING", auto |-> thread[t].auto] \in Asks
      BY <2>2 DEF Asking, Asks
    <3>2. approval' \in [Runs -> {NoAsk} \cup Asks]
      BY <1>0, <2>2, <3>1
    <3> QED BY <1>0, <1>5, <3>2, ActionEnds DEF ledger, BookTypes, AutoStates, engine
  <2> QED BY <1>5, <2>1, <2>2, ActionEnds
<1>6. ASSUME NEW t \in Threads, Park(t) PROVE BookTypes'
  <2>1. thread[t] \in Parking
    BY <1>6, StepFields DEF Park
  <2>2. [status |-> "awaiting", auto |-> thread[t].auto] \in Logged
    BY <2>1 DEF Parking, Logged
  <2>3. log' \in [Runs -> {NoRun} \cup Logged]
    BY <1>0, <1>6, <2>2 DEF Park
  <2> QED BY <1>0, <1>6, <2>3 DEF Park, engine, ledger, BookTypes, AutoStates
<1>7. ASSUME NEW c \in Callers, Consume(c) \/ Call(c) PROVE BookTypes'
  <2>1. thread[c] \in Executing
    BY <1>7, ExecutionGoes
  <2>2. approval' \in [Runs -> {NoAsk} \cup Asks]
    <3>1. CASE approval' = approval
      BY <1>0, <3>1
    <3>2. CASE /\ Consumable(thread[c].with, thread[c].auto)
               /\ approval' = [approval EXCEPT ![thread[c].with].state = "USED"]
      <4>1. thread[c].with \in Runs /\ approval[thread[c].with] \in Asks
        BY <1>0, <2>1, <3>2 DEF Executing, Consumable, NoAsk
      <4>2. [approval[thread[c].with] EXCEPT !.state = "USED"] \in Asks
        BY <4>1 DEF Asks
      <4> QED BY <1>0, <3>2, <4>1, <4>2
    <3> QED BY <1>7, <3>1, <3>2 DEF Consume, Call, ledger
  <2> QED BY <1>0, <1>7, <2>2 DEF Consume, Call, engine, ledger, BookTypes, AutoStates
<1>8. ASSUME NEW c \in Callers, NEW x \in Runs, Complete(c, x) PROVE BookTypes'
  <2>1. thread[c] \in Executing
    BY <1>8, ExecutionGoes
  <2>2. [status |-> "complete", auto |-> thread[c].auto, parent |-> thread[c].of] \in Logged
    BY <2>1 DEF Executing, Logged
  <2>3. log' \in [Runs -> {NoRun} \cup Logged]
    BY <1>0, <1>8, <2>2 DEF Complete
  <2> QED BY <1>0, <1>8, <2>3 DEF Complete, engine, ledger, BookTypes, AutoStates
<1>9. ASSUME NEW r \in Runs, NEW s \in {"APPROVED", "DENIED", "EXPIRED"}, Answer(r, s) PROVE BookTypes'
  <2>1. approval[r] \in Asks
    BY <1>0, <1>9 DEF Answer, NoAsk
  <2>2. [approval[r] EXCEPT !.state = s] \in Asks
    BY <2>1 DEF Asks
  <2> QED BY <1>0, <1>9, <2>2 DEF Answer, engine, ledger, BookTypes, AutoStates
<1>10. CASE Tick
  BY <1>0, <1>10 DEF Tick, ledger, BookTypes, AutoStates
<1>11. CASE Look
  <2>1. CASE check' = NoCheck
    BY <1>0, <1>11, <2>1 DEF Look, ledger, BookTypes, AutoStates
  <2>2. CASE check' = [check EXCEPT !.held = TRUE, !.seen = auto[check.auto].seen]
    <3>1. check \in Checks
      BY <1>0, <1>11 DEF Look
    <3>2. check.auto \in Autos
      BY <1>0, <3>1 DEF Checks
    <3>3. auto[check.auto].seen \in SUBSET Numbers
      BY <1>0, <3>2 DEF AutoStates
    <3>4. check' \in Checks
      BY <2>2, <3>1, <3>3 DEF Checks
    <3> QED BY <1>0, <1>11, <3>4 DEF Look, ledger, BookTypes, AutoStates
  <2> QED BY <1>11, <2>1, <2>2 DEF Look
<1>12. CASE Save
  <2>1. check \in Checks
    BY <1>0, <1>12 DEF Save, Holding
  <2>2. check.auto \in Autos /\ Trimmed(check.seen) \in SUBSET Numbers
    BY <1>0, <2>1 DEF Checks, Trimmed
  <2>3. auto' \in [Autos -> AutoStates] /\ check' = NoCheck
    BY <1>0, <1>12, <2>2 DEF Save, AutoStates
  <2> QED BY <1>0, <1>12, <2>3 DEF Save, ledger, BookTypes, AutoStates
<1>13. ASSUME NEW r \in Runs \cup {"none"}, Examine(r) PROVE BookTypes'
  <2>1. check \in Checks /\ check.left # <<>>
    BY <1>0, <1>13 DEF Examine, Holding
  <2>2. check.left \in Seq(Entries) /\ check.seen \in SUBSET Numbers
    BY <2>1 DEF Checks
  <2>3. Tail(check.left) \in Seq(Entries) /\ Head(check.left) \in Entries
    BY <2>1, <2>2
  <2>4. Marked(Head(check.left).number) \in SUBSET Numbers
    BY <2>2, <2>3 DEF Marked, Entries
  <2>5. \/ check' = [check EXCEPT !.left = Tail(check.left)]
        \/ check' = [check EXCEPT !.left = Tail(check.left), !.seen = Marked(Head(check.left).number)]
    BY <1>13 DEF Examine
  <2>6. check' \in Checks
    BY <2>1, <2>3, <2>4, <2>5 DEF Checks
  <2> QED BY <1>0, <1>13, <2>6 DEF Examine, ledger, BookTypes, AutoStates
<1>14. CASE Restart
  BY <1>0, <1>14 DEF Restart, ledger, BookTypes, AutoStates
<1>15. ASSUME \/ \E m \in Messages : Arrive(m)
              \/ \E i \in DOMAIN box : Expunge(i)
              \/ \E c \in Callers, r \in Runs, k \in Runs \cup {"none"} : Execute(c, r, k)
              \/ \E to \in BOOLEAN : SetGate(to)
              \/ ExpungeOld \/ UNCHANGED vars
       PROVE  BookTypes'
  <2>1. UNCHANGED <<auto, log, approval, todo, check>>
    BY <1>15 DEF Arrive, Expunge, Execute, SetGate, ExpungeOld, engine, ledger, vars
  <2> QED BY <1>0, <2>1 DEF ledger, BookTypes, AutoStates
<1> HIDE DEF Types
<1> QED BY <1>2, <1>3, <1>4, <1>5, <1>6, <1>7, <1>8, <1>9, <1>10, <1>11, <1>12, <1>13, <1>14, <1>15 DEF Next

-----------------------------------------------------------------------------
(* What is kept of the numbers seen.                                        *)

\* The order of the numbers' texts is that of these ranks.
Rank(n) == IF n < 10 THEN 11 * n ELSE 11 * (n \div 10) + 1 + (n % 10)

LEMMA TextRanked ==
  ASSUME NEW i \in Nat, NEW j \in Nat
  PROVE  /\ Rank(i) \in Nat
         /\ Rank(i) = Rank(j) => i = j
         /\ TextBefore(i, j) <=> Rank(i) < Rank(j)
<1>1. ASSUME NEW n \in Nat
      PROVE  n \div 10 \in Nat /\ n % 10 \in 0 .. 9 /\ n = 10 * (n \div 10) + (n % 10)
  <2>1. n \div 10 \in Nat
    OBVIOUS
  <2>2. n % 10 \in 0 .. 9
    OBVIOUS
  <2>3. n = 10 * (n \div 10) + (n % 10)
    OBVIOUS
  <2> QED BY <2>1, <2>2, <2>3
<1>2. \A n \in Nat : /\ n < 10 => Len(Text(n)) = 1 /\ Text(n)[1] = n
                     /\ n >= 10 => Len(Text(n)) = 2 /\ Text(n)[1] = n \div 10 /\ Text(n)[2] = n % 10
  BY DEF Text
<1>3. ASSUME NEW n \in Nat, n >= 10
      PROVE  \E q \in Nat, r \in 0 .. 9 : /\ n = 10 * q + r /\ Rank(n) = 11 * q + 1 + r
                                          /\ Len(Text(n)) = 2 /\ Text(n)[1] = q /\ Text(n)[2] = r
  <2>1. ~(n < 10)
    BY <1>3
  <2> QED BY <1>1, <1>2, <1>3, <2>1 DEF Rank
<1>4. ASSUME NEW n \in Nat, n < 10 PROVE Rank(n) = 11 * n /\ Len(Text(n)) = 1 /\ Text(n)[1] = n
  BY <1>2, <1>4 DEF Rank
<1> DEFINE u == Text(i)
           v == Text(j)
<1>5. TextBefore(i, j) <=> \/ u[1] < v[1]
                           \/ u[1] = v[1] /\ Len(u) < Len(v)
                           \/ u[1] = v[1] /\ Len(u) = 2 /\ Len(v) = 2 /\ u[2] < v[2]
  BY DEF TextBefore
<1> HIDE DEF u, v
<1>6. CASE i < 10 /\ j < 10
  BY <1>4, <1>6, <1>5 DEF u, v
<1>7. CASE i < 10 /\ j >= 10
  <2>1. PICK q \in Nat, r \in 0 .. 9 : /\ j = 10 * q + r /\ Rank(j) = 11 * q + 1 + r
                                       /\ Len(Text(j)) = 2 /\ Text(j)[1] = q /\ Text(j)[2] = r
    BY <1>3, <1>7
  <2>2. TextBefore(i, j) <=> i <= q
    BY <1>4, <1>7, <2>1, <1>5 DEF u, v
  <2> QED BY <1>4, <1>7, <2>1, <2>2
<1>8. CASE i >= 10 /\ j < 10
  <2>1. PICK q \in Nat, r \in 0 .. 9 : /\ i = 10 * q + r /\ Rank(i) = 11 * q + 1 + r
                                       /\ Len(Text(i)) = 2 /\ Text(i)[1] = q /\ Text(i)[2] = r
    BY <1>3, <1>8
  <2>2. Rank(j) = 11 * j /\ Len(Text(j)) = 1 /\ Text(j)[1] = j
    BY <1>4, <1>8
  <2>3. TextBefore(i, j) <=> q < j
    BY <2>1, <2>2, <1>5 DEF u, v
  <2> QED BY <1>8, <2>1, <2>2, <2>3
<1>9. CASE i >= 10 /\ j >= 10
  <2>1. PICK q \in Nat, r \in 0 .. 9 : /\ i = 10 * q + r /\ Rank(i) = 11 * q + 1 + r
                                       /\ Len(Text(i)) = 2 /\ Text(i)[1] = q /\ Text(i)[2] = r
    BY <1>3, <1>9
  <2>2. PICK p \in Nat, s \in 0 .. 9 : /\ j = 10 * p + s /\ Rank(j) = 11 * p + 1 + s
                                       /\ Len(Text(j)) = 2 /\ Text(j)[1] = p /\ Text(j)[2] = s
    BY <1>3, <1>9
  <2>3. TextBefore(i, j) <=> q < p \/ (q = p /\ r < s)
    BY <2>1, <2>2, <1>5 DEF u, v
  <2> QED BY <2>1, <2>2, <2>3
<1> QED BY <1>6, <1>7, <1>8, <1>9

\* At most MaxSeen of any numbers are kept: no two of them have as many after them.
LEMMA TrimmedFits ==
  ASSUME NEW S \in SUBSET Nat, IsFiniteSet(S)
  PROVE  Cardinality(Trimmed(S)) <= MaxSeen
<1> DEFINE Behind(n) == {x \in S : TextBefore(n, x)}
           T == Trimmed(S)
           f == [n \in T |-> Cardinality(Behind(n))]
<1>1. T \subseteq S /\ T \subseteq Nat
  BY DEF Trimmed
<1>2. ASSUME NEW n \in S PROVE IsFiniteSet(Behind(n)) /\ Cardinality(Behind(n)) \in Nat
  <2>1. Behind(n) \in SUBSET S
    OBVIOUS
  <2> QED BY <2>1, FS_Subset, FS_CardinalityType
<1>3. ASSUME NEW n \in T PROVE Cardinality(Behind(n)) \in 0 .. MaxSeen - 1
  <2>1. Cardinality(Behind(n)) < MaxSeen
    BY DEF Trimmed
  <2> QED BY <1>1, <1>2, <2>1, AutomationsAssumption
<1>4. ASSUME NEW n \in T, NEW m \in T, TextBefore(n, m)
      PROVE  Cardinality(Behind(m)) < Cardinality(Behind(n))
  <2>1. Behind(m) \in SUBSET Behind(n)
    <3>1. ASSUME NEW x \in S, TextBefore(m, x) PROVE TextBefore(n, x)
      <4>1. n \in Nat /\ m \in Nat /\ x \in Nat
        BY <1>1
      <4>2. Rank(n) \in Nat /\ Rank(m) \in Nat /\ Rank(x) \in Nat /\ Rank(n) < Rank(m) /\ Rank(m) < Rank(x)
        BY <1>4, <3>1, <4>1, TextRanked
      <4> QED BY <4>1, <4>2, TextRanked
    <3> QED BY <3>1
  <2>2. m \in Behind(n) /\ m \notin Behind(m)
    BY <1>1, <1>4, TextRanked
  <2>3. IsFiniteSet(Behind(n)) /\ Cardinality(Behind(n)) \in Nat /\ Cardinality(Behind(m)) \in Nat
    BY <1>1, <1>2
  <2> HIDE DEF Behind
  <2> QED BY <2>1, <2>2, <2>3, FS_Subset
<1>5. ASSUME NEW n \in T, NEW m \in T, n # m PROVE Cardinality(Behind(m)) # Cardinality(Behind(n))
  <2>1. TextBefore(n, m) \/ TextBefore(m, n)
    <3>1. n \in Nat /\ m \in Nat
      BY <1>1
    <3>2. Rank(n) \in Nat /\ Rank(m) \in Nat /\ Rank(n) # Rank(m)
      BY <1>5, <3>1, TextRanked
    <3> QED BY <3>1, <3>2, TextRanked
  <2>2. Cardinality(Behind(n)) \in Nat /\ Cardinality(Behind(m)) \in Nat
    BY <1>1, <1>2
  <2> HIDE DEF Behind, T
  <2> QED BY <1>4, <2>1, <2>2
<1> HIDE DEF Behind, T
<1>6. f \in Injection(T, 0 .. MaxSeen - 1)
  BY <1>3, <1>5 DEF Injection, IsInjective
<1>7. IsFiniteSet(0 .. MaxSeen - 1) /\ Cardinality(0 .. MaxSeen - 1) = MaxSeen
  <2>1. MaxSeen \in Nat \ {0}
    BY AutomationsAssumption
  <2>2. 0 \in Int /\ MaxSeen - 1 \in Int
    BY <2>1
  <2> QED BY <2>1, <2>2, FS_Interval
<1> HIDE DEF f
<1>8. Cardinality(T) <= MaxSeen
  BY <1>6, <1>7, FS_Injection
<1> QED BY <1>8 DEF T

(* Every step keeps within the bound what an automation remembers. *)
LEMMA SeenStep ==
  ASSUME Types, SeenFits, [Next]_vars PROVE SeenFits'
<1>1. Cardinality({}) <= MaxSeen
  BY FS_EmptySet, AutomationsAssumption
<1>2. auto \in [Autos -> AutoStates]
  BY DEF Types, BookTypes, AutoStates
<1>3. ASSUME \/ \E a \in Autos : Create(a) \/ Delete(a) \/ FallDue(a)
             \/ \E a \in Autos, to \in {"on", "paused"} : SetEnabled(a, to)
             \/ \E t \in Threads : Update(t)
      PROVE  SeenFits'
  <2>1. \A a \in Autos : auto'[a].seen \in {auto[a].seen, {}}
    BY <1>2, <1>3, AutosKept DEF Types
  <2> QED BY <1>1, <2>1 DEF SeenFits
<1>4. CASE Save
  <2>1. check \in Checks /\ auto' = [auto EXCEPT ![check.auto].seen = Trimmed(check.seen)]
    BY <1>4 DEF Save, Holding, Types, BookTypes
  <2>2. check.auto \in Autos /\ check.seen \in SUBSET Numbers
    BY <2>1 DEF Checks, Mail
  <2>3. IsFiniteSet(check.seen) /\ check.seen \in SUBSET Nat
    BY <2>2, Finite, FS_Subset DEF Types
  <2>4. Cardinality(Trimmed(check.seen)) <= MaxSeen
    BY <2>3, TrimmedFits
  <2>5. \A a \in Autos : auto'[a].seen \in {auto[a].seen, Trimmed(check.seen)}
    BY <1>2, <2>1, <2>2 DEF AutoStates
  <2> QED BY <2>4, <2>5 DEF SeenFits
<1>5. ASSUME \/ \E a \in Autos : Fetch(a)
             \/ \E a \in Autos, r \in Runs \cup {"none"} : PollCron(a, r) \/ \E c \in Callers : Fire(c, a, r)
             \/ \E t \in Threads : Act(t) \/ Park(t)
             \/ \E c \in Callers, r \in Runs, k \in Runs \cup {"none"} : Execute(c, r, k)
             \/ \E c \in Callers : Consume(c) \/ Call(c) \/ \E x \in Runs : Complete(c, x)
             \/ \E r \in Runs, s \in {"APPROVED", "DENIED", "EXPIRED"} : Answer(r, s)
             \/ \E to \in BOOLEAN : SetGate(to)
      PROVE  UNCHANGED auto
  BY <1>5 DEF Fetch, PollCron, Fire, Act, Park, Execute, Consume, Call, Complete, Answer, SetGate, engine
<1>6. ASSUME \/ Tick \/ Look
             \/ \E r \in Runs \cup {"none"} : Examine(r)
             \/ \E m \in Messages : Arrive(m)
             \/ \E i \in DOMAIN box : Expunge(i)
             \/ ExpungeOld \/ Restart \/ UNCHANGED vars
      PROVE  UNCHANGED auto
  BY <1>6 DEF Tick, Look, Examine, Arrive, Expunge, ExpungeOld, Restart, engine, vars
<1>7. ASSUME UNCHANGED auto PROVE SeenFits'
  BY <1>7 DEF SeenFits
<1> QED BY <1>3, <1>4, <1>5, <1>6, <1>7 DEF Next

(* Every step keeps the histories' types. *)
LEMMA HistoryStep ==
  ASSUME Types, [Next]_vars PROVE HistoryTypes'
<1>0. /\ calls \in [Runs -> Nat] /\ grants \in [Runs -> Nat]
      /\ gate \in BOOLEAN /\ lifted \in BOOLEAN /\ bare \in BOOLEAN /\ fired \in [Autos -> [Messages -> Nat]]
      /\ ticks \in [Autos -> [due : Nat, polled : Nat]] /\ crashes \in [all : Nat, checks : Nat]
  BY DEF Types, HistoryTypes
<1>1. CASE UNCHANGED <<history, gate, grants, lifted>>
  BY <1>1 DEF Types, HistoryTypes, history
<1>2. ASSUME NEW a \in Autos, FallDue(a) PROVE HistoryTypes'
  <2>1. ticks' \in [Autos -> [due : Nat, polled : Nat]]
    BY <1>0, <1>2 DEF FallDue
  <2> QED BY <1>0, <1>2, <2>1 DEF FallDue, ledger, HistoryTypes
<1>3. ASSUME NEW a \in Autos, NEW r \in Runs \cup {"none"}, PollCron(a, r) PROVE HistoryTypes'
  <2>1. ticks' \in [Autos -> [due : Nat, polled : Nat]]
    <3>1. ticks' = ticks \/ ticks' = [ticks EXCEPT ![a].polled = @ + 1]
      BY <1>3 DEF PollCron
    <3>2. [ticks[a] EXCEPT !.polled = @ + 1] \in [due : Nat, polled : Nat]
      BY <1>0
    <3> QED BY <1>0, <3>1, <3>2
  <2> QED BY <1>0, <1>3, <2>1 DEF PollCron, ledger, HistoryTypes
<1>4. ASSUME NEW t \in Threads, Act(t) PROVE HistoryTypes'
  <2>1. fired' \in [Autos -> [Messages -> Nat]]
    <3>1. thread[t].auto \in Autos /\ thread[t].mail \in Mails
      BY <1>4, ActionEnds DEF Types, Firing
    <3>2. CASE thread[t].mail = NoMail
      BY <1>0, <1>4, <3>2 DEF Act
    <3>3. CASE thread[t].mail # NoMail
      BY <1>0, <1>4, <3>1, <3>3 DEF Act, Mails
    <3> QED BY <3>2, <3>3
  <2> QED BY <1>0, <1>4, <2>1 DEF Act, ledger, HistoryTypes
<1>5. ASSUME NEW c \in Callers, Call(c) PROVE HistoryTypes'
  <2>1. \/ calls' = calls
        \/ thread[c].with \in Runs /\ calls' = [calls EXCEPT ![thread[c].with] = @ + 1]
    BY <1>5 DEF Call
  <2>2. calls' \in [Runs -> Nat]
    BY <1>0, <2>1
  <2>3. bare' \in BOOLEAN
    BY <1>0, <1>5 DEF Call
  <2> QED BY <1>0, <1>5, <2>2, <2>3 DEF Call, ledger, HistoryTypes
<1>6. CASE Restart
  <2>1. crashes' \in [all : Nat, checks : Nat]
    BY <1>0, <1>6 DEF Restart
  <2> QED BY <1>0, <1>6, <2>1 DEF Restart, ledger, HistoryTypes
<1>7. ASSUME \/ \E a \in Autos : Create(a) \/ Delete(a) \/ Fetch(a)
             \/ \E a \in Autos, to \in {"on", "paused"} : SetEnabled(a, to)
             \/ \E a \in Autos, r \in Runs \cup {"none"} : \E c \in Callers : Fire(c, a, r)
             \/ \E t \in Threads : Update(t) \/ Park(t)
             \/ \E c \in Callers, r \in Runs, k \in Runs \cup {"none"} : Execute(c, r, k)
             \/ \E c \in Callers : Consume(c) \/ \E x \in Runs : Complete(c, x)
      PROVE  UNCHANGED <<history, gate, grants, lifted>>
  BY <1>7 DEF Create, Delete, Fetch, SetEnabled, Fire, Update, Park, Execute, Consume, Complete, ledger
<1>8. ASSUME \/ Tick \/ Look \/ Save
             \/ \E r \in Runs \cup {"none"} : Examine(r)
             \/ \E m \in Messages : Arrive(m)
             \/ \E i \in DOMAIN box : Expunge(i)
             \/ ExpungeOld \/ UNCHANGED vars
      PROVE  UNCHANGED <<history, gate, grants, lifted>>
  BY <1>8 DEF Tick, Look, Save, Examine, Arrive, Expunge, ExpungeOld, ledger, history, vars
<1>9. ASSUME NEW r \in Runs, NEW s \in {"APPROVED", "DENIED", "EXPIRED"}, Answer(r, s)
      PROVE  HistoryTypes'
  <2>1. grants' \in [Runs -> Nat]
    BY <1>0, <1>9 DEF Answer
  <2> QED BY <1>0, <1>9, <2>1 DEF Answer, history, HistoryTypes
<1>10. ASSUME NEW to \in BOOLEAN, SetGate(to) PROVE HistoryTypes'
  BY <1>0, <1>10 DEF SetGate, history, HistoryTypes
<1> QED BY <1>1, <1>2, <1>3, <1>4, <1>5, <1>6, <1>7, <1>8, <1>9, <1>10 DEF Next

-----------------------------------------------------------------------------
(* Approvals.                                                               *)

\* A step that opens no approval and makes no call, and after which nobody is about to call
\* who was not before.
Aside ==
  /\ \A c \in Callers : thread'[c].pc = "calling" => thread'[c] = thread[c]
  /\ \A k \in Runs : approval'[k].state = "APPROVED" => approval[k].state = "APPROVED"
  /\ UNCHANGED <<calls, bare, gate, grants, lifted>>

LEMMA SomeCallers ==
  ASSUME NEW S \in SUBSET Callers
  PROVE  IsFiniteSet(S) /\ Cardinality(S) \in Nat
BY FS_Subset, FS_CardinalityType, AutomationsAssumption

LEMMA AsideBacked ==
  ASSUME Types, Backed, Aside PROVE Backed'
<1>1. ASSUME NEW k \in Runs
      PROVE  calls'[k] + Cardinality(Holders(k)') + One(approval'[k].state = "APPROVED") <= grants'[k]
  <2>1. /\ Holders(k)' \in SUBSET Holders(k)
        /\ Holders(k) \in SUBSET Callers /\ Holders(k)' \in SUBSET Callers
    BY DEF Holders, Aside
  <2>2. /\ Cardinality(Holders(k)') <= Cardinality(Holders(k))
        /\ Cardinality(Holders(k)) \in Nat /\ Cardinality(Holders(k)') \in Nat
    BY <2>1, SomeCallers, FS_Subset
  <2>3. calls[k] \in Nat /\ grants[k] \in Nat /\ calls'[k] = calls[k] /\ grants'[k] = grants[k]
    BY DEF Types, HistoryTypes, Aside
  <2>4. One(approval'[k].state = "APPROVED") <= One(approval[k].state = "APPROVED")
        /\ One(approval'[k].state = "APPROVED") \in Nat /\ One(approval[k].state = "APPROVED") \in Nat
    BY DEF Aside, One
  <2>5. calls[k] + Cardinality(Holders(k)) + One(approval[k].state = "APPROVED") <= grants[k]
    BY DEF Backed, Covered
  <2> QED BY <2>2, <2>3, <2>4, <2>5
<1>2. Covered'
  BY <1>1 DEF Covered
<1>3. Unguarded'
  BY DEF Backed, Unguarded, Aside
<1> QED BY <1>2, <1>3 DEF Backed

\* Who moves on to another step than calling leaves the approvals aside.
LEMMA MovesAside ==
  ASSUME NEW t \in Threads, NEW step, Moves(t, step), step.pc # "calling",
         UNCHANGED <<approval, calls, bare, gate, grants, lifted>>
  PROVE  Aside
BY DEF Moves, Aside, Threads

\* An approval that is consumed was open, and from then on has one holder more.
LEMMA ConsumeBacked ==
  ASSUME Types, Backed, NEW c \in Callers, Consume(c) PROVE Backed'
<1>1. /\ c \in Threads /\ thread[c] \in Executing /\ thread[c].pc = "consuming"
      /\ UNCHANGED <<calls, bare, gate, grants, lifted>>
  BY ExecutionGoes DEF Types, Consume, history
<1>2. thread \in [Threads -> Steps] /\ Callers \subseteq Threads
  BY DEF Types, ThreadTypes, Steps, Threads
<1> PICK k \in Runs \cup {"none"} : k = thread[c].with
  BY <1>1 DEF Executing
<1>3. CASE gate /\ ~Consumable(k, thread[c].auto)
  <2>1. Await(c, Idle) /\ approval' = approval
    BY <1>3 DEF Consume
  <2>2. thread'[c] = Idle /\ \A u \in Threads \ {c} : thread'[u] = thread[u]
    BY <1>1, <1>2, <2>1 DEF Await
  <2> QED BY <1>1, <1>2, <2>1, <2>2, AsideBacked DEF Aside, Idle
<1>4. CASE ~gate
  <2>1. approval' = approval /\ Await(c, [thread[c] EXCEPT !.pc = "calling", !.with = "none"])
    BY <1>4 DEF Consume
  <2>2. /\ thread'[c].pc = "calling" /\ thread'[c].with = "none"
        /\ \A u \in Threads \ {c} : thread'[u] = thread[u]
    BY <1>1, <1>2, <2>1 DEF Await, Executing
  <2>3. \A x \in Runs : Holders(x)' = Holders(x)
    BY <1>1, <1>2, <2>2, AutomationsAssumption DEF Holders
  <2>4. Covered'
    BY <1>1, <2>1, <2>3 DEF Backed, Covered
  <2>5. Unguarded'
    BY <1>1, <1>4 DEF Backed, Unguarded
  <2> QED BY <2>4, <2>5 DEF Backed
<1>5. CASE gate /\ Consumable(k, thread[c].auto)
  <2>1. /\ approval' = [approval EXCEPT ![k].state = "USED"]
        /\ Await(c, [thread[c] EXCEPT !.pc = "calling", !.with = k])
    BY <1>5 DEF Consume
  <2>2. /\ thread'[c].pc = "calling" /\ thread'[c].with = k
        /\ \A u \in Threads \ {c} : thread'[u] = thread[u]
    BY <1>1, <1>2, <2>1 DEF Await, Executing
  <2>3. k \in Runs /\ approval[k].state = "APPROVED" /\ approval[k] \in Asks /\ k # "none"
    BY <1>5, AutomationsAssumption DEF Consumable, Types, BookTypes, NoAsk
  <2>4. approval'[k].state = "USED" /\ \A x \in Runs \ {k} : approval'[x] = approval[x]
    BY <2>1, <2>3 DEF Types, BookTypes, Asks
  <2>5. /\ Holders(k)' = Holders(k) \cup {c} /\ c \notin Holders(k)
        /\ \A x \in Runs \ {k} : Holders(x)' = Holders(x)
    BY <1>1, <1>2, <2>2 DEF Holders
  <2>6. /\ Cardinality(Holders(k)') = Cardinality(Holders(k)) + 1
        /\ Cardinality(Holders(k)) \in Nat
    <3>1. Holders(k) \in SUBSET Callers
      BY DEF Holders
    <3>2. IsFiniteSet(Holders(k)) /\ Cardinality(Holders(k)) \in Nat
      BY <3>1, SomeCallers
    <3> QED BY <2>5, <3>2, FS_AddElement
  <2>7. ASSUME NEW x \in Runs
        PROVE  calls'[x] + Cardinality(Holders(x)') + One(approval'[x].state = "APPROVED") <= grants'[x]
    <3>1. calls[x] + Cardinality(Holders(x)) + One(approval[x].state = "APPROVED") <= grants[x]
      BY DEF Backed, Covered
    <3>2. CASE x = k
      <4>1. calls[k] \in Nat /\ grants[k] \in Nat
        BY <2>3 DEF Types, HistoryTypes
      <4>2. One(approval[k].state = "APPROVED") = 1 /\ One(approval'[k].state = "APPROVED") = 0
        BY <2>3, <2>4 DEF One
      <4> QED BY <1>1, <2>6, <3>1, <3>2, <4>1, <4>2
    <3>3. CASE x # k
      BY <1>1, <2>4, <2>5, <3>1, <3>3
    <3> QED BY <3>2, <3>3
  <2>8. Covered'
    BY <2>7 DEF Covered
  <2>9. Unguarded'
    BY <1>1, <1>2, <2>2, <2>3 DEF Backed, Unguarded
  <2> QED BY <2>8, <2>9 DEF Backed
<1> QED BY <1>3, <1>4, <1>5

\* A call that arrives is counted, and its holder lets go of the approval.
LEMMA CallBacked ==
  ASSUME Types, Backed, NEW c \in Callers, Call(c) PROVE Backed'
<1>1. /\ c \in Threads /\ thread[c] \in Executing /\ thread[c].pc = "calling"
      /\ UNCHANGED <<approval, gate, grants, lifted>>
  BY ExecutionGoes DEF Types, Call, ledger
<1>2. thread'[c].pc # "calling" /\ \A u \in Threads \ {c} : thread'[u] = thread[u]
  <2>1. Await(c, Idle) \/ Await(c, [thread[c] EXCEPT !.pc = "completing"])
    BY DEF Call
  <2> QED BY <1>1, <2>1 DEF Await, Types, ThreadTypes, Idle, Executing
<1>3. Callers \subseteq Threads
  BY DEF Threads
<1> PICK k \in Runs \cup {"none"} : k = thread[c].with
  BY <1>1 DEF Executing
<1>4. CASE UNCHANGED <<calls, bare>>
  BY <1>1, <1>2, <1>3, <1>4, AsideBacked DEF Aside
<1>5. CASE k \notin Runs /\ calls' = calls
  <2>1. k = "none"
    BY <1>1, <1>5 DEF Executing
  <2>2. lifted
    BY <1>1, <2>1 DEF Backed, Unguarded
  <2>3. Unguarded'
    BY <1>1, <2>2 DEF Unguarded
  <2>4. \A x \in Runs : Holders(x)' = Holders(x)
    BY <1>2, <1>3, <1>5 DEF Holders
  <2>5. Covered'
    BY <1>1, <1>5, <2>4 DEF Backed, Covered
  <2> QED BY <2>3, <2>5 DEF Backed
<1>6. CASE k \in Runs /\ bare' = bare /\ calls' = [calls EXCEPT ![k] = @ + 1]
  <2>1. Unguarded'
    BY <1>1, <1>2, <1>3, <1>6 DEF Backed, Unguarded
  <2>2. /\ Holders(k)' = Holders(k) \ {c} /\ c \in Holders(k)
        /\ \A x \in Runs \ {k} : Holders(x)' = Holders(x)
    BY <1>1, <1>2, <1>3 DEF Holders
  <2>3. Cardinality(Holders(k)') = Cardinality(Holders(k)) - 1 /\ Cardinality(Holders(k)) \in Nat
    <3>1. Holders(k) \in SUBSET Callers
      BY DEF Holders
    <3>2. IsFiniteSet(Holders(k)) /\ Cardinality(Holders(k)) \in Nat
      BY <3>1, SomeCallers
    <3> QED BY <2>2, <3>2, FS_RemoveElement
  <2>4. calls'[k] = calls[k] + 1 /\ \A x \in Runs \ {k} : calls'[x] = calls[x]
    BY <1>6 DEF Types, HistoryTypes
  <2>5. ASSUME NEW x \in Runs
        PROVE  calls'[x] + Cardinality(Holders(x)') + One(approval'[x].state = "APPROVED") <= grants'[x]
    <3>1. calls[x] + Cardinality(Holders(x)) + One(approval[x].state = "APPROVED") <= grants[x]
      BY DEF Backed, Covered
    <3>2. CASE x = k
      <4>1. calls[k] \in Nat /\ grants[k] \in Nat /\ One(approval[k].state = "APPROVED") \in Nat
        BY <1>6 DEF Types, HistoryTypes, One
      <4> QED BY <1>1, <2>3, <2>4, <3>1, <3>2, <4>1
    <3>3. CASE x # k
      BY <1>1, <2>2, <2>4, <3>1, <3>3
    <3> QED BY <3>2, <3>3
  <2>6. Covered'
    BY <2>5 DEF Covered
  <2> QED BY <2>1, <2>6 DEF Backed
<1>7. bare \in BOOLEAN /\ (UNCHANGED calls \/ (k \in Runs /\ calls' = [calls EXCEPT ![k] = @ + 1]))
  BY DEF Call, Types, HistoryTypes
<1>8. \/ UNCHANGED <<calls, bare>>
      \/ k \notin Runs /\ calls' = calls
      \/ k \in Runs /\ bare' = bare /\ calls' = [calls EXCEPT ![k] = @ + 1]
  BY <1>7 DEF Call
<1> QED BY <1>4, <1>5, <1>6, <1>8

\* A verdict grants an approval anew, whatever became of it, or opens none.
LEMMA AnswerBacked ==
  ASSUME Types, Backed, NEW r \in Runs, NEW s \in {"APPROVED", "DENIED", "EXPIRED"}, Answer(r, s)
  PROVE  Backed'
<1>1. /\ approval' = [approval EXCEPT ![r].state = s]
      /\ UNCHANGED <<thread, calls, bare, gate, lifted>>
  BY DEF Answer, history
<1>2. approval[r] \in Asks /\ \A x \in Runs \ {r} : approval'[x] = approval[x]
  BY <1>1 DEF Answer, NoAsk, Types, BookTypes
<1>3. approval'[r].state = s
  BY <1>1, <1>2 DEF Types, BookTypes, Asks
<1>4. CASE s # "APPROVED"
  <2>1. grants' = grants
    BY <1>4 DEF Answer
  <2> QED BY <1>1, <1>2, <1>3, <1>4, <2>1, AsideBacked DEF Aside
<1>5. CASE s = "APPROVED"
  <2>1. grants'[r] = grants[r] + 1 /\ \A x \in Runs \ {r} : grants'[x] = grants[x]
    BY <1>5 DEF Answer, Types, HistoryTypes
  <2>2. ASSUME NEW x \in Runs
        PROVE  calls'[x] + Cardinality(Holders(x)') + One(approval'[x].state = "APPROVED") <= grants'[x]
    <3>1. calls[x] + Cardinality(Holders(x)) + One(approval[x].state = "APPROVED") <= grants[x]
      BY DEF Backed, Covered
    <3>2. Holders(x)' = Holders(x)
      BY <1>1 DEF Holders
    <3>3. CASE x = r
      <4>1. Cardinality(Holders(r)) \in Nat
        <5>1. Holders(r) \in SUBSET Callers
          BY DEF Holders
        <5> QED BY <5>1, SomeCallers
      <4>2. /\ calls[r] \in Nat /\ grants[r] \in Nat
            /\ One(approval[r].state = "APPROVED") \in 0 .. 1 /\ One(approval'[r].state = "APPROVED") \in 0 .. 1
        BY DEF Types, HistoryTypes, One
      <4> QED BY <1>1, <2>1, <3>1, <3>2, <3>3, <4>1, <4>2
    <3>4. CASE x # r
      BY <1>1, <1>2, <2>1, <3>1, <3>2, <3>4
    <3> QED BY <3>3, <3>4
  <2>3. Covered'
    BY <2>2 DEF Covered
  <2>4. Unguarded'
    BY <1>1 DEF Backed, Unguarded
  <2> QED BY <2>3, <2>4 DEF Backed
<1> QED BY <1>4, <1>5

(* Every step keeps the calls backed. *)
LEMMA BackedStep ==
  ASSUME Types, Backed, [Next]_vars PROVE Backed'
<1>0. Callers \subseteq Threads /\ Poller \in Threads /\ NoMail \in Mails
  BY DEF Threads, Mails
<1>1. ASSUME NEW t \in Threads, NEW a \in Autos, NEW r \in Runs \cup {"none"}, NEW m \in Mails,
             Begin(t, a, r, m), UNCHANGED <<approval, calls, bare, gate, grants, lifted>>
      PROVE  Backed'
  <2> DEFINE step == [pc |-> "acting", auto |-> a, run |-> r, mail |-> m]
  <2>1. step.pc # "calling"
    OBVIOUS
  <2>2. Moves(t, step)
    BY <1>1, FiringBegins DEF Types
  <2> HIDE DEF step
  <2> QED BY <1>1, <2>1, <2>2, MovesAside, AsideBacked
<1>2. ASSUME NEW a \in Autos, NEW r \in Runs \cup {"none"}, PollCron(a, r) \/ \E c \in Callers : Fire(c, a, r)
      PROVE  Backed'
  <2>1. UNCHANGED <<approval, calls, bare, gate, grants, lifted>>
    BY <1>2 DEF PollCron, Fire, history, ledger
  <2>2. CASE UNCHANGED thread
    BY <2>1, <2>2, AsideBacked DEF Aside
  <2> QED BY <1>0, <1>1, <1>2, <2>1, <2>2 DEF PollCron, Fire
<1>3. ASSUME NEW r \in Runs \cup {"none"}, Examine(r) PROVE Backed'
  <2>1. UNCHANGED <<approval, calls, bare, gate, grants, lifted>>
    BY <1>3 DEF Examine, history, ledger
  <2>2. CASE UNCHANGED thread
    BY <2>1, <2>2, AsideBacked DEF Aside
  <2>3. CASE Begin(Poller, check.auto, r, Head(check.left).mail)
    <3>1. check \in Checks /\ check.left # <<>>
      BY <1>3 DEF Types, BookTypes, Examine, Holding
    <3>2. check.auto \in Mail /\ check.left \in Seq(Entries)
      BY <3>1 DEF Checks
    <3>3. Head(check.left) \in Entries
      BY <3>1, <3>2
    <3>4. check.auto \in Autos /\ Head(check.left).mail \in Mails
      BY <3>2, <3>3 DEF Mail, Entries, Mails
    <3> QED BY <1>0, <1>1, <2>1, <2>3, <3>4
  <2> QED BY <1>3, <2>2, <2>3 DEF Examine
<1>4. ASSUME NEW t \in Threads, Act(t) PROVE Backed'
  <2>1. /\ thread[t] \in Firing /\ UNCHANGED <<calls, bare, gate, grants, lifted>>
        /\ \/ approval' = approval
           \/ approval' = [approval EXCEPT ![thread[t].run] = [state |-> "PENDING", auto |-> thread[t].auto]]
    BY <1>4, ActionEnds DEF Types
  <2>2. PICK pc \in {"acted", "failed"} : Moves(t, [thread[t] EXCEPT !.pc = pc])
    BY <1>4, ActionEnds DEF Types
  <2>3. \A c \in Callers : thread'[c].pc = "calling" => thread'[c] = thread[c]
    BY <1>0, <2>1, <2>2 DEF Moves, Firing
  <2>4. \A k \in Runs : approval'[k].state = "APPROVED" => approval[k].state = "APPROVED"
    BY <2>1 DEF Types, BookTypes
  <2> QED BY <2>1, <2>3, <2>4, AsideBacked DEF Aside
<1>5. ASSUME NEW t \in Threads, Update(t) PROVE Backed'
  <2>1. UNCHANGED <<approval, calls, bare, gate, grants, lifted>>
    BY <1>5 DEF Update, history, ledger
  <2>2. [thread[t] EXCEPT !.pc = "parking"].pc # "calling" /\ Idle.pc # "calling"
    BY <1>5, FiringEnds DEF Types, Firing, Idle
  <2> QED BY <1>5, <2>1, <2>2, FiringEnds, MovesAside, AsideBacked DEF Types
<1>6. ASSUME NEW t \in Threads, Park(t) \/ \E x \in Runs : Complete(t, x) PROVE Backed'
  <2>1. UNCHANGED <<approval, calls, bare, gate, grants, lifted>> /\ Await(t, Idle)
    BY <1>6 DEF Park, Complete, history, ledger
  <2>2. Moves(t, Idle) /\ Idle.pc # "calling"
    BY <2>1, StepInto DEF Types, Steps, Idle
  <2> QED BY <2>1, <2>2, MovesAside, AsideBacked
<1>7. ASSUME NEW c \in Callers, NEW r \in Runs, NEW k \in Runs \cup {"none"}, Execute(c, r, k)
      PROVE  Backed'
  <2> DEFINE step == [pc |-> "consuming", auto |-> log[r].auto, run |-> "none", of |-> r, with |-> k]
  <2>1. Moves(c, step) /\ c \in Threads /\ UNCHANGED <<approval, calls, bare, gate, grants, lifted>>
    BY <1>7, ExecutionBegins DEF Types, Execute, history, ledger
  <2>2. step.pc # "calling"
    OBVIOUS
  <2> HIDE DEF step
  <2> QED BY <2>1, <2>2, MovesAside, AsideBacked
<1>8. ASSUME NEW to \in BOOLEAN, SetGate(to) PROVE Backed'
  <2>1. UNCHANGED <<thread, approval, calls, bare, grants>> /\ gate' = to /\ lifted' = (lifted \/ ~to)
    BY <1>8 DEF SetGate, history
  <2>2. \A k \in Runs : Holders(k)' = Holders(k)
    BY <2>1 DEF Holders
  <2>3. Covered'
    BY <2>1, <2>2 DEF Backed, Covered
  <2>4. Unguarded'
    BY <2>1 DEF Backed, Unguarded
  <2> QED BY <2>3, <2>4 DEF Backed
<1>9. CASE Restart
  <2>1. UNCHANGED <<approval, calls, bare, gate, grants, lifted>>
    BY <1>9 DEF Restart, ledger
  <2>2. \A c \in Callers : thread'[c].pc # "calling"
    BY <1>0, <1>9 DEF Restart, Idle
  <2> QED BY <2>1, <2>2, AsideBacked DEF Aside
<1>10. ASSUME \/ \E a \in Autos : Create(a) \/ Delete(a) \/ FallDue(a) \/ Fetch(a)
              \/ \E a \in Autos, to \in {"on", "paused"} : SetEnabled(a, to)
              \/ Tick \/ Look \/ Save
              \/ \E m \in Messages : Arrive(m)
              \/ \E i \in DOMAIN box : Expunge(i)
              \/ ExpungeOld \/ UNCHANGED vars
       PROVE  Backed'
  <2>1. UNCHANGED <<thread, approval, calls, bare, gate, grants, lifted>>
    BY <1>10 DEF Create, Delete, FallDue, Fetch, SetEnabled, Tick, Look, Save, Arrive, Expunge,
                 ExpungeOld, history, ledger, vars
  <2> QED BY <2>1, AsideBacked DEF Aside
<1> QED BY <1>0, <1>2, <1>3, <1>4, <1>5, <1>6, <1>7, <1>8, <1>9, <1>10,
           ConsumeBacked, CallBacked, AnswerBacked DEF Next

-----------------------------------------------------------------------------
(* Cron.                                                                    *)

\* What a step may do to what the poller owes for an automation.
LEMMA OwedKept ==
  ASSUME Types, CronOwed,
         UNCHANGED <<ticks, crashes>>,
         todo' \subseteq todo,
         \A a \in Cron : auto'[a].due /\ ~Polling(a)' => auto[a].due /\ ~Polling(a)
  PROVE  CronOwed'
BY DEF CronOwed

LEMMA CronStep ==
  ASSUME Types, CronOwed, [Next]_vars PROVE CronOwed'
<1>0. /\ auto \in [Autos -> AutoStates] /\ thread \in [Threads -> Steps] /\ Poller \in Threads
      /\ Cron \subseteq Autos /\ Callers \subseteq Threads /\ Poller \notin Callers
      /\ ticks \in [Autos -> [due : Nat, polled : Nat]] /\ crashes \in [all : Nat, checks : Nat]
  BY AutomationsAssumption DEF Types, BookTypes, ThreadTypes, HistoryTypes, AutoStates, Threads, Steps
<1>1. ASSUME NEW a \in Autos, Create(a) \/ Delete(a) PROVE CronOwed'
  <2>1. UNCHANGED <<thread, todo, ticks, crashes>>
    BY <1>1 DEF Create, Delete, history
  <2>2. \A b \in Autos : auto'[b].due => auto[b].due
    <3>1. CASE Create(a)
      BY <1>0, <3>1 DEF Create, AutoStates
    <3>2. CASE Delete(a)
      BY <1>0, <3>2 DEF Delete, AutoStates
    <3> QED BY <1>1, <3>1, <3>2
  <2> QED BY <1>0, <2>1, <2>2, OwedKept DEF Polling
<1>2. ASSUME NEW a \in Autos, NEW to \in {"on", "paused"}, SetEnabled(a, to) PROVE CronOwed'
  <2>1. UNCHANGED <<thread, todo, ticks, crashes>>
    BY <1>2 DEF SetEnabled, history
  <2>2. \A b \in Autos : auto'[b].due => auto[b].due
    <3> DEFINE d == auto[a].due /\ to = "paused"
    <3>1. d \in BOOLEAN /\ (d => auto[a].due)
      OBVIOUS
    <3>2. auto' = [auto EXCEPT ![a].state = to, ![a].due = d]
      BY <1>2 DEF SetEnabled
    <3> HIDE DEF d
    <3> QED BY <1>0, <3>1, <3>2 DEF AutoStates
  <2> QED BY <1>0, <2>1, <2>2, OwedKept DEF Polling
<1>3. ASSUME NEW a \in Autos, FallDue(a) PROVE CronOwed'
  <2>1. /\ UNCHANGED <<thread, todo, crashes>>
        /\ ticks'[a].due = ticks[a].due + 1 /\ ticks'[a].polled = ticks[a].polled
        /\ \A b \in Autos \ {a} : ticks'[b] = ticks[b] /\ auto'[b] = auto[b]
    BY <1>0, <1>3 DEF FallDue
  <2>2. ASSUME NEW b \in Cron
        PROVE  /\ ticks'[b].polled <= ticks'[b].due + crashes'.all
               /\ b \in todo' \/ (auto'[b].due /\ ~Polling(b)') => ticks'[b].polled < ticks'[b].due + crashes'.all
    <3>1. ticks[b].polled \in Nat /\ ticks[b].due \in Nat /\ crashes.all \in Nat /\ b \in Autos
      BY <1>0
    <3>2. CASE b = a
      BY <2>1, <3>1, <3>2 DEF CronOwed
    <3>3. CASE b # a
      BY <1>0, <2>1, <3>1, <3>3 DEF CronOwed, Polling
    <3> QED BY <3>2, <3>3
  <2> QED BY <2>2 DEF CronOwed
<1>4. ASSUME NEW a \in Autos, Fetch(a) PROVE CronOwed'
  <2>1. UNCHANGED <<thread, auto, ticks, crashes>> /\ todo' \subseteq todo
    BY <1>4 DEF Fetch, history
  <2> QED BY <1>0, <2>1, OwedKept DEF Polling
<1>5. ASSUME NEW a \in Autos, NEW r \in Runs \cup {"none"}, PollCron(a, r) PROVE CronOwed'
  <2>1. CASE ~On(a) /\ UNCHANGED <<thread, ticks>>
    BY <1>0, <1>5, <2>1, OwedKept DEF PollCron, Polling
  <2>2. CASE Begin(Poller, a, r, NoMail) /\ ticks' = [ticks EXCEPT ![a].polled = @ + 1]
    <3>1. /\ thread'[Poller] = [pc |-> "acting", auto |-> a, run |-> r, mail |-> NoMail]
          /\ thread[Poller] = Idle
      BY <1>0, <2>2, FiringBegins DEF Types, Moves, Mails
    <3>2. Polling(a)' /\ \A b \in Autos : ~Polling(b)
      BY <3>1 DEF Polling, Idle
    <3>3. /\ UNCHANGED <<auto, crashes>> /\ a \in todo /\ todo' = todo \ {a}
          /\ ticks'[a].due = ticks[a].due /\ ticks'[a].polled = ticks[a].polled + 1
          /\ \A b \in Autos \ {a} : ticks'[b] = ticks[b]
      BY <1>0, <1>5, <2>2 DEF PollCron
    <3>4. ASSUME NEW b \in Cron
          PROVE  /\ ticks'[b].polled <= ticks'[b].due + crashes'.all
                 /\ b \in todo' \/ (auto'[b].due /\ ~Polling(b)') => ticks'[b].polled < ticks'[b].due + crashes'.all
      <4>1. ticks[b].polled \in Nat /\ ticks[b].due \in Nat /\ crashes.all \in Nat /\ b \in Autos
        BY <1>0
      <4>2. CASE b = a
        BY <3>2, <3>3, <4>1, <4>2 DEF CronOwed
      <4>3. CASE b # a
        BY <3>2, <3>3, <4>1, <4>3 DEF CronOwed
      <4> QED BY <4>2, <4>3
    <3> QED BY <3>4 DEF CronOwed
  <2> QED BY <1>5, <2>1, <2>2 DEF PollCron
<1>6. ASSUME NEW t \in Threads, Update(t) PROVE CronOwed'
  <2>1. /\ thread[t].auto \in Autos /\ auto' = [auto EXCEPT ![thread[t].auto].due = FALSE]
        /\ UNCHANGED <<todo, ticks, crashes>>
        /\ \A u \in Threads \ {t} : thread'[u] = thread[u]
    BY <1>6, FiringEnds DEF Types, Update, NextDue, Firing, Moves, history
  <2>2. ASSUME NEW b \in Cron, auto'[b].due, ~Polling(b)' PROVE auto[b].due /\ ~Polling(b)
    <3>1. b # thread[t].auto /\ auto'[b] = auto[b]
      BY <1>0, <2>1, <2>2 DEF AutoStates
    <3> QED BY <1>0, <2>1, <2>2, <3>1 DEF Polling
  <2> QED BY <2>1, <2>2, OwedKept
<1>7. ASSUME NEW t \in Threads, Act(t) PROVE CronOwed'
  <2>1. PICK pc \in {"acted", "failed"} : Moves(t, [thread[t] EXCEPT !.pc = pc])
    BY <1>7, ActionEnds DEF Types
  <2>2. thread[t] \in Firing /\ thread[t].pc = "acting" /\ UNCHANGED <<engine, ticks, crashes>>
    BY <1>7, ActionEnds DEF Types
  <2>3. /\ thread'[t].pc \in {"acted", "failed"} /\ thread'[t].auto = thread[t].auto
        /\ \A u \in Threads \ {t} : thread'[u] = thread[u]
    BY <2>1, <2>2 DEF Moves, Firing
  <2>4. \A b \in Cron : Polling(b)' <=> Polling(b)
    BY <1>0, <2>2, <2>3 DEF Polling
  <2> QED BY <2>2, <2>4, OwedKept DEF engine
<1>8. ASSUME NEW t \in Threads, Park(t) PROVE CronOwed'
  <2>1. /\ thread[t].pc = "parking" /\ UNCHANGED <<engine, ticks, crashes>>
        /\ \A u \in Threads \ {t} : thread'[u] = thread[u]
    BY <1>0, <1>8 DEF Park, Await, history
  <2>2. \A b \in Cron : Polling(b) => Polling(b)'
    BY <1>0, <2>1 DEF Polling
  <2> QED BY <2>1, <2>2, OwedKept DEF engine
<1>9. ASSUME NEW c \in Callers,
             \/ \E a \in Autos, r \in Runs \cup {"none"} : Fire(c, a, r)
             \/ \E r \in Runs, k \in Runs \cup {"none"} : Execute(c, r, k)
             \/ Consume(c) \/ Call(c) \/ \E x \in Runs : Complete(c, x)
      PROVE  CronOwed'
  <2>1. thread'[Poller] = thread[Poller] /\ UNCHANGED <<engine, ticks, crashes>>
    BY <1>0, <1>9 DEF Fire, Begin, Execute, Consume, Call, Complete, Await, history, engine
  <2> QED BY <2>1, OwedKept DEF engine, Polling
<1>10. CASE Tick
  <2>1. UNCHANGED <<thread, auto, ticks, crashes>> /\ thread[Poller] = Idle
        /\ \A b \in Cron : b \in todo' => auto[b].due
    BY <1>10 DEF Tick, history
  <2>2. \A b \in Cron : ~Polling(b)
    BY <2>1 DEF Polling, Idle
  <2>3. ASSUME NEW b \in Cron
        PROVE  /\ ticks[b].polled <= ticks[b].due + crashes.all
               /\ auto[b].due => ticks[b].polled < ticks[b].due + crashes.all
    BY <2>2 DEF CronOwed
  <2> QED BY <2>1, <2>3 DEF CronOwed
<1>11. CASE Save
  <2>1. check \in Checks /\ auto' = [auto EXCEPT ![check.auto].seen = Trimmed(check.seen)]
    BY <1>11 DEF Save, Holding, Types, BookTypes
  <2>2. \A b \in Autos : auto'[b].due = auto[b].due
    BY <1>0, <2>1 DEF AutoStates
  <2>3. UNCHANGED <<thread, todo, ticks, crashes>>
    BY <1>11 DEF Save, history
  <2> QED BY <1>0, <2>2, <2>3, OwedKept DEF Polling
<1>12. ASSUME NEW r \in Runs \cup {"none"}, Examine(r) PROVE CronOwed'
  <2>1. UNCHANGED <<auto, todo, ticks, crashes>>
    BY <1>12 DEF Examine, history
  <2>2. \A b \in Cron : Polling(b) => Polling(b)'
    <3>1. thread[Poller] = Idle
      BY <1>12 DEF Examine
    <3> QED BY <3>1 DEF Polling, Idle
  <2> QED BY <2>1, <2>2, OwedKept
<1>13. CASE Restart
  <2>1. crashes'.all = crashes.all + 1 /\ UNCHANGED ticks
    BY <1>13 DEF Restart
  <2>2. ASSUME NEW b \in Cron PROVE ticks'[b].polled < ticks'[b].due + crashes'.all
    <3>1. ticks[b].polled \in Nat /\ ticks[b].due \in Nat /\ crashes.all \in Nat
      BY <1>0
    <3> QED BY <2>1, <3>1 DEF CronOwed
  <2>3. \A b \in Cron : ticks'[b].polled \in Int /\ (ticks'[b].due + crashes'.all) \in Int
    BY <1>0, <2>1
  <2> QED BY <2>2, <2>3 DEF CronOwed
<1>14. ASSUME \/ \E r \in Runs, s \in {"APPROVED", "DENIED", "EXPIRED"} : Answer(r, s)
              \/ \E to \in BOOLEAN : SetGate(to)
              \/ Look
              \/ \E m \in Messages : Arrive(m)
              \/ \E i \in DOMAIN box : Expunge(i)
              \/ ExpungeOld \/ UNCHANGED vars
       PROVE  CronOwed'
  <2>1. UNCHANGED <<thread, auto, todo, ticks, crashes>>
    BY <1>14 DEF Answer, SetGate, Look, Arrive, Expunge, ExpungeOld, engine, history, vars
  <2> QED BY <2>1, OwedKept DEF Polling
<1> QED BY <1>1, <1>2, <1>3, <1>4, <1>5, <1>6, <1>7, <1>8, <1>9, <1>10, <1>11, <1>12, <1>13, <1>14 DEF Next

-----------------------------------------------------------------------------
(* The account of what a message may still fire.                            *)

LEMMA OneType == \A b : One(b) \in {0, 1}
BY DEF One

(* What the types say of numbers, counts and the mailbox. *)
LEMMA MailNumbers ==
  ASSUME Types
  PROVE  /\ Mail \subseteq Autos
         /\ first \in Nat /\ 1 <= first /\ first <= FirstNumber /\ FirstNumber \in Nat
         /\ FetchMax \in Nat /\ MaxSeen \in Nat
         /\ Cardinality(came) \in Nat /\ Top \in Int
         /\ crashes.checks \in Nat /\ Allowed \in Nat /\ Allowed >= 1
         /\ \A a \in Mail, m \in Messages : fired[a][m] \in Nat /\ Firings(a, m) \in Nat
         /\ check \in {NoCheck} \cup Checks /\ (check \in Checks => check # NoCheck)
         /\ box \in Seq(came) /\ Len(box) \in Nat /\ DOMAIN box = 1 .. Len(box)
         /\ Len(box) <= Cardinality(came) /\ came \subseteq Messages
<1>1. Mail \subseteq Autos
  BY DEF Mail
<1>2. first \in Nat /\ 1 <= first /\ first <= FirstNumber /\ FirstNumber \in Nat
      /\ FetchMax \in Nat /\ MaxSeen \in Nat
  BY AutomationsAssumption DEF Types, MailTypes
<1>3. Cardinality(came) \in Nat /\ box \in Seq(came) /\ Len(box) <= Cardinality(came) /\ came \subseteq Messages
  BY Finite DEF Types, MailTypes
<1>4. crashes.checks \in Nat
  BY DEF Types, HistoryTypes
<1>5. Allowed \in Nat /\ Allowed >= 1 /\ Top \in Int
  BY <1>2, <1>3, <1>4 DEF Allowed, Top
<1>6. ASSUME NEW a \in Mail, NEW m \in Messages PROVE fired[a][m] \in Nat /\ Firings(a, m) \in Nat
  <2>1. fired[a][m] \in Nat
    BY <1>1 DEF Types, HistoryTypes
  <2> QED BY <2>1 DEF Firings, One
<1>7. check \in {NoCheck} \cup Checks /\ (check \in Checks => check # NoCheck)
  <2>1. check \in Checks => check # NoCheck
    BY DEF Checks, NoCheck
  <2> QED BY <2>1 DEF Types, BookTypes
<1>8. Len(box) \in Nat /\ DOMAIN box = 1 .. Len(box)
  BY <1>3
<1> QED BY <1>1, <1>2, <1>3, <1>4, <1>5, <1>6, <1>7, <1>8

-----------------------------------------------------------------------------
(* Steps beside the mailbox and the check: no message fires that was not firing. *)
LEMMA MailAside ==
  ASSUME Types, Types', MailInv, UNCHANGED <<box, first, came, check, crashes>>,
         \A a \in Mail : \/ /\ auto'[a].seen = auto[a].seen
                            /\ auto'[a].state = "gone" <=> auto[a].state = "gone"
                         \/ auto'[a].state = "gone" /\ auto'[a].seen = {},
         \A a \in Mail, m \in Messages : Firings(a, m)' <= Firings(a, m)
  PROVE  MailInv'
<1>1. OnceInBox' /\ OnceInCheck'
  BY DEF MailInv, OnceInBox, OnceInCheck
<1>2. /\ check # NoCheck => check.auto \in Mail
      /\ Mail \subseteq Autos /\ Allowed' = Allowed /\ Allowed \in Nat
      /\ \A a \in Mail, m \in Messages : Firings(a, m) \in Nat
      /\ Top' = Top
  BY MailNumbers DEF Checks, Allowed, Top
<1>3. \A a \in Mail, m \in Messages : Firings(a, m)' \in Nat
  <2>1. ASSUME NEW a \in Mail, NEW m \in Messages PROVE Firings(a, m)' \in Nat
    <3>1. fired'[a][m] \in Nat
      BY <1>2 DEF Types, HistoryTypes
    <3> QED BY <3>1 DEF Firings, One
  <2> QED BY <2>1
<1>4. check # NoCheck /\ (check.held \/ auto'[check.auto].state # "gone") =>
        /\ check.held \/ auto[check.auto].state # "gone"
        /\ Known' = Known
  BY <1>2 DEF Known
<1>5. Numbered'
  <2>1. \A a \in Mail : auto'[a].seen \subseteq first .. Top
    BY DEF MailInv, Numbered
  <2>2. check # NoCheck => Known' \subseteq first .. Top
    BY <1>2, <2>1 DEF MailInv, Numbered, Known
  <2> QED BY <1>2, <2>1, <2>2 DEF MailInv, Numbered
<1>7. SavedKnows'
  <2> SUFFICES ASSUME NEW a \in Mail, NEW m \in Messages, auto'[a].state # "gone", ~(Holding' /\ check'.auto = a)
               PROVE  Firings(a, m)' + One(Unknown(m, auto[a].seen)') <= Allowed'
    BY DEF SavedKnows
  <2>1. auto'[a].seen = auto[a].seen /\ auto[a].state # "gone" /\ ~(Holding /\ check.auto = a)
    BY DEF Holding
  <2>2. Firings(a, m) + One(Unknown(m, auto[a].seen)) <= Allowed
    BY <2>1 DEF MailInv, SavedKnows
  <2>3. Unknown(m, auto[a].seen)' = Unknown(m, auto[a].seen)
    BY <2>1 DEF Unknown
  <2>4. Firings(a, m)' <= Firings(a, m) /\ Firings(a, m)' \in Nat /\ Firings(a, m) \in Nat
    BY <1>2, <1>3
  <2> QED BY <1>2, <2>2, <2>3, <2>4, OneType
<1>8. CheckKnows'
  <2> SUFFICES ASSUME check # NoCheck, check.held \/ auto'[check.auto].state # "gone", NEW m \in Messages
               PROVE  Firings(check.auto, m)' + One(Coming(m, check.left, Known)')
                        + One(Unknown(m, Known \cup InHand(check.left))') <= Allowed'
    BY DEF CheckKnows
  <2>1. Firings(check.auto, m) + One(Coming(m, check.left, Known))
          + One(Unknown(m, Known \cup InHand(check.left))) <= Allowed
    BY <1>4 DEF MailInv, CheckKnows
  <2>2. Known' = Known
    BY <1>4
  <2>3. Coming(m, check.left, Known)' = Coming(m, check.left, Known)
    BY <2>2 DEF Coming
  <2>4. Unknown(m, Known \cup InHand(check.left))' = Unknown(m, Known \cup InHand(check.left))
    BY <2>2 DEF Unknown, InHand
  <2>5. /\ Firings(check.auto, m)' <= Firings(check.auto, m) /\ Firings(check.auto, m)' \in Nat
        /\ Firings(check.auto, m) \in Nat
    <3>1. ASSUME NEW a \in Mail
          PROVE Firings(a, m)' <= Firings(a, m) /\ Firings(a, m)' \in Nat /\ Firings(a, m) \in Nat
      BY <1>2, <1>3
    <3>2. check.auto \in Mail /\ check' = check
      BY <1>2
    <3>3. Firings(check.auto, m)' = fired'[check.auto][m] + One(InFiring(check.auto, m)')
      BY <3>2 DEF Firings, InFiring
    <3> QED BY <3>1, <3>2, <3>3 DEF Firings, InFiring
  <2> QED BY <1>2, <2>1, <2>3, <2>4, <2>5, OneType
<1>9. Explained'
  <2> SUFFICES ASSUME NEW a \in Mail, NEW m \in Messages PROVE Firings(a, m)' <= Allowed'
    BY DEF Explained
  <2>1. Firings(a, m) <= Allowed
    BY DEF MailInv, Explained
  <2> QED BY <1>2, <1>3, <2>1
<1> QED BY <1>1, <1>5, <1>7, <1>8, <1>9 DEF MailInv

(* What a check that ends has noted is all that is kept. *)
LEMMA TrimmedKeepsAll ==
  ASSUME NEW S \in SUBSET Nat, IsFiniteSet(S), Cardinality(S) <= MaxSeen
  PROVE  Trimmed(S) = S
<1> SUFFICES ASSUME NEW n \in S PROVE Cardinality({x \in S : TextBefore(n, x)}) < MaxSeen
  BY DEF Trimmed
<1> DEFINE after == {x \in S : TextBefore(n, x)}
<1>1. n \notin after
  BY TextRanked
<1>2. after \in SUBSET S /\ after # S
  BY <1>1
<1> HIDE DEF after
<1>3. IsFiniteSet(after) /\ Cardinality(after) < Cardinality(S)
  <2>1. /\ IsFiniteSet(after) /\ Cardinality(after) <= Cardinality(S)
        /\ Cardinality(after) = Cardinality(S) => after = S
    BY <1>2, FS_Subset
  <2>2. Cardinality(after) \in Nat /\ Cardinality(S) \in Nat
    BY <2>1, FS_CardinalityType
  <2> QED BY <1>2, <2>1, <2>2
<1>4. Cardinality(after) \in Nat /\ Cardinality(S) \in Nat /\ MaxSeen \in Nat
  BY <1>3, FS_CardinalityType, AutomationsAssumption
<1> QED BY <1>3, <1>4 DEF after

(* A fetch that returns all there is: the newest first, each under its number. *)
LEMMA FetchedAll ==
  ASSUME Types, Cardinality(came) <= FetchMax
  PROVE  /\ DOMAIN Fetched = 1 .. Len(box)
         /\ \A i \in 1 .. Len(box) : /\ Fetched[i].number = first + Len(box) - i
                                     /\ Fetched[i].mail = box[Len(box) + 1 - i]
<1>1. Len(box) \in Nat /\ FetchMax \in Nat /\ Cardinality(came) \in Nat /\ Len(box) <= Cardinality(came)
  BY MailNumbers
<1>2. Len(box) - Later(0, Len(box) - FetchMax) = Len(box)
  BY <1>1 DEF Later
<1> QED BY <1>2 DEF Fetched

(* The mailbox moves: mail gets known at best, or what is fired again has one more       *)
(* explanation.                                                                          *)
LEMMA BoxMoves ==
  ASSUME Types,
         \/ \E m \in Messages : Arrive(m)
         \/ \E i \in DOMAIN box : Expunge(i)
         \/ ExpungeOld
  PROVE  /\ OnceInBox => OnceInBox'
         /\ came \subseteq came' /\ first' <= first /\ first' \in Int
         /\ Top' \in Int /\ Top <= Top'
         /\ \/ /\ Allowed' = Allowed
               /\ \A m \in Messages : \A known : Unknown(m, known)' => Unknown(m, known)
            \/ Allowed' = Allowed + 1
<1>0. /\ first \in Nat /\ FirstNumber \in Nat /\ Cardinality(came) \in Nat /\ crashes.checks \in Nat
      /\ box \in Seq(came) /\ Len(box) \in Nat /\ DOMAIN box = 1 .. Len(box) /\ IsFiniteSet(came)
  BY MailNumbers, Finite DEF Types
<1>1. ASSUME NEW x \in Messages, Arrive(x)
      PROVE  /\ OnceInBox => OnceInBox'
             /\ came \subseteq came' /\ first' = first
             /\ Cardinality(came') = Cardinality(came) + 1 /\ crashes' = crashes
             /\ \A m \in Messages : \A known : Unknown(m, known)' => Unknown(m, known)
  <2>1. /\ came' = came \cup {x} /\ x \notin came /\ first' = first /\ crashes' = crashes
        /\ box' = Append(box, x)
    BY <1>1 DEF Arrive, history
  <2>2. Cardinality(came') = Cardinality(came) + 1
    BY <1>0, <2>1, FS_AddElement
  <2>3. /\ DOMAIN box' = 1 .. Len(box) + 1 /\ box'[Len(box) + 1] = x
        /\ \A j \in 1 .. Len(box) : box'[j] = box[j] /\ box[j] \in came
    BY <1>0, <2>1
  <2>4. ASSUME OnceInBox, NEW i \in DOMAIN box', NEW j \in DOMAIN box', box'[i] = box'[j] PROVE i = j
    <3>1. i \in 1 .. Len(box) \/ i = Len(box) + 1
      BY <1>0, <2>3
    <3>2. j \in 1 .. Len(box) \/ j = Len(box) + 1
      BY <1>0, <2>3
    <3> QED BY <1>0, <2>1, <2>3, <2>4, <3>1, <3>2 DEF OnceInBox
  <2>5. ASSUME NEW m \in Messages, NEW known, Unknown(m, known)' PROVE Unknown(m, known)
    <3>1. CASE m \notin came
      BY <3>1 DEF Unknown
    <3>2. CASE m \in came
      <4>1. PICK j \in DOMAIN box' : box'[j] = m /\ \E n \in first' .. first' + j - 1 : n \notin known
        BY <2>1, <2>5, <3>2 DEF Unknown
      <4>2. j # Len(box) + 1
        BY <2>1, <2>3, <3>2, <4>1
      <4>3. j \in 1 .. Len(box)
        BY <1>0, <2>3, <4>1, <4>2
      <4> QED BY <1>0, <2>1, <2>3, <4>1, <4>3 DEF Unknown
    <3> QED BY <3>1, <3>2
  <2>6. OnceInBox => OnceInBox'
    BY <2>4 DEF OnceInBox
  <2> QED BY <2>1, <2>2, <2>5, <2>6
<1>2. ASSUME NEW i \in DOMAIN box, Expunge(i)
      PROVE  /\ OnceInBox => OnceInBox'
             /\ came' = came /\ first' = first /\ crashes' = crashes
             /\ \A m \in Messages : \A known : Unknown(m, known)' => Unknown(m, known)
  <2> DEFINE was(j) == IF j < i THEN j ELSE j + 1
  <2>1. /\ came' = came /\ first' = first /\ crashes' = crashes
        /\ box' = SubSeq(box, 1, i - 1) \o SubSeq(box, i + 1, Len(box))
    BY <1>2 DEF Expunge, history
  <2>2. /\ DOMAIN box' = 1 .. Len(box) - 1
        /\ \A j \in 1 .. Len(box) - 1 : box'[j] = box[was(j)]
    <3> DEFINE s == SubSeq(box, 1, i - 1)
               t == SubSeq(box, i + 1, Len(box))
    <3>1. /\ s \in Seq(came) /\ Len(s) = i - 1 /\ \A j \in 1 .. i - 1 : s[j] = box[j]
          /\ i \in 1 .. Len(box)
      BY <1>0
    <3>2. t \in Seq(came) /\ Len(t) = Len(box) - i /\ \A j \in 1 .. Len(box) - i : t[j] = box[j + i]
      <4>1. i + 1 \in Int /\ Len(box) \in Int /\ \A j \in i + 1 .. Len(box) : box[j] \in came
        BY <1>0, <3>1
      <4>2. /\ t \in Seq(came)
            /\ Len(t) = IF i + 1 <= Len(box) THEN Len(box) - (i + 1) + 1 ELSE 0
            /\ \A j \in 1 .. Len(box) - (i + 1) + 1 : t[j] = box[(i + 1) + j - 1]
        BY <4>1, SubSeqProperties
      <4> HIDE DEF t
      <4>3. Len(t) = Len(box) - i /\ Len(box) - (i + 1) + 1 = Len(box) - i
        BY <1>0, <3>1, <4>2
      <4>4. \A j \in 1 .. Len(box) - i : (i + 1) + j - 1 = j + i
        BY <1>0, <3>1
      <4> QED BY <4>2, <4>3, <4>4
    <3>3. box' = s \o t
      BY <2>1
    <3> HIDE DEF s, t
    <3>0. /\ s \o t \in Seq(came) /\ Len(s \o t) = Len(s) + Len(t)
          /\ \A k \in 1 .. Len(s) + Len(t) :
               (s \o t)[k] = IF k <= Len(s) THEN s[k] ELSE t[k - Len(s)]
      BY <3>1, <3>2, ConcatProperties
    <3>4. DOMAIN box' = 1 .. Len(box) - 1
      <4>1. (i - 1) + (Len(box) - i) = Len(box) - 1
        BY <1>0, <3>1
      <4> QED BY <3>0, <3>1, <3>2, <3>3, <4>1
    <3>5. ASSUME NEW j \in 1 .. Len(box) - 1 PROVE box'[j] = box[was(j)]
      <4>1. CASE j < i
        BY <1>0, <3>1, <3>2, <3>3, <4>1
      <4>2. CASE ~(j < i)
        <5>1. box'[j] = t[j - (i - 1)] /\ j - (i - 1) \in 1 .. Len(box) - i
          <6>1. j \in Len(s) + 1 .. Len(s) + Len(t) /\ j - (i - 1) \in 1 .. Len(box) - i
            BY <1>0, <3>1, <3>2, <4>2
          <6>2. (s \o t)[j] = t[j - Len(s)]
            <7>1. Len(s) \in Nat /\ Len(t) \in Nat
              BY <3>1, <3>2
            <7> QED BY <3>0, <6>1, <7>1
          <6> QED BY <3>1, <3>3, <6>1, <6>2
        <5>2. (j - (i - 1)) + i = j + 1
          BY <1>0, <3>1
        <5>3. t[j - (i - 1)] = box[(j - (i - 1)) + i]
          BY <3>2, <5>1
        <5> QED BY <4>2, <5>1, <5>2, <5>3
      <4> QED BY <4>1, <4>2
    <3> QED BY <3>4, <3>5
  <2>3. ASSUME NEW j \in DOMAIN box' PROVE was(j) \in DOMAIN box /\ was(j) >= j /\ j \in Nat /\ was(j) \in Nat
    BY <1>0, <2>2
  <2>4. ASSUME NEW j \in DOMAIN box', NEW k \in DOMAIN box', was(j) = was(k) PROVE j = k
    BY <1>0, <2>2, <2>4
  <2>5. ASSUME NEW j \in DOMAIN box' PROVE box'[j] = box[was(j)]
    BY <2>2
  <2> HIDE DEF was
  <2>6. OnceInBox => OnceInBox'
    <3> SUFFICES ASSUME OnceInBox, NEW j \in DOMAIN box', NEW k \in DOMAIN box', box'[j] = box'[k] PROVE j = k
      BY DEF OnceInBox
    <3>1. box[was(j)] = box[was(k)] /\ was(j) \in DOMAIN box /\ was(k) \in DOMAIN box
      BY <2>3, <2>5
    <3>2. was(j) = was(k)
      BY <3>1 DEF OnceInBox
    <3> QED BY <2>4, <3>2
  <2>7. ASSUME NEW m \in Messages, NEW known, Unknown(m, known)' PROVE Unknown(m, known)
    <3>1. CASE m \notin came
      BY <3>1 DEF Unknown
    <3>2. CASE m \in came
      <4>1. PICK j \in DOMAIN box' : box'[j] = m /\ \E n \in first .. first + j - 1 : n \notin known
        BY <2>1, <2>7, <3>2 DEF Unknown
      <4>2. box[was(j)] = m /\ was(j) \in DOMAIN box
        BY <2>3, <2>5, <4>1
      <4>3. \E n \in first .. first + was(j) - 1 : n \notin known
        BY <1>0, <2>3, <4>1
      <4> QED BY <4>2, <4>3 DEF Unknown
    <3> QED BY <3>1, <3>2
  <2> QED BY <2>1, <2>6, <2>7
<1>3. CASE ExpungeOld
  <2>1. first' = first - 1 /\ UNCHANGED <<box, came, crashes>>
    BY <1>3 DEF ExpungeOld, history
  <2>2. Allowed' = Allowed + 1 /\ Top' = Top /\ Top \in Int
    BY <1>0, <2>1 DEF Allowed, Top
  <2> QED BY <1>0, <2>1, <2>2 DEF OnceInBox
<1>4. CASE \E m \in Messages : Arrive(m)
  <2>1. Allowed' = Allowed /\ Top' \in Int /\ Top <= Top'
    BY <1>0, <1>1, <1>4 DEF Allowed, Top
  <2> QED BY <1>0, <1>1, <1>4, <2>1
<1>5. CASE \E i \in DOMAIN box : Expunge(i)
  <2>1. Allowed' = Allowed /\ Top' \in Int /\ Top <= Top'
    BY <1>0, <1>2, <1>5 DEF Allowed, Top
  <2> QED BY <1>0, <1>2, <1>5, <2>1
<1> QED BY <1>3, <1>4, <1>5

(* A move of the mailbox keeps the account. *)
LEMMA BoxStep ==
  ASSUME Types, MailInv,
         \/ \E m \in Messages : Arrive(m)
         \/ \E i \in DOMAIN box : Expunge(i)
         \/ ExpungeOld
  PROVE  MailInv'
<1>1. UNCHANGED <<auto, check, thread, fired, crashes>>
  BY DEF Arrive, Expunge, ExpungeOld, engine, history
<1>2. /\ OnceInBox' /\ came \subseteq came' /\ first' <= first /\ first' \in Int
      /\ Top' \in Int /\ Top <= Top' /\ first \in Nat /\ Top \in Int /\ Allowed \in Nat
      /\ \A a \in Mail, m \in Messages : Firings(a, m) \in Nat
      /\ check \in {NoCheck} \cup Checks
  BY BoxMoves, MailNumbers DEF MailInv
<1>3. /\ \A a, m : Firings(a, m)' = Firings(a, m)
      /\ Known' = Known /\ OnceInCheck'
  BY <1>1 DEF Firings, InFiring, Known, OnceInCheck, MailInv
<1>4. Numbered'
  <2>1. first .. Top \subseteq first' .. Top'
    BY <1>2
  <2>2. \A a \in Mail : auto'[a].seen \subseteq first' .. Top'
    BY <1>1, <2>1 DEF MailInv, Numbered
  <2>3. check' # NoCheck => Known' \subseteq first' .. Top' /\ InHand(check'.left) \subseteq first' .. Top'
    BY <1>1, <1>3, <2>1 DEF MailInv, Numbered
  <2> QED BY <1>1, <2>2, <2>3 DEF Numbered, InHand
<1>5. ASSUME NEW f \in Nat, NEW m \in Messages, NEW known, f + One(Unknown(m, known)) <= Allowed
      PROVE  f + One(Unknown(m, known)') <= Allowed'
  <2>1. \/ Allowed' = Allowed /\ (Unknown(m, known)' => Unknown(m, known))
        \/ Allowed' = Allowed + 1
    BY BoxMoves
  <2>2. CASE Allowed' = Allowed /\ (Unknown(m, known)' => Unknown(m, known))
    BY <1>2, <1>5, <2>2 DEF One
  <2>3. CASE Allowed' = Allowed + 1
    BY <1>2, <1>5, <2>3 DEF One
  <2> QED BY <2>1, <2>2, <2>3
<1>6. Allowed' \in Nat /\ Allowed <= Allowed'
  <2>1. Allowed' = Allowed \/ Allowed' = Allowed + 1
    BY BoxMoves
  <2> QED BY <1>2, <2>1
<1>7. SavedKnows'
  <2> SUFFICES ASSUME NEW a \in Mail, NEW m \in Messages, auto[a].state # "gone", ~(Holding /\ check.auto = a)
               PROVE  Firings(a, m) + One(Unknown(m, auto[a].seen)') <= Allowed'
    <3>1. ASSUME NEW a \in Mail, NEW m \in Messages
          PROVE One(Unknown(m, auto[a].seen))' = One(Unknown(m, auto[a].seen)')
      OBVIOUS
    <3> QED BY <1>1, <1>3, <3>1 DEF SavedKnows, Holding
  <2>1. Firings(a, m) + One(Unknown(m, auto[a].seen)) <= Allowed
    BY DEF MailInv, SavedKnows
  <2>2. ASSUME NEW known, known = auto[a].seen PROVE Firings(a, m) + One(Unknown(m, auto[a].seen)') <= Allowed'
    <3>1. Firings(a, m) + One(Unknown(m, known)) <= Allowed
      BY <2>1, <2>2
    <3>2. Firings(a, m) + One(Unknown(m, known)') <= Allowed'
      BY <1>2, <1>5, <3>1
    <3>3. Unknown(m, auto[a].seen)' = Unknown(m, known)'
      BY <1>1, <2>2 DEF Unknown
    <3> QED BY <3>2, <3>3
  <2> QED BY <2>2
<1>8. CheckKnows'
  <2> SUFFICES ASSUME check # NoCheck, check.held \/ auto[check.auto].state # "gone", NEW m \in Messages
               PROVE  Firings(check.auto, m)' + One(Coming(m, check.left, Known)')
                        + One(Unknown(m, Known \cup InHand(check.left))') <= Allowed'
    BY <1>1 DEF CheckKnows
  <2>1. Firings(check.auto, m) + One(Coming(m, check.left, Known))
          + One(Unknown(m, Known \cup InHand(check.left))) <= Allowed
    BY DEF MailInv, CheckKnows
  <2>2. check.auto \in Mail
    BY <1>2 DEF Checks
  <2>3. Firings(check.auto, m)' = Firings(check.auto, m)
    BY <1>1 DEF Firings, InFiring
  <2>4. Coming(m, check.left, Known)' = Coming(m, check.left, Known)
    BY <1>1, <1>3 DEF Coming
  <2>5. ASSUME NEW known, known = Known \cup InHand(check.left), NEW f \in Nat,
               f = Firings(check.auto, m) + One(Coming(m, check.left, Known))
        PROVE  f + One(Unknown(m, Known \cup InHand(check.left))') <= Allowed'
    <3>1. f + One(Unknown(m, known)) <= Allowed
      BY <2>1, <2>5
    <3>2. f + One(Unknown(m, known)') <= Allowed'
      BY <1>5, <3>1
    <3>3. Unknown(m, Known \cup InHand(check.left))' = Unknown(m, known)'
      BY <1>1, <1>3, <2>5 DEF Unknown, InHand
    <3> QED BY <3>2, <3>3
  <2>6. Firings(check.auto, m) + One(Coming(m, check.left, Known)) \in Nat
    BY <1>2, <2>2, OneType
  <2> QED BY <2>3, <2>4, <2>5, <2>6
<1>9. Explained'
  <2> SUFFICES ASSUME NEW a \in Mail, NEW m \in Messages PROVE Firings(a, m)' <= Allowed'
    BY DEF Explained
  <2>1. Firings(a, m) <= Allowed
    BY DEF MailInv, Explained
  <2> QED BY <1>2, <1>3, <1>6, <2>1
<1> QED BY <1>2, <1>3, <1>4, <1>7, <1>8, <1>9 DEF MailInv

-----------------------------------------------------------------------------
(* The mail check.                                                          *)

(* What is fetched is known, in hand, or was unknown before. *)
LEMMA FetchStep ==
  ASSUME Types, MailInv, Cardinality(came) <= FetchMax, NEW b \in Autos, Fetch(b)
  PROVE  MailInv'
<1>1. /\ UNCHANGED <<auto, thread, fired, crashes, box, first, came>>
      /\ check = NoCheck /\ b \in Mail /\ ~Holding
  BY DEF Fetch, mailbox, history, Holding
<1>2. /\ \A a, m : Firings(a, m)' = Firings(a, m)
      /\ \A m : \A known : Unknown(m, known)' = Unknown(m, known)
      /\ Allowed' = Allowed /\ Top' = Top
      /\ OnceInBox'
  BY <1>1 DEF Firings, InFiring, Unknown, Allowed, Top, OnceInBox, MailInv
<1>3. ~Holding'
  BY <1>1 DEF Fetch, Holding
<1>4. SavedKnows'
  BY <1>1, <1>2, <1>3 DEF MailInv, SavedKnows, Unknown
<1>5. Explained'
  BY <1>2 DEF MailInv, Explained
<1>6. \A a \in Mail : auto'[a].seen \subseteq first' .. Top'
  BY <1>1, <1>2 DEF MailInv, Numbered
<1>7. CASE UNCHANGED check
  BY <1>1, <1>2, <1>4, <1>5, <1>6, <1>7 DEF MailInv, OnceInCheck, Numbered, CheckKnows
<1>8. CASE check' = [auto |-> b, left |-> Fetched, seen |-> {}, held |-> FALSE]
  <2>1. /\ check'.auto = b /\ check'.left = Fetched /\ check'.held = FALSE
        /\ Known' = auto[b].seen
    BY <1>1, <1>8 DEF Known
  <2>2. /\ DOMAIN Fetched = 1 .. Len(box)
        /\ \A i \in 1 .. Len(box) : /\ Fetched[i].number = first + Len(box) - i
                                    /\ Fetched[i].mail = box[Len(box) + 1 - i]
    BY FetchedAll
  <2>3. /\ first \in Nat /\ FirstNumber \in Nat /\ first <= FirstNumber /\ Len(box) \in Nat
        /\ Cardinality(came) \in Nat /\ Len(box) <= Cardinality(came)
        /\ DOMAIN box = 1 .. Len(box) /\ box \in Seq(came)
        /\ \A a \in Mail, m \in Messages : Firings(a, m) \in Nat
    BY MailNumbers
  <2>4. \A n : n \in InHand(Fetched) <=> n \in first .. first + Len(box) - 1
    <3>1. ASSUME NEW n \in InHand(Fetched) PROVE n \in first .. first + Len(box) - 1
      <4>1. PICK i \in 1 .. Len(box) : n = first + Len(box) - i
        BY <2>2, <3>1 DEF InHand
      <4> QED BY <2>3, <4>1
    <3>2. ASSUME NEW n \in first .. first + Len(box) - 1 PROVE n \in InHand(Fetched)
      <4>1. first + Len(box) - n \in 1 .. Len(box) /\ n = first + Len(box) - (first + Len(box) - n)
        BY <2>3
      <4> QED BY <2>2, <4>1 DEF InHand
    <3> QED BY <3>1, <3>2
  <2>5. OnceInCheck'
    <3>1. ASSUME NEW i \in 1 .. Len(box), NEW j \in 1 .. Len(box), Fetched[i].mail = Fetched[j].mail
          PROVE  i = j
      <4>1. Len(box) + 1 - i \in DOMAIN box /\ Len(box) + 1 - j \in DOMAIN box
        BY <2>3
      <4>2. Len(box) + 1 - i = Len(box) + 1 - j
        BY <2>2, <3>1, <4>1 DEF MailInv, OnceInBox
      <4> QED BY <2>3, <4>2
    <3> QED BY <2>1, <2>2, <3>1 DEF OnceInCheck
  <2>6. Numbered'
    <3>1. InHand(Fetched) \subseteq first .. Top
      BY <2>3, <2>4 DEF Top
    <3>2. auto[b].seen \subseteq first .. Top
      BY <1>1 DEF MailInv, Numbered
    <3>3. InHand(check.left)' = InHand(Fetched)
      BY <2>1 DEF InHand
    <3> QED BY <1>1, <1>2, <1>6, <2>1, <3>1, <3>2, <3>3 DEF Numbered
  <2>7. CheckKnows'
    <3> SUFFICES ASSUME auto[b].state # "gone", NEW m \in Messages
                 PROVE  Firings(check.auto, m)' + One(Coming(m, check.left, Known)')
                          + One(Unknown(m, Known \cup InHand(check.left))') <= Allowed'
      BY <1>1, <2>1 DEF CheckKnows
    <3>1. Firings(check.auto, m)' = Firings(b, m)
      BY <1>1, <2>1 DEF Firings, InFiring
    <3>2. Coming(m, check.left, Known)' = Coming(m, Fetched, auto[b].seen)
      BY <2>1 DEF Coming
    <3>3. Unknown(m, Known \cup InHand(check.left))' = Unknown(m, auto[b].seen \cup InHand(Fetched))
      BY <1>1, <2>1 DEF Unknown, InHand
    <3>4. Firings(b, m) + One(Unknown(m, auto[b].seen)) <= Allowed
      BY <1>1 DEF MailInv, SavedKnows
    <3>5. Coming(m, Fetched, auto[b].seen) => m \in came /\ Unknown(m, auto[b].seen)
      <4> SUFFICES ASSUME NEW i \in 1 .. Len(box), Fetched[i].mail = m, Fetched[i].number \notin auto[b].seen
                   PROVE  m \in came /\ Unknown(m, auto[b].seen)
        BY <2>2 DEF Coming
      <4>1. /\ Len(box) + 1 - i \in DOMAIN box /\ box[Len(box) + 1 - i] = m
            /\ first + Len(box) - i \notin auto[b].seen
            /\ first + Len(box) - i \in first .. first + (Len(box) + 1 - i) - 1
        BY <2>2, <2>3
      <4> QED BY <2>3, <4>1 DEF Unknown
    <3>6. m \in came => ~Unknown(m, auto[b].seen \cup InHand(Fetched))
      <4> SUFFICES ASSUME NEW j \in DOMAIN box, NEW n \in first .. first + j - 1
                   PROVE  n \in InHand(Fetched)
        BY DEF Unknown
      <4> QED BY <2>3, <2>4
    <3>7. m \notin came => Unknown(m, auto[b].seen)
      BY DEF Unknown
    <3>8. Allowed \in Nat /\ Firings(b, m) \in Nat
      BY <1>1, <2>3, MailNumbers
    <3>9. One(Coming(m, Fetched, auto[b].seen)) + One(Unknown(m, auto[b].seen \cup InHand(Fetched)))
            <= One(Unknown(m, auto[b].seen))
      BY <3>5, <3>6, <3>7 DEF One
    <3> QED BY <1>2, <3>1, <3>2, <3>3, <3>4, <3>8, <3>9, OneType
  <2> QED BY <1>2, <1>4, <1>5, <2>5, <2>6, <2>7 DEF MailInv
<1> QED BY <1>7, <1>8 DEF Fetch

(* Under the lock the check goes by what is saved. *)
LEMMA LookStep ==
  ASSUME Types, MailInv, Look PROVE MailInv'
<1>1. /\ UNCHANGED <<auto, thread, fired, crashes, box, first, came>>
      /\ check # NoCheck /\ ~check.held /\ ~Holding /\ check \in Checks
  BY MailNumbers DEF Look, mailbox, history, Holding
<1>2. /\ \A a, m : Firings(a, m)' = Firings(a, m)
      /\ Allowed' = Allowed /\ Top' = Top
      /\ OnceInBox'
  BY <1>1 DEF Firings, InFiring, Allowed, Top, OnceInBox, MailInv
<1>3. SavedKnows'
  <2> SUFFICES ASSUME NEW a \in Mail, NEW m \in Messages, auto[a].state # "gone"
               PROVE  Firings(a, m)' + One(Unknown(m, auto[a].seen)') <= Allowed'
    BY <1>1 DEF SavedKnows
  <2>1. Unknown(m, auto[a].seen)' = Unknown(m, auto[a].seen)
    BY <1>1 DEF Unknown
  <2> QED BY <1>1, <1>2, <2>1 DEF MailInv, SavedKnows
<1>4. Explained'
  BY <1>2 DEF MailInv, Explained
<1>5. \A a \in Mail : auto'[a].seen \subseteq first' .. Top'
  BY <1>1, <1>2 DEF MailInv, Numbered
<1>6. CASE check' = NoCheck
  BY <1>2, <1>3, <1>4, <1>5, <1>6 DEF MailInv, OnceInCheck, Numbered, CheckKnows
<1>7. CASE /\ auto[check.auto].state # "gone"
           /\ check' = [check EXCEPT !.held = TRUE, !.seen = auto[check.auto].seen]
  <2>1. /\ check'.auto = check.auto /\ check'.left = check.left /\ check'.held
        /\ check'.seen = auto[check.auto].seen
    BY <1>1, <1>7 DEF Checks
  <2>2. Known' = Known /\ InHand(check.left)' = InHand(check.left)
    BY <1>1, <2>1 DEF Known, InHand
  <2>3. OnceInCheck'
    BY <1>1, <2>1 DEF MailInv, OnceInCheck
  <2>4. Numbered'
    BY <1>1, <1>2, <1>5, <2>2 DEF MailInv, Numbered
  <2>5. CheckKnows'
    <3> SUFFICES ASSUME NEW m \in Messages
                 PROVE  Firings(check.auto, m)' + One(Coming(m, check.left, Known)')
                          + One(Unknown(m, Known \cup InHand(check.left))') <= Allowed'
      BY DEF CheckKnows
    <3>1. Firings(check.auto, m)' = Firings(check.auto, m)
      BY <1>1, <2>1 DEF Firings, InFiring
    <3>2. Coming(m, check.left, Known)' = Coming(m, check.left, Known)
      BY <2>1, <2>2 DEF Coming
    <3>3. Unknown(m, Known \cup InHand(check.left))' = Unknown(m, Known \cup InHand(check.left))
      BY <1>1, <2>2 DEF Unknown
    <3> QED BY <1>1, <1>2, <1>7, <3>1, <3>2, <3>3 DEF MailInv, CheckKnows
  <2> QED BY <1>2, <1>3, <1>4, <2>3, <2>4, <2>5 DEF MailInv
<1> QED BY <1>6, <1>7 DEF Look

(* What the check has noted becomes what is saved, all of it. *)
LEMMA SaveStep ==
  ASSUME Types, MailInv, WithinMemory, Save PROVE MailInv'
<1>1. /\ UNCHANGED <<thread, fired, crashes, box, first, came>>
      /\ check \in Checks /\ check # NoCheck /\ check.held /\ Holding /\ check.left = <<>>
      /\ check' = NoCheck /\ ~Holding'
  BY MailNumbers DEF Save, mailbox, history, Holding
<1>2. /\ \A a, m : Firings(a, m)' = Firings(a, m)
      /\ Allowed' = Allowed /\ Top' = Top
      /\ OnceInBox'
  BY <1>1 DEF Firings, InFiring, Allowed, Top, OnceInBox, MailInv
<1>3. /\ check.auto \in Mail /\ Known = check.seen /\ InHand(check.left) = {}
      /\ check.seen \subseteq first .. Top
  BY <1>1 DEF Checks, Known, InHand, MailInv, Numbered
<1>4. Trimmed(check.seen) = check.seen
  <2>1. /\ first \in Nat /\ FirstNumber \in Nat /\ first <= FirstNumber /\ Cardinality(came) \in Nat
        /\ MaxSeen \in Nat /\ Top \in Int
    BY MailNumbers
  <2>2. IsFiniteSet(first .. Top) /\ Cardinality(first .. Top) <= MaxSeen
    <3>1. /\ IsFiniteSet(first .. Top)
          /\ Cardinality(first .. Top) = IF first > Top THEN 0 ELSE Top - first + 1
      BY <2>1, FS_Interval
    <3> QED BY <2>1, <3>1 DEF WithinMemory, Top
  <2>3. IsFiniteSet(check.seen) /\ Cardinality(check.seen) <= MaxSeen
    <3>1. IsFiniteSet(check.seen) /\ Cardinality(check.seen) <= Cardinality(first .. Top)
      BY <1>3, <2>2, FS_Subset
    <3>2. Cardinality(check.seen) \in Nat /\ Cardinality(first .. Top) \in Nat
      BY <2>2, <3>1, FS_CardinalityType
    <3> QED BY <2>1, <2>2, <3>1, <3>2
  <2>4. check.seen \in SUBSET Nat
    BY <1>3, <2>1
  <2> QED BY <2>3, <2>4, TrimmedKeepsAll
<1>5. /\ auto'[check.auto].seen = check.seen
      /\ \A a \in Mail \ {check.auto} : auto'[a].seen = auto[a].seen
      /\ \A a \in Mail : auto'[a].state = auto[a].state
  <2>1. auto' = [auto EXCEPT ![check.auto].seen = check.seen]
    BY <1>4 DEF Save
  <2>2. auto \in [Autos -> AutoStates] /\ Mail \subseteq Autos
    BY MailNumbers DEF Types, BookTypes, AutoStates
  <2> QED BY <1>3, <2>1, <2>2 DEF AutoStates
<1>6. SavedKnows'
  <2> SUFFICES ASSUME NEW a \in Mail, NEW m \in Messages, auto'[a].state # "gone"
               PROVE  Firings(a, m)' + One(Unknown(m, auto[a].seen)') <= Allowed'
    BY DEF SavedKnows
  <2>1. CASE a = check.auto
    <3>1. Unknown(m, auto[a].seen)' = Unknown(m, Known \cup InHand(check.left))
      BY <1>1, <1>3, <1>5, <2>1 DEF Unknown
    <3>2. Firings(a, m) + One(Coming(m, check.left, Known)) + One(Unknown(m, Known \cup InHand(check.left)))
            <= Allowed
      BY <1>1, <2>1 DEF MailInv, CheckKnows
    <3>3. Firings(a, m) \in Nat /\ Allowed \in Nat
      BY MailNumbers
    <3> QED BY <1>2, <3>1, <3>2, <3>3, OneType
  <2>2. CASE a # check.auto
    <3>1. Unknown(m, auto[a].seen)' = Unknown(m, auto[a].seen)
      BY <1>1, <1>5, <2>2 DEF Unknown
    <3> QED BY <1>2, <1>5, <2>2, <3>1 DEF MailInv, SavedKnows
  <2> QED BY <2>1, <2>2
<1>7. Explained'
  BY <1>2 DEF MailInv, Explained
<1>8. Numbered'
  <2>1. \A a \in Mail : auto'[a].seen \subseteq first .. Top
    BY <1>3, <1>5 DEF MailInv, Numbered
  <2> QED BY <1>1, <1>2, <2>1 DEF Numbered
<1>9. OnceInCheck' /\ CheckKnows'
  BY <1>1 DEF OnceInCheck, CheckKnows
<1> QED BY <1>2, <1>6, <1>7, <1>8, <1>9 DEF MailInv

(* A restart forgets what the check under way has noted, and is an explanation for it. *)
LEMMA RestartStep ==
  ASSUME Types, MailInv, Restart PROVE MailInv'
<1>1. /\ UNCHANGED <<auto, fired, box, first, came>>
      /\ check' = NoCheck /\ ~Holding' /\ crashes'.checks = crashes.checks + One(Holding)
  BY DEF Restart, mailbox, Holding, One
<1>2. /\ Mail \subseteq Autos /\ first \in Nat /\ FirstNumber \in Nat /\ crashes.checks \in Nat
      /\ Allowed \in Nat /\ \A a \in Mail, m \in Messages : fired[a][m] \in Nat /\ Firings(a, m) \in Nat
  BY MailNumbers
<1>3. Allowed' = Allowed + One(Holding) /\ Top' = Top
  BY <1>1, <1>2, OneType DEF Allowed, Top
<1>4. ASSUME NEW a \in Mail, NEW m \in Messages
      PROVE  Firings(a, m)' <= Firings(a, m) /\ Firings(a, m)' \in Nat
  <2>1. thread'[Poller] = Idle
    BY DEF Restart, Threads
  <2>2. ~InFiring(a, m)'
    BY <2>1 DEF InFiring, Idle
  <2> QED BY <1>1, <1>2, <2>2, OneType DEF Firings, One
<1>5. OnceInBox' /\ OnceInCheck' /\ CheckKnows'
  BY <1>1 DEF MailInv, OnceInBox, OnceInCheck, CheckKnows
<1>6. Numbered'
  BY <1>1, <1>3 DEF MailInv, Numbered
<1>7. Explained'
  <2> SUFFICES ASSUME NEW a \in Mail, NEW m \in Messages PROVE Firings(a, m)' <= Allowed'
    BY DEF Explained
  <2>1. Firings(a, m) <= Allowed
    BY DEF MailInv, Explained
  <2> QED BY <1>2, <1>3, <1>4, <2>1, OneType
<1>8. SavedKnows'
  <2> SUFFICES ASSUME NEW a \in Mail, NEW m \in Messages, auto[a].state # "gone"
               PROVE  Firings(a, m)' + One(Unknown(m, auto[a].seen)') <= Allowed'
    BY <1>1 DEF SavedKnows
  <2>1. Unknown(m, auto[a].seen)' = Unknown(m, auto[a].seen)
    BY <1>1 DEF Unknown
  <2>2. CASE Holding
    <3>1. Firings(a, m) <= Allowed /\ Allowed' = Allowed + 1
      BY <1>3, <2>2 DEF MailInv, Explained, One
    <3> QED BY <1>2, <1>4, <3>1, OneType
  <2>3. CASE ~Holding
    <3>1. Firings(a, m) + One(Unknown(m, auto[a].seen)) <= Allowed
      BY <2>3 DEF MailInv, SavedKnows
    <3> QED BY <1>2, <1>3, <1>4, <2>1, <2>3, <3>1, OneType DEF One
  <2> QED BY <2>2, <2>3
<1> QED BY <1>5, <1>6, <1>7, <1>8 DEF MailInv

(* The rest of what is in hand. *)
LEMMA TailInHand ==
  ASSUME NEW left \in Seq(Entries), left # <<>>
  PROVE  /\ 1 \in DOMAIN left /\ left[1] = Head(left) /\ Head(left) \in Entries
         /\ Tail(left) \in Seq(Entries)
         /\ \A i \in DOMAIN Tail(left) : i + 1 \in DOMAIN left /\ i # 0 /\ i \in Nat /\ Tail(left)[i] = left[i + 1]
         /\ InHand(left) = InHand(Tail(left)) \cup {Head(left).number}
<1>1. /\ 1 \in DOMAIN left /\ left[1] = Head(left) /\ Head(left) \in Entries
      /\ Tail(left) \in Seq(Entries) /\ Len(left) \in Nat /\ Len(left) >= 1
      /\ DOMAIN left = 1 .. Len(left) /\ DOMAIN Tail(left) = 1 .. Len(left) - 1
      /\ \A i \in 1 .. Len(left) - 1 : Tail(left)[i] = left[i + 1]
  OBVIOUS
<1>2. \A i \in DOMAIN Tail(left) : i + 1 \in DOMAIN left /\ i # 0 /\ i \in Nat /\ Tail(left)[i] = left[i + 1]
  BY <1>1
<1>3. ASSUME NEW i \in DOMAIN left PROVE left[i].number \in InHand(Tail(left)) \cup {Head(left).number}
  <2>1. CASE i = 1
    BY <1>1, <2>1
  <2>2. CASE i # 1
    <3>1. i - 1 \in DOMAIN Tail(left) /\ Tail(left)[i - 1] = left[i]
      BY <1>1, <2>2
    <3> QED BY <3>1 DEF InHand
  <2> QED BY <2>1, <2>2
<1>4. InHand(left) = InHand(Tail(left)) \cup {Head(left).number}
  BY <1>1, <1>2, <1>3 DEF InHand
<1> QED BY <1>1, <1>2, <1>4

(* A message that is examined fires only if it was to come, and it comes once. *)
LEMMA ExamineStep ==
  ASSUME Types, MailInv, NEW r \in Runs \cup {"none"}, Examine(r) PROVE MailInv'
<1> DEFINE n == Head(check.left).number
           x == Head(check.left).mail
<1>1. /\ UNCHANGED <<auto, fired, crashes, box, first, came>>
      /\ check \in Checks /\ check # NoCheck /\ check.held /\ Holding /\ check.left # <<>>
      /\ thread[Poller] = Idle
  BY MailNumbers DEF Examine, mailbox, history, Holding
<1>2. /\ check.auto \in Mail /\ Mail \subseteq Autos /\ check.left \in Seq(Entries) /\ Known = check.seen
      /\ \A a \in Mail, m \in Messages : fired[a][m] \in Nat /\ Firings(a, m) \in Nat
      /\ Allowed \in Nat
  BY <1>1, MailNumbers DEF Checks, Known
<1>3. Allowed' = Allowed /\ Top' = Top /\ OnceInBox'
  BY <1>1 DEF Allowed, Top, OnceInBox, MailInv
<1>4. /\ 1 \in DOMAIN check.left /\ check.left[1] = Head(check.left) /\ Head(check.left) \in Entries
      /\ \A i \in DOMAIN Tail(check.left) :
           i + 1 \in DOMAIN check.left /\ i # 0 /\ i \in Nat /\ Tail(check.left)[i] = check.left[i + 1]
      /\ InHand(check.left) = InHand(Tail(check.left)) \cup {n}
  BY <1>1, <1>2, TailInHand
<1>5. n \in Numbers /\ x \in Messages
  BY <1>4 DEF Entries
<1> HIDE DEF n, x
<1>6. ASSUME check'.auto = check.auto, check'.left = Tail(check.left), check'.held = TRUE,
             check'.seen = check.seen \cup {n}, check' # NoCheck,
             \A a \in Mail, m \in Messages : a # check.auto => Firings(a, m)' = Firings(a, m),
             \A m \in Messages :
               /\ Firings(check.auto, m)' \in Nat
               /\ Firings(check.auto, m)' + One(Coming(m, Tail(check.left), check.seen \cup {n}))
                    <= Firings(check.auto, m) + One(Coming(m, check.left, Known))
      PROVE  MailInv'
  <2>1. Known' = check.seen \cup {n} /\ InHand(check.left)' = InHand(Tail(check.left))
        /\ Known' \cup InHand(check.left)' = Known \cup InHand(check.left)
    BY <1>2, <1>4, <1>6 DEF Known, InHand
  <2>2. CheckKnows'
    <3> SUFFICES ASSUME NEW m \in Messages
                 PROVE  Firings(check.auto, m)' + One(Coming(m, check.left, Known)')
                          + One(Unknown(m, Known \cup InHand(check.left))') <= Allowed'
      BY DEF CheckKnows
    <3>1. Firings(check.auto, m) + One(Coming(m, check.left, Known))
            + One(Unknown(m, Known \cup InHand(check.left))) <= Allowed
      BY <1>1 DEF MailInv, CheckKnows
    <3>2. Coming(m, check.left, Known)' = Coming(m, Tail(check.left), check.seen \cup {n})
      BY <1>6, <2>1 DEF Coming
    <3>3. Unknown(m, Known \cup InHand(check.left))' = Unknown(m, Known \cup InHand(check.left))
      BY <1>1, <2>1 DEF Unknown
    <3>4. Firings(check.auto, m)' + One(Coming(m, Tail(check.left), check.seen \cup {n}))
            <= Firings(check.auto, m) + One(Coming(m, check.left, Known))
      BY <1>6
    <3>5. Firings(check.auto, m)' \in Nat /\ Firings(check.auto, m) \in Nat
      BY <1>2, <1>6
    <3> QED BY <1>2, <1>3, <3>1, <3>2, <3>3, <3>4, <3>5, OneType
  <2>3. Explained'
    <3> SUFFICES ASSUME NEW a \in Mail, NEW m \in Messages PROVE Firings(a, m)' <= Allowed
      BY <1>3 DEF Explained
    <3>1. CASE a # check.auto
      BY <1>6, <3>1 DEF MailInv, Explained
    <3>2. CASE a = check.auto
      <4>1. Firings(check.auto, m) + One(Coming(m, check.left, Known))
              + One(Unknown(m, Known \cup InHand(check.left))) <= Allowed
        BY <1>1 DEF MailInv, CheckKnows
      <4>2. /\ Firings(check.auto, m)' \in Nat
            /\ Firings(check.auto, m)' + One(Coming(m, Tail(check.left), check.seen \cup {n}))
                 <= Firings(check.auto, m) + One(Coming(m, check.left, Known))
        BY <1>6
      <4>3. Firings(a, m)' = Firings(check.auto, m)'
        BY <1>6, <3>2 DEF Firings, InFiring
      <4> QED BY <1>2, <4>1, <4>2, <4>3, OneType
    <3> QED BY <3>1, <3>2
  <2>4. SavedKnows'
    <3> SUFFICES ASSUME NEW a \in Mail, NEW m \in Messages, auto[a].state # "gone", a # check.auto
                 PROVE  Firings(a, m)' + One(Unknown(m, auto[a].seen)') <= Allowed'
      BY <1>1, <1>6 DEF SavedKnows, Holding
    <3>1. Unknown(m, auto[a].seen)' = Unknown(m, auto[a].seen)
      BY <1>1 DEF Unknown
    <3> QED BY <1>3, <1>6, <3>1 DEF MailInv, SavedKnows
  <2>5. Numbered'
    <3>1. InHand(check.left) \subseteq first .. Top /\ Known \subseteq first .. Top
          /\ \A a \in Mail : auto[a].seen \subseteq first .. Top
      BY <1>1 DEF MailInv, Numbered
    <3> QED BY <1>1, <1>2, <1>3, <1>4, <2>1, <3>1 DEF Numbered
  <2>6. OnceInCheck'
    <3> SUFFICES ASSUME NEW i \in DOMAIN Tail(check.left), NEW j \in DOMAIN Tail(check.left),
                        Tail(check.left)[i].mail = Tail(check.left)[j].mail
                 PROVE  i = j
      BY <1>6 DEF OnceInCheck
    <3>1. check.left[i + 1].mail = check.left[j + 1].mail /\ i + 1 \in DOMAIN check.left /\ j + 1 \in DOMAIN check.left
      BY <1>4
    <3>2. i + 1 = j + 1
      BY <1>1, <3>1 DEF MailInv, OnceInCheck
    <3> QED BY <1>4, <3>2
  <2> QED BY <1>3, <2>2, <2>3, <2>4, <2>5, <2>6 DEF MailInv
<1>7. ASSUME NEW m \in Messages, Coming(m, Tail(check.left), check.seen \cup {n})
      PROVE  Coming(m, check.left, Known)
  <2>1. PICK i \in DOMAIN Tail(check.left) :
               Tail(check.left)[i].mail = m /\ Tail(check.left)[i].number \notin check.seen \cup {n}
    BY <1>7 DEF Coming
  <2> QED BY <1>2, <1>4, <2>1 DEF Coming
<1>8. ASSUME n \in check.seen, check' = [check EXCEPT !.left = Tail(@)], UNCHANGED thread
      PROVE  MailInv'
  <2>1. /\ check'.auto = check.auto /\ check'.left = Tail(check.left) /\ check'.held = TRUE
        /\ check'.seen = check.seen \cup {n} /\ check' # NoCheck
    BY <1>1, <1>8 DEF Checks, NoCheck
  <2>2. \A a, m : Firings(a, m)' = Firings(a, m)
    BY <1>1, <1>8 DEF Firings, InFiring
  <2>3. ASSUME NEW m \in Messages
        PROVE  /\ Firings(check.auto, m)' \in Nat
               /\ Firings(check.auto, m)' + One(Coming(m, Tail(check.left), check.seen \cup {n}))
                    <= Firings(check.auto, m) + One(Coming(m, check.left, Known))
    <3>1. Firings(check.auto, m)' = Firings(check.auto, m) /\ Firings(check.auto, m) \in Nat
      BY <1>1, <1>2, <1>8, <2>1 DEF Firings, InFiring
    <3>2. One(Coming(m, Tail(check.left), check.seen \cup {n})) <= One(Coming(m, check.left, Known))
      BY <1>7 DEF One
    <3> QED BY <3>1, <3>2, OneType
  <2> QED BY <1>6, <2>1, <2>2, <2>3
<1>9. ASSUME n \notin check.seen, Begin(Poller, check.auto, r, x),
             check' = [check EXCEPT !.left = Tail(@), !.seen = Marked(n)]
      PROVE  MailInv'
  <2>1. /\ check'.auto = check.auto /\ check'.left = Tail(check.left) /\ check'.held = TRUE
        /\ check'.seen = check.seen \cup {n} /\ check' # NoCheck
    BY <1>1, <1>9 DEF Checks, NoCheck, Marked
  <2>2. thread'[Poller] = [pc |-> "acting", auto |-> check.auto, run |-> r, mail |-> x]
    <3>1. Poller \in Threads /\ x \in Mails /\ check.auto \in Autos
      BY <1>2, <1>5 DEF Threads, Mails
    <3> QED BY <1>9, <3>1, FiringBegins DEF Types, Moves
  <2>3. \A a, m : ~InFiring(a, m) /\ (InFiring(a, m)' <=> a = check.auto /\ m = x)
    BY <1>1, <2>2 DEF InFiring, Idle
  <2>4. ASSUME NEW a \in Mail, NEW m \in Messages, a # check.auto PROVE Firings(a, m)' = Firings(a, m)
    BY <1>1, <2>3, <2>4 DEF Firings, One
  <2>5. ASSUME NEW m \in Messages
        PROVE  /\ Firings(check.auto, m)' \in Nat
               /\ Firings(check.auto, m)' + One(Coming(m, Tail(check.left), check.seen \cup {n}))
                    <= Firings(check.auto, m) + One(Coming(m, check.left, Known))
    <3>1. /\ Firings(check.auto, m) = fired[check.auto][m] /\ fired[check.auto][m] \in Nat
          /\ Firings(check.auto, m)' = fired[check.auto][m] + One(m = x)
      <4>1. InFiring(check.auto, m)' <=> m = x
        BY <2>1, <2>2 DEF InFiring
      <4>2. fired'[check'.auto][m] = fired[check.auto][m]
        BY <1>1, <2>1
      <4> QED BY <1>2, <2>3, <4>1, <4>2 DEF Firings, One
    <3>2. CASE m = x
      <4>1. Coming(m, check.left, Known)
        BY <1>2, <1>4, <1>9, <3>2 DEF Coming, n, x
      <4>2. ~Coming(m, Tail(check.left), check.seen \cup {n})
        <5> SUFFICES ASSUME NEW i \in DOMAIN Tail(check.left), Tail(check.left)[i].mail = x PROVE FALSE
          BY <3>2 DEF Coming
        <5>1. check.left[i + 1].mail = check.left[1].mail /\ i + 1 \in DOMAIN check.left
          BY <1>4 DEF x
        <5>2. i + 1 = 1
          BY <1>1, <1>4, <5>1 DEF MailInv, OnceInCheck
        <5> QED BY <1>4, <5>2
      <4> QED BY <3>1, <3>2, <4>1, <4>2 DEF One
    <3>3. CASE m # x
      <4>1. One(Coming(m, Tail(check.left), check.seen \cup {n})) <= One(Coming(m, check.left, Known))
        BY <1>7 DEF One
      <4>2. Firings(check.auto, m)' = Firings(check.auto, m)
        BY <3>1, <3>3 DEF One
      <4> QED BY <3>1, <4>1, <4>2, OneType
    <3> QED BY <3>2, <3>3
  <2> QED BY <1>6, <2>1, <2>4, <2>5
<1> QED BY <1>8, <1>9 DEF Examine, n, x

-----------------------------------------------------------------------------
(* The other steps.                                                         *)

(* Every step keeps mail the poller's business. *)
LEMMA CallersAsideStep ==
  ASSUME Types, CallersAside, [Next]_vars PROVE CallersAside'
<1>0. Poller \in Threads /\ Callers \subseteq Threads /\ Poller \notin Callers /\ ThreadTypes /\ BookTypes
  BY AutomationsAssumption DEF Threads, Types
<1>1. ASSUME NEW t \in Threads,
             \A u \in Threads \ {t} : thread'[u] = thread[u],
             t \in Callers /\ thread'[t].pc = "acting" => thread'[t].mail = NoMail
      PROVE  CallersAside'
  BY <1>0, <1>1 DEF CallersAside
<1>2. ASSUME NEW a \in Autos, NEW r \in Runs \cup {"none"}, PollCron(a, r) PROVE CallersAside'
  <2>1. CASE Begin(Poller, a, r, NoMail)
    <3>1. \A u \in Threads \ {Poller} : thread'[u] = thread[u]
      BY <1>0, <2>1, FiringBegins DEF Moves, Mails
    <3> QED BY <1>0, <1>1, <3>1
  <2>2. CASE UNCHANGED thread
    BY <2>2 DEF CallersAside
  <2> QED BY <1>2, <2>1, <2>2 DEF PollCron
<1>3. ASSUME NEW a \in Autos, NEW r \in Runs \cup {"none"}, NEW c \in Callers, Fire(c, a, r) PROVE CallersAside'
  <2>1. Moves(c, [pc |-> "acting", auto |-> a, run |-> r, mail |-> NoMail]) /\ c \in Threads
    BY <1>0, <1>3, FiringBegins DEF Fire, Mails
  <2> QED BY <1>1, <2>1 DEF Moves
<1>4. ASSUME NEW t \in Threads, Act(t) PROVE CallersAside'
  <2>1. thread[t] \in Firing /\ \E pc \in {"acted", "failed"} : Moves(t, [thread[t] EXCEPT !.pc = pc])
    BY <1>0, <1>4, ActionEnds
  <2>2. /\ \A u \in Threads \ {t} : thread'[u] = thread[u]
        /\ thread'[t].pc # "acting"
    BY <2>1 DEF Moves, Firing
  <2> QED BY <1>1, <2>2
<1>5. ASSUME NEW t \in Threads, Update(t) PROVE CallersAside'
  <2>1. \/ Moves(t, Idle)
        \/ Moves(t, [thread[t] EXCEPT !.pc = "parking"]) /\ [thread[t] EXCEPT !.pc = "parking"] \in Parking
    BY <1>0, <1>5, FiringEnds
  <2>2. /\ \A u \in Threads \ {t} : thread'[u] = thread[u]
        /\ thread'[t].pc # "acting"
    BY <2>1 DEF Moves, Parking, Idle
  <2> QED BY <1>1, <2>2
<1>6. ASSUME NEW t \in Threads, Park(t) PROVE CallersAside'
  <2>1. Moves(t, Idle)
    BY <1>0, <1>6, StepInto DEF Park, Steps
  <2>2. /\ \A u \in Threads \ {t} : thread'[u] = thread[u]
        /\ thread'[t].pc # "acting"
    BY <2>1 DEF Moves, Idle
  <2> QED BY <1>1, <2>2
<1>7. ASSUME NEW c \in Callers, NEW r \in Runs, NEW k \in Runs \cup {"none"}, Execute(c, r, k)
      PROVE  CallersAside'
  <2>1. /\ Moves(c, [pc |-> "consuming", auto |-> log[r].auto, run |-> "none", of |-> r, with |-> k])
        /\ c \in Threads
    BY <1>0, <1>7, ExecutionBegins
  <2> QED BY <1>1, <2>1 DEF Moves
<1>8. ASSUME NEW c \in Callers, Consume(c) \/ Call(c) \/ \E x \in Runs : Complete(c, x) PROVE CallersAside'
  <2>1. c \in Threads /\ thread[c] \in Executing
    BY <1>0, <1>8, ExecutionGoes
  <2>2. /\ [thread[c] EXCEPT !.pc = "completing"].pc = "completing" /\ Idle.pc = "idle"
        /\ \A k : [thread[c] EXCEPT !.pc = "calling", !.with = k].pc = "calling"
    BY <2>1 DEF Executing, Idle
  <2>3. \E step : Moves(c, step) /\ step.pc # "acting"
    BY <1>0, <1>8, <2>2, ExecutionGoes
  <2>4. (\A u \in Threads \ {c} : thread'[u] = thread[u]) /\ thread'[c].pc # "acting"
    BY <2>3 DEF Moves
  <2> QED BY <1>0, <1>1, <2>1, <2>4
<1>9. ASSUME NEW r \in Runs \cup {"none"}, Examine(r) PROVE CallersAside'
  <2>1. \A u \in Threads \ {Poller} : thread'[u] = thread[u]
    <3>1. CASE UNCHANGED thread
      BY <3>1
    <3>2. CASE Begin(Poller, check.auto, r, Head(check.left).mail)
      BY <1>0, <3>2 DEF Begin, Await, ThreadTypes
    <3> QED BY <1>9, <3>1, <3>2 DEF Examine
  <2> QED BY <1>0, <1>1, <2>1
<1>10. CASE Restart
  BY <1>10 DEF Restart, CallersAside, Idle, Threads
<1>11. ASSUME \/ \E a \in Autos : Create(a) \/ Delete(a) \/ FallDue(a) \/ Fetch(a)
              \/ \E a \in Autos, to \in {"on", "paused"} : SetEnabled(a, to)
              \/ \E r \in Runs, s \in {"APPROVED", "DENIED", "EXPIRED"} : Answer(r, s)
              \/ \E to \in BOOLEAN : SetGate(to)
              \/ Tick \/ Look \/ Save
              \/ \E m \in Messages : Arrive(m)
              \/ \E i \in DOMAIN box : Expunge(i)
              \/ ExpungeOld \/ UNCHANGED vars
       PROVE  UNCHANGED thread
  BY <1>11 DEF Create, Delete, FallDue, Fetch, SetEnabled, Answer, SetGate, Tick, Look, Save, Arrive, Expunge,
               ExpungeOld, vars
<1>12. ASSUME UNCHANGED thread PROVE CallersAside'
  BY <1>12 DEF CallersAside
<1> QED BY <1>2, <1>3, <1>4, <1>5, <1>6, <1>7, <1>8, <1>9, <1>10, <1>11, <1>12 DEF Next

(* The steps beside mail check and mailbox begin no firing of a message. *)
LEMMA FiringsAside ==
  ASSUME Types, CallersAside,
         \/ \E a \in Autos : Create(a) \/ Delete(a) \/ FallDue(a)
         \/ \E a \in Autos, to \in {"on", "paused"} : SetEnabled(a, to)
         \/ \E a \in Autos, r \in Runs \cup {"none"} : PollCron(a, r) \/ \E c \in Callers : Fire(c, a, r)
         \/ \E t \in Threads : Act(t) \/ Update(t) \/ Park(t)
         \/ \E c \in Callers, r \in Runs, k \in Runs \cup {"none"} : Execute(c, r, k)
         \/ \E c \in Callers : Consume(c) \/ Call(c) \/ \E x \in Runs : Complete(c, x)
         \/ \E r \in Runs, s \in {"APPROVED", "DENIED", "EXPIRED"} : Answer(r, s)
         \/ \E to \in BOOLEAN : SetGate(to)
         \/ Tick \/ UNCHANGED vars
  PROVE  \A a \in Mail, m \in Messages : Firings(a, m)' <= Firings(a, m)
<1>0. /\ Poller \in Threads /\ Callers \subseteq Threads /\ Poller \notin Callers /\ ThreadTypes /\ BookTypes
      /\ fired \in [Autos -> [Messages -> Nat]] /\ Mail \subseteq Autos /\ Mail = Autos \ Cron
      /\ Threads = Callers \cup {Poller}
  BY AutomationsAssumption DEF Threads, Types, HistoryTypes, Mail
<1>1. ASSUME fired' = fired,
             \/ thread'[Poller] = thread[Poller]
             \/ thread'[Poller].pc # "acting"
             \/ thread'[Poller].auto \notin Mail
      PROVE  \A a \in Mail, m \in Messages : Firings(a, m)' <= Firings(a, m)
  <2> SUFFICES ASSUME NEW a \in Mail, NEW m \in Messages PROVE Firings(a, m)' <= Firings(a, m)
    OBVIOUS
  <2>1. InFiring(a, m)' => InFiring(a, m)
    BY <1>1 DEF InFiring
  <2>2. fired[a][m] \in Nat
    BY <1>0
  <2> QED BY <1>1, <2>1, <2>2 DEF Firings, One
<1>2. ASSUME NEW a \in Autos, NEW r \in Runs \cup {"none"}, PollCron(a, r)
      PROVE  fired' = fired /\ (thread'[Poller] = thread[Poller] \/ thread'[Poller].auto \notin Mail)
  <2>1. Begin(Poller, a, r, NoMail) => thread'[Poller] = [pc |-> "acting", auto |-> a, run |-> r, mail |-> NoMail]
    BY <1>0, FiringBegins DEF Moves, Mails
  <2>2. a \notin Mail
    BY <1>0, <1>2 DEF PollCron
  <2> QED BY <1>2, <2>1, <2>2 DEF PollCron
<1>3. ASSUME NEW a \in Autos, NEW r \in Runs \cup {"none"}, NEW c \in Callers, Fire(c, a, r)
      PROVE  fired' = fired /\ thread'[Poller] = thread[Poller]
  BY <1>0, <1>3 DEF Fire, Begin, Await, history
<1>4. ASSUME NEW t \in Threads, Act(t)
      PROVE  \A a \in Mail, m \in Messages : Firings(a, m)' <= Firings(a, m)
  <2>1. thread[t] \in Firing /\ thread[t].pc = "acting"
        /\ \E pc \in {"acted", "failed"} : Moves(t, [thread[t] EXCEPT !.pc = pc])
    BY <1>0, <1>4, ActionEnds
  <2>2. /\ \A u \in Threads \ {t} : thread'[u] = thread[u]
        /\ thread'[t].pc # "acting"
    BY <2>1 DEF Moves, Firing
  <2>3. CASE thread[t].mail = NoMail
    BY <1>0, <1>1, <1>4, <2>2, <2>3 DEF Act
  <2>4. CASE thread[t].mail # NoMail
    <3>1. t = Poller
      BY <1>0, <2>1, <2>4 DEF CallersAside
    <3>2. fired' = [fired EXCEPT ![thread[t].auto][thread[t].mail] = @ + 1]
      BY <1>4, <2>4 DEF Act
    <3> SUFFICES ASSUME NEW a \in Mail, NEW m \in Messages PROVE Firings(a, m)' <= Firings(a, m)
      OBVIOUS
    <3>3. ~InFiring(a, m)'
      BY <2>2, <3>1 DEF InFiring
    <3>4. fired'[a][m] = fired[a][m] + One(InFiring(a, m))
      <4>1. InFiring(a, m) <=> thread[t].auto = a /\ thread[t].mail = m
        BY <2>1, <3>1 DEF InFiring
      <4>2. fired[a][m] \in Nat /\ a \in Autos
        BY <1>0
      <4>3. CASE thread[t].auto = a
        BY <1>0, <3>2, <4>1, <4>2, <4>3 DEF One
      <4>4. CASE thread[t].auto # a
        BY <1>0, <3>2, <4>1, <4>2, <4>4 DEF One
      <4> QED BY <4>3, <4>4
    <3>5. fired[a][m] \in Nat
      BY <1>0
    <3> QED BY <3>3, <3>4, <3>5, OneType DEF Firings, One
  <2> QED BY <2>3, <2>4
<1>5. ASSUME NEW t \in Threads, Update(t) \/ Park(t)
      PROVE  fired' = fired /\ (thread'[Poller] = thread[Poller] \/ thread'[Poller].pc # "acting")
  <2>1. \/ Moves(t, Idle)
        \/ Moves(t, [thread[t] EXCEPT !.pc = "parking"]) /\ [thread[t] EXCEPT !.pc = "parking"] \in Parking
    <3>1. CASE Update(t)
      BY <1>0, <3>1, FiringEnds
    <3>2. CASE Park(t)
      BY <1>0, <3>2, StepInto DEF Park, Steps
    <3> QED BY <1>5, <3>1, <3>2
  <2>2. /\ \A u \in Threads \ {t} : thread'[u] = thread[u]
        /\ thread'[t].pc # "acting"
    BY <2>1 DEF Moves, Parking, Idle
  <2> QED BY <1>0, <1>5, <2>2 DEF Update, Park, history
<1>6. ASSUME NEW c \in Callers,
             \/ \E r \in Runs, k \in Runs \cup {"none"} : Execute(c, r, k)
             \/ Consume(c) \/ Call(c) \/ \E x \in Runs : Complete(c, x)
      PROVE  fired' = fired /\ thread'[Poller] = thread[Poller]
  <2>1. fired' = fired
    BY <1>6 DEF Execute, Consume, Call, Complete, history
  <2>2. \E step : Await(c, step)
    <3>1. ASSUME NEW r \in Runs, NEW k \in Runs \cup {"none"}, Execute(c, r, k)
          PROVE  \E step : Await(c, step)
      BY <3>1 DEF Execute
    <3>2. Consume(c) => \E step : Await(c, step)
      BY DEF Consume
    <3>3. Call(c) => \E step : Await(c, step)
      BY DEF Call
    <3>4. (\E x \in Runs : Complete(c, x)) => \E step : Await(c, step)
      BY DEF Complete
    <3> QED BY <1>6, <3>1, <3>2, <3>3, <3>4
  <2> QED BY <1>0, <2>1, <2>2 DEF Await, ThreadTypes
<1>7. ASSUME \/ \E a \in Autos : Create(a) \/ Delete(a) \/ FallDue(a)
             \/ \E a \in Autos, to \in {"on", "paused"} : SetEnabled(a, to)
             \/ \E r \in Runs, s \in {"APPROVED", "DENIED", "EXPIRED"} : Answer(r, s)
             \/ \E to \in BOOLEAN : SetGate(to)
             \/ Tick \/ UNCHANGED vars
      PROVE  fired' = fired /\ thread' = thread
  BY <1>7 DEF Create, Delete, FallDue, SetEnabled, Answer, SetGate, Tick, history, vars
<1> QED BY <1>1, <1>2, <1>3, <1>4, <1>5, <1>6, <1>7

(* Every step the memory suffices for keeps the account of what may fire again. *)
LEMMA AccountStep ==
  ASSUME Types, Types', CallersAside, MailInv, WithinMemory, [Next]_vars PROVE MailInv'
<1>1. ASSUME NEW a \in Autos, Fetch(a) PROVE MailInv'
  BY <1>1, FetchStep DEF WithinMemory
<1>2. CASE Look
  BY <1>2, LookStep
<1>3. CASE Save
  BY <1>3, SaveStep
<1>4. ASSUME NEW r \in Runs \cup {"none"}, Examine(r) PROVE MailInv'
  BY <1>4, ExamineStep
<1>5. CASE Restart
  BY <1>5, RestartStep
<1>6. CASE \/ \E m \in Messages : Arrive(m)
           \/ \E i \in DOMAIN box : Expunge(i)
           \/ ExpungeOld
  BY <1>6, BoxStep
<1>7. ASSUME UNCHANGED <<box, first, came, check, crashes>>,
             \A a \in Mail : \/ /\ auto'[a].seen = auto[a].seen
                                /\ auto'[a].state = "gone" <=> auto[a].state = "gone"
                             \/ auto'[a].state = "gone" /\ auto'[a].seen = {},
             \A a \in Mail, m \in Messages : Firings(a, m)' <= Firings(a, m)
      PROVE  MailInv'
  BY <1>7, MailAside
<1>8. auto \in [Autos -> AutoStates] /\ Mail \subseteq Autos /\ ThreadTypes
  BY MailNumbers DEF Types, BookTypes, AutoStates
<1>9. ASSUME \/ \E a \in Autos : Create(a) \/ Delete(a) \/ FallDue(a)
             \/ \E a \in Autos, to \in {"on", "paused"} : SetEnabled(a, to)
             \/ \E t \in Threads : Update(t)
      PROVE  MailInv'
  <2>1. UNCHANGED <<box, first, came, check, crashes>>
    BY <1>9 DEF Create, Delete, FallDue, SetEnabled, Update, mailbox, history
  <2>2. ASSUME NEW a \in Mail
        PROVE  \/ /\ auto'[a].seen = auto[a].seen
                  /\ auto'[a].state = "gone" <=> auto[a].state = "gone"
               \/ auto'[a].state = "gone" /\ auto'[a].seen = {}
    <3>1. ASSUME NEW b \in Autos, Create(b)
          PROVE  auto'[a].seen = auto[a].seen /\ (auto'[a].state = "gone" <=> auto[a].state = "gone")
      BY <1>8, <3>1 DEF Create, AutoStates
    <3>2. ASSUME NEW b \in Autos, Delete(b), a = b
          PROVE  auto'[a].state = "gone" /\ auto'[a].seen = {}
      BY <1>8, <3>2 DEF Delete, AutoStates
    <3>3. ASSUME NEW b \in Autos, Delete(b), a # b PROVE auto'[a] = auto[a]
      BY <1>8, <3>3 DEF Delete, AutoStates
    <3>4. ASSUME NEW b \in Autos, FallDue(b) PROVE auto'[a].seen = auto[a].seen /\ auto'[a].state = auto[a].state
      BY <1>8, <3>4 DEF FallDue, AutoStates
    <3>5. ASSUME NEW b \in Autos, NEW to \in {"on", "paused"}, SetEnabled(b, to)
          PROVE  auto'[a].seen = auto[a].seen /\ (auto'[a].state = "gone" <=> auto[a].state = "gone")
      <4> DEFINE d == auto[b].due /\ to = "paused"
      <4>1. auto' = [auto EXCEPT ![b].state = to, ![b].due = d] /\ auto[b].state # "gone" /\ to # "gone"
        BY <3>5 DEF SetEnabled
      <4> HIDE DEF d
      <4> QED BY <1>8, <4>1 DEF AutoStates
    <3>6. ASSUME NEW t \in Threads, Update(t) PROVE auto'[a].seen = auto[a].seen /\ auto'[a].state = auto[a].state
      <4>1. thread[t].auto \in Autos /\ auto' = [auto EXCEPT ![thread[t].auto].due = FALSE]
        BY <1>8, <3>6, FiringEnds DEF Firing, Update, NextDue
      <4> QED BY <1>8, <4>1 DEF AutoStates
    <3> QED BY <1>9, <3>1, <3>2, <3>3, <3>4, <3>5, <3>6
  <2>3. \A a \in Mail, m \in Messages : Firings(a, m)' <= Firings(a, m)
    BY <1>9, FiringsAside
  <2> QED BY <1>7, <2>1, <2>2, <2>3
<1>10. ASSUME \/ \E a \in Autos, r \in Runs \cup {"none"} : PollCron(a, r) \/ \E c \in Callers : Fire(c, a, r)
              \/ \E t \in Threads : Act(t) \/ Park(t)
              \/ \E c \in Callers, r \in Runs, k \in Runs \cup {"none"} : Execute(c, r, k)
              \/ \E c \in Callers : Consume(c) \/ Call(c) \/ \E x \in Runs : Complete(c, x)
              \/ \E r \in Runs, s \in {"APPROVED", "DENIED", "EXPIRED"} : Answer(r, s)
              \/ \E to \in BOOLEAN : SetGate(to)
              \/ Tick \/ UNCHANGED vars
       PROVE  MailInv'
  <2>1. UNCHANGED <<box, first, came, check, crashes, auto>>
    BY <1>10 DEF PollCron, Fire, Act, Park, Execute, Consume, Call, Complete, Answer, SetGate, Tick, vars, mailbox,
                 history, engine
  <2>2. \A a \in Mail, m \in Messages : Firings(a, m)' <= Firings(a, m)
    BY <1>10, FiringsAside
  <2> QED BY <1>7, <2>1, <2>2
<1> QED BY <1>1, <1>2, <1>3, <1>4, <1>5, <1>6, <1>9, <1>10 DEF Next

(* What the memory suffices for now, it sufficed for before. *)
LEMMA WithinBefore ==
  ASSUME Types, Types', [Next]_vars, WithinMemory' PROVE WithinMemory
<1>1. /\ first \in Nat /\ FirstNumber \in Nat /\ Cardinality(came) \in Nat /\ FetchMax \in Nat /\ MaxSeen \in Nat
      /\ Top \in Int
  BY MailNumbers
<1>2. first' \in Nat /\ Cardinality(came') \in Nat /\ IsFiniteSet(came')
  <2>1. came' \in SUBSET Messages /\ first' \in 1 .. FirstNumber
    BY DEF Types, MailTypes
  <2>2. IsFiniteSet(came')
    BY <2>1, FS_Subset, AutomationsAssumption
  <2> QED BY <1>1, <2>1, <2>2, FS_CardinalityType
<1>3. first' <= first /\ Top <= Top' /\ came \subseteq came'
  <2>1. ASSUME \/ \E a \in Autos : Create(a) \/ Delete(a) \/ FallDue(a) \/ Fetch(a)
               \/ \E a \in Autos, to \in {"on", "paused"} : SetEnabled(a, to)
               \/ \E a \in Autos, r \in Runs \cup {"none"} : PollCron(a, r) \/ \E c \in Callers : Fire(c, a, r)
               \/ \E t \in Threads : Act(t) \/ Update(t) \/ Park(t)
               \/ \E c \in Callers, r \in Runs, k \in Runs \cup {"none"} : Execute(c, r, k)
               \/ \E c \in Callers : Consume(c) \/ Call(c) \/ \E x \in Runs : Complete(c, x)
        PROVE  UNCHANGED <<first, came>>
    BY <2>1 DEF Create, Delete, FallDue, Fetch, SetEnabled, PollCron, Fire, Act, Update, Park, Execute,
                Consume, Call, Complete, mailbox
  <2>2. ASSUME \/ \E r \in Runs, s \in {"APPROVED", "DENIED", "EXPIRED"} : Answer(r, s)
               \/ \E to \in BOOLEAN : SetGate(to)
               \/ Tick \/ Look \/ Save \/ \E r \in Runs \cup {"none"} : Examine(r)
               \/ Restart \/ UNCHANGED vars
        PROVE  UNCHANGED <<first, came>>
    BY <2>2 DEF Answer, SetGate, Tick, Look, Save, Examine, Restart, vars, mailbox
  <2>3. ASSUME \/ \E m \in Messages : Arrive(m)
               \/ \E i \in DOMAIN box : Expunge(i)
               \/ ExpungeOld
        PROVE  first' <= first /\ Top <= Top' /\ came \subseteq came'
    BY <2>3, BoxMoves
  <2>4. UNCHANGED <<first, came>> => first' <= first /\ Top <= Top' /\ came \subseteq came'
    BY <1>1 DEF Top
  <2> QED BY <2>1, <2>2, <2>3, <2>4 DEF Next
<1>4. Cardinality(came) <= Cardinality(came')
  BY <1>2, <1>3, FS_Subset
<1> QED BY <1>1, <1>2, <1>3, <1>4 DEF WithinMemory

-----------------------------------------------------------------------------
(* The start, the invariant, and what follows from it.                      *)

AutomationsInv == Types /\ SeenFits /\ Backed /\ CronOwed

LEMMA AutomationsInitially == ASSUME Init PROVE AutomationsInv
<1>1. Types
  <2>1. BookTypes
    BY DEF Init, BookTypes
  <2>2. MailTypes
    <3>1. <<>> \in Seq({}) /\ Len(<<>>) = 0
      OBVIOUS
    <3> QED BY <3>1, FS_EmptySet, AutomationsAssumption DEF Init, MailTypes
  <2>3. ThreadTypes
    BY DEF Init, ThreadTypes, Idle
  <2>4. HistoryTypes
    BY DEF Init, HistoryTypes
  <2> QED BY <2>1, <2>2, <2>3, <2>4 DEF Types
<1>2. SeenFits
  <2>1. \A a \in Autos : auto[a].seen = {}
    BY DEF Init
  <2>2. Cardinality({}) = 0 /\ 0 <= MaxSeen
    BY FS_EmptySet, AutomationsAssumption
  <2> QED BY <2>1, <2>2 DEF SeenFits
<1>3. Backed
  <2>1. \A c \in Callers : thread[c].pc # "calling"
    BY DEF Init, Idle, Threads
  <2>2. \A k \in Runs : Cardinality(Holders(k)) = 0
    BY <2>1, FS_EmptySet DEF Holders
  <2>3. \A k \in Runs : calls[k] = 0 /\ grants[k] = 0 /\ approval[k].state # "APPROVED"
    BY DEF Init, NoAsk
  <2>4. Covered
    BY <2>2, <2>3 DEF Covered, One
  <2>5. Unguarded
    BY <2>1 DEF Init, Unguarded
  <2> QED BY <2>4, <2>5 DEF Backed
<1>4. CronOwed
  <2>1. Cron \subseteq Autos
    BY AutomationsAssumption
  <2>2. \A a \in Cron : ticks[a].polled = 0 /\ ticks[a].due = 0 /\ auto[a].due = FALSE
    BY <2>1 DEF Init
  <2>3. crashes.all = 0 /\ todo = {}
    BY DEF Init
  <2> QED BY <2>2, <2>3 DEF CronOwed
<1> QED BY <1>1, <1>2, <1>3, <1>4 DEF AutomationsInv

LEMMA AutomationsAlways == Spec => []AutomationsInv
<1>1. AutomationsInv /\ [Next]_vars => AutomationsInv'
  <2> SUFFICES ASSUME AutomationsInv, [Next]_vars PROVE AutomationsInv'
    OBVIOUS
  <2>1. Types'
    BY BookStep, MailStep, ThreadsStep, HistoryStep DEF AutomationsInv, Types
  <2>2. SeenFits' /\ Backed' /\ CronOwed'
    BY SeenStep, BackedStep, CronStep DEF AutomationsInv
  <2> QED BY <2>1, <2>2 DEF AutomationsInv
<1> QED BY <1>1, AutomationsInitially, PTL DEF Spec

(* The variables keep their types: what a restart reads back is an automation, a parked *)
(* run or its completion, and no automation remembers more numbers than MAX_SEEN_UIDS.  *)
THEOREM AutomationsTypeCorrect == Spec => []TypeOK
<1>1. AutomationsInv => TypeOK
  <2> SUFFICES ASSUME Types, SeenFits PROVE TypeOK
    BY DEF AutomationsInv
  <2>1. \A i \in DOMAIN box : box[i] \in came
    BY DEF Types, MailTypes
  <2>2. first \in Numbers
    BY Finite, AutomationsAssumption DEF Types, MailTypes, Numbers
  <2>3. check = NoCheck \/ (check.auto \in Mail /\ check.seen \subseteq Numbers)
    BY DEF Types, BookTypes, Checks
  <2>4. log \in [Runs -> {NoRun} \cup [status : {"awaiting"}, auto : Writes]
                              \cup [status : {"complete"}, auto : Writes, parent : Runs]]
    BY DEF Types, BookTypes, Logged
  <2>5. {gate, lifted, bare} \subseteq BOOLEAN
    BY DEF Types, HistoryTypes
  <2> QED BY <2>1, <2>2, <2>3, <2>4, <2>5 DEF Types, BookTypes, MailTypes, SeenFits, TypeOK
<1> QED BY <1>1, AutomationsAlways, PTL

(* execute_approved(): behind the write gate the provider is called once at most for each *)
(* time an approval was granted, whoever executes which run and whatever stale deciders   *)
(* bring back; and nothing is called on no approval unless the gate was off.              *)
THEOREM AutomationsCallsAreApproved == Spec => []CallsAreApproved
<1>1. AutomationsInv => CallsAreApproved
  <2> SUFFICES ASSUME Types, Backed PROVE CallsAreApproved
    BY DEF AutomationsInv
  <2>1. ASSUME NEW k \in Runs PROVE calls[k] + One(approval[k].state = "APPROVED") <= grants[k]
    <3>1. Holders(k) \in SUBSET Callers
      BY DEF Holders
    <3>2. Cardinality(Holders(k)) \in Nat
      BY <3>1, SomeCallers
    <3>3. calls[k] \in Nat /\ grants[k] \in Nat /\ One(approval[k].state = "APPROVED") \in Nat
      BY DEF Types, HistoryTypes, One
    <3> QED BY <3>2, <3>3 DEF Backed, Covered
  <2>2. bare => lifted
    BY DEF Backed, Unguarded
  <2> QED BY <2>1, <2>2 DEF One, CallsAreApproved
<1> QED BY <1>1, AutomationsAlways, PTL

(* tick(): the poller fires a cron automation once at most for each time it falls due,    *)
(* and once more for each restart.                                                        *)
THEOREM AutomationsCronFiresOnce == Spec => []CronFiresOnce
<1>1. AutomationsInv => CronFiresOnce
  BY DEF AutomationsInv, CronOwed, CronFiresOnce
<1> QED BY <1>1, AutomationsAlways, PTL

(* _check_mail_automation(): as long as a fetch returns all the unread mail and no number *)
(* is trimmed away, a message fires again only after a restart cut a mail check short, or *)
(* once for each older message that was expunged.                                         *)
THEOREM AutomationsRefiresAreExplained == Spec => []RefiresAreExplained
<1> DEFINE Account == CallersAside /\ (WithinMemory => MailInv)
<1>1. Init => Account
  <2> SUFFICES ASSUME Init PROVE Account
    OBVIOUS
  <2>1. /\ box = <<>> /\ first = FirstNumber /\ came = {} /\ check = NoCheck /\ crashes.checks = 0
        /\ ~Holding
        /\ \A t \in Threads : thread[t] = Idle
        /\ \A a \in Autos : auto[a].seen = {}
        /\ \A a \in Autos, m \in Messages : fired[a][m] = 0
    BY DEF Init, Holding
  <2>2. CallersAside
    BY <2>1 DEF CallersAside, Threads, Idle
  <2>3. Types
    BY AutomationsInitially DEF AutomationsInv
  <2>4. OnceInBox /\ OnceInCheck /\ CheckKnows
    BY <2>1 DEF OnceInBox, OnceInCheck, CheckKnows
  <2>5. Numbered
    BY <2>1, <2>3, MailNumbers DEF Numbered
  <2>6. \A a \in Mail, m \in Messages : Firings(a, m) = 0
    <3>1. Poller \in Threads /\ Mail \subseteq Autos
      BY DEF Threads, Mail
    <3>2. \A a, m : ~InFiring(a, m)
      BY <2>1, <3>1 DEF InFiring, Idle
    <3> QED BY <2>1, <3>1, <3>2 DEF Firings, One
  <2>7. Explained /\ SavedKnows
    BY <2>3, <2>6, MailNumbers, OneType DEF Explained, SavedKnows
  <2> QED BY <2>2, <2>4, <2>5, <2>7 DEF MailInv
<1>2. AutomationsInv /\ AutomationsInv' /\ Account /\ [Next]_vars => Account'
  BY CallersAsideStep, WithinBefore, AccountStep DEF AutomationsInv
<1>3. AutomationsInv /\ Account => RefiresAreExplained
  <2> SUFFICES ASSUME Types, MailInv, WithinMemory, NEW a \in Mail, NEW m \in Messages
               PROVE  fired[a][m] <= 1 + crashes.checks + (FirstNumber - first)
    BY DEF AutomationsInv, RefiresAreExplained
  <2>1. fired[a][m] \in Nat /\ Firings(a, m) <= Allowed /\ Allowed \in Nat
    BY MailNumbers DEF MailInv, Explained
  <2> QED BY <2>1, OneType DEF Firings, Allowed
<1> QED BY <1>1, <1>2, <1>3, AutomationsAlways, PTL DEF Spec
=============================================================================
