--------------------------- MODULE ActionApprovals ---------------------------
(***************************************************************************)
(* The single-use approval ledger of connectors/action_approvals.py: one   *)
(* SQLite table of approvals, read and written by ActionApprovalStore      *)
(* objects.  A store object serialises its own callers with a lock; two    *)
(* objects on the same file share nothing but the table, and the console   *)
(* opens a fresh object for every HTTP request.  A decision is therefore a *)
(* SELECT and, later, an UPDATE, and so is a consumption; both measure the *)
(* deadline against a clock read before either.                            *)
(*                                                                         *)
(* An action (provider, method, url, body, scope) is a model value: the    *)
(* digest is equal exactly when the action is.                             *)
(***************************************************************************)
EXTENDS Integers

CONSTANTS
  Ids,        \* identifiers of approval records
  Entities,   \* accounts an action is taken for
  Actions,    \* canonical actions
  Reads,      \* the actions whose method is GET
  Callers,    \* threads that call into a store
  StoreOf,    \* the store object a caller goes through
  Ttls,       \* lifetimes a requester may ask for (at least 1: see request)
  MaxTime     \* bound on the clock

ASSUME ConstantsAssumption ==
  /\ Reads \subseteq Actions
  /\ Ttls \subseteq Nat \ {0}
  /\ MaxTime \in Nat

VARIABLES
  ledger,     \* the table
  call,       \* what each caller is in the middle of
  now,        \* time.time()
  verdicts,   \* history: the human verdicts committed for each record
  grants,     \* history: how often each record was set to APPROVED
  uses        \* history: how often consume returned True for each record

ledgerVars == <<ledger, verdicts, grants, uses>>
vars == <<ledger, call, now, verdicts, grants, uses>>

Verdicts  == {"APPROVED", "DENIED"}
RowStates == Verdicts \cup {"PENDING", "EXPIRED", "USED"}
Rows      == [state : RowStates, entity : Entities, action : Actions, expires : Nat]
NoRow     == [state |-> "NONE"]

DecideCalls  == [op : {"decide"}, pc : {"called", "late", "writing"},
                 id : Ids, want : Verdicts, at : Nat]
ConsumeCalls == [op : {"consume"}, pc : {"called", "writing"},
                 id : Ids, entity : Entities, action : Actions, at : Nat]
NoCall       == [op |-> "none", pc |-> "idle"]

TypeOK ==
  /\ ledger \in [Ids -> Rows \cup {NoRow}]
  /\ call \in [Callers -> DecideCalls \cup ConsumeCalls \cup {NoCall}]
  /\ now \in 0..MaxTime
  /\ verdicts \in [Ids -> SUBSET Verdicts]
  /\ grants \in [Ids -> Nat]
  /\ uses \in [Ids -> Nat]

Init ==
  /\ ledger = [a \in Ids |-> NoRow]
  /\ call = [c \in Callers |-> NoCall]
  /\ now = 0
  /\ verdicts = [a \in Ids |-> {}]
  /\ grants = [a \in Ids |-> 0]
  /\ uses = [a \in Ids |-> 0]

-----------------------------------------------------------------------------
State(a) == ledger[a].state

Locked(c)    == call[c].pc \in {"late", "writing"}
NoLock(c)    == TRUE                                    \* mutant: lock not taken
LockFree(c)  == \A d \in Callers : StoreOf[d] = StoreOf[c] => ~Locked(d)
Idle(c)      == call[c] = NoCall
Return(c)    == call' = [call EXCEPT ![c] = NoCall]
Advance(c, step) == call' = [call EXCEPT ![c].pc = step]
SetState(a, s) == ledger' = [ledger EXCEPT ![a].state = s]

\* Mutant: the deadline is set on the wrong side of the clock.
BornOverdue(e, act, ttl) ==
  [state |-> "PENDING", entity |-> e, action |-> act, expires |-> now - ttl]

NewRow(e, act, ttl) ==
  [state |-> "PENDING", entity |-> e, action |-> act, expires |-> now + ttl]

\* request(): a GET is refused, anything else becomes a PENDING row.
Request(c, a, e, act, ttl) ==
  /\ Idle(c) /\ LockFree(c)
  /\ ledger[a] = NoRow
  /\ act \notin Reads
  /\ ledger' = [ledger EXCEPT ![a] = NewRow(e, act, ttl)]
  /\ UNCHANGED <<call, now, verdicts, grants, uses>>

\* decide(): the clock is read before the store's lock is taken.
DecideCall(c, a, v) ==
  /\ Idle(c)
  /\ call' = [call EXCEPT ![c] =
       [op |-> "decide", pc |-> "called", id |-> a, want |-> v, at |-> now]]
  /\ UNCHANGED <<now, ledgerVars>>

\* The SELECT: an unknown id raises, a row that is settled or overdue can only
\* be expired, a pending one will take the verdict.
DecideRead(c) ==
  /\ call[c].op = "decide" /\ call[c].pc = "called" /\ LockFree(c)
  /\ LET row == ledger[call[c].id] IN
     \/ row = NoRow /\ Return(c)
     \/ /\ row # NoRow
        /\ row.state # "PENDING" \/ call[c].at >= row.expires
        /\ Advance(c, "late")
     \/ /\ row.state = "PENDING"
        /\ call[c].at < row.expires
        /\ Advance(c, "writing")
  /\ UNCHANGED <<now, ledgerVars>>

\* UPDATE ... SET state='EXPIRED' WHERE id=? AND state='PENDING'.
DecideLate(c) ==
  /\ call[c].pc = "late"
  /\ IF State(call[c].id) = "PENDING"
     THEN SetState(call[c].id, "EXPIRED")
     ELSE UNCHANGED ledger
  /\ Return(c)
  /\ UNCHANGED <<now, verdicts, grants, uses>>

\* UPDATE ... SET state=? WHERE id=?: whatever the row has become meanwhile.
DecideWrite(c) ==
  /\ call[c].op = "decide" /\ call[c].pc = "writing"
  /\ SetState(call[c].id, call[c].want)
  /\ verdicts' = [verdicts EXCEPT ![call[c].id] = @ \cup {call[c].want}]
  /\ grants' = [grants EXCEPT ![call[c].id] =
                  IF call[c].want = "APPROVED" THEN @ + 1 ELSE @]
  /\ Return(c)
  /\ UNCHANGED <<now, uses>>

ConsumeCall(c, a, e, act) ==
  /\ Idle(c)
  /\ call' = [call EXCEPT ![c] = [op |-> "consume", pc |-> "called", id |-> a,
                                  entity |-> e, action |-> act, at |-> now]]
  /\ UNCHANGED <<now, ledgerVars>>

Matches(row, k) ==
  /\ row.state = "APPROVED"
  /\ row.entity = k.entity
  /\ row.action = k.action
  /\ k.at < row.expires

\* The SELECTs of consume() and its comparison; a mismatch returns False.
ConsumeRead(c) ==
  /\ call[c].op = "consume" /\ call[c].pc = "called" /\ LockFree(c)
  /\ IF Matches(ledger[call[c].id], call[c])
     THEN Advance(c, "writing")
     ELSE Return(c)
  /\ UNCHANGED <<now, ledgerVars>>

Unguarded(a)     == TRUE               \* mutant: UPDATE without its state clause
StillApproved(a) == State(a) = "APPROVED"

\* UPDATE ... SET state='USED' WHERE id=? AND state='APPROVED'; True if it hit.
ConsumeWrite(c) ==
  /\ call[c].op = "consume" /\ call[c].pc = "writing"
  /\ IF StillApproved(call[c].id)
     THEN /\ SetState(call[c].id, "USED")
          /\ uses' = [uses EXCEPT ![call[c].id] = @ + 1]
     ELSE UNCHANGED <<ledger, uses>>
  /\ Return(c)
  /\ UNCHANGED <<now, verdicts, grants>>

\* Mutant: the sweep takes every overdue row that has not been used.
AnyOverdue(a, t) == State(a) \in {"PENDING", "APPROVED"} /\ ledger[a].expires <= t
Expirable(a, t)  == State(a) = "PENDING" /\ ledger[a].expires <= t

\* pending() and sweep(): one UPDATE against a clock read at or before now.
Sweep(c, t) ==
  /\ Idle(c) /\ LockFree(c)
  /\ t <= now
  /\ ledger' = [a \in Ids |->
       IF Expirable(a, t)
       THEN [ledger[a] EXCEPT !.state = "EXPIRED"] ELSE ledger[a]]
  /\ UNCHANGED <<call, now, verdicts, grants, uses>>

\* The caller's process dies, or SQLite raises, before the UPDATE commits.
Abort(c) ==
  /\ ~Idle(c)
  /\ Return(c)
  /\ UNCHANGED <<now, ledgerVars>>

Tick ==
  /\ now < MaxTime
  /\ now' = now + 1
  /\ UNCHANGED <<call, ledgerVars>>

Step(c) ==
  \/ \E a \in Ids, e \in Entities, act \in Actions, ttl \in Ttls : Request(c, a, e, act, ttl)
  \/ \E a \in Ids, v \in Verdicts : DecideCall(c, a, v)
  \/ DecideRead(c)
  \/ DecideLate(c)
  \/ DecideWrite(c)
  \/ \E a \in Ids, e \in Entities, act \in Actions : ConsumeCall(c, a, e, act)
  \/ ConsumeRead(c)
  \/ ConsumeWrite(c)
  \/ \E t \in 0..MaxTime : Sweep(c, t)
  \/ Abort(c)

Next == Tick \/ \E c \in Callers : Step(c)

Spec == Init /\ [][Next]_vars

-----------------------------------------------------------------------------
\* All callers go through one store object, as within one console request.
OneStore == \A c, d \in Callers : StoreOf[c] = StoreOf[d]

\* However many stores race, a record is consumed at most as often as it was set
\* to APPROVED, and one grant is in hand while it is still APPROVED: two callers
\* that both saw APPROVED in consume() cannot both burn it.
UsesCoveredByGrants ==
  \A a \in Ids :
    uses[a] + (IF State(a) = "APPROVED" THEN 1 ELSE 0) <= grants[a]

\* However many stores race, a verdict on which all deciders agree stands: no
\* sweep, late decide() or consume() of a stale reader takes it back.
VerdictStands ==
  \A a \in Ids :
    /\ verdicts[a] = {"APPROVED"} => State(a) \in {"APPROVED", "USED"}
    /\ verdicts[a] = {"DENIED"} => State(a) = "DENIED"

\* "Human decision. Terminal": no record is both approved and denied.
DecisionsAgree == \A a \in Ids : verdicts[a] # Verdicts

\* "Authorizes exactly that action, once": consume() succeeds at most once.
SingleUse == \A a \in Ids : uses[a] <= 1

\* With one store the ledger does what an approval promises.
Promise == INSTANCE ActionGrant WITH Asks <- Ids, status <- [a \in Ids |-> State(a)]
ImplementsGrant == Promise!Spec
=============================================================================
