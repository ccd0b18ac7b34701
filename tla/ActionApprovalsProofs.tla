------------------------ MODULE ActionApprovalsProofs ------------------------
(***************************************************************************)
(* What the ledger guarantees for any number of records, callers, stores   *)
(* and clock readings; and what it guarantees when one store is shared.    *)
(***************************************************************************)
EXTENDS ActionApprovals, TLAPS

(* A caller that moves on in a call keeps a well-formed call with the same id,
   and no other caller moves. *)
LEMMA AdvanceEffect ==
  ASSUME TypeOK, NEW c \in Callers, ~Idle(c),
         NEW step \in {"late", "writing"},
         call[c].op = "consume" => step = "writing",
         Advance(c, step)
  PROVE  /\ call' \in [Callers -> DecideCalls \cup ConsumeCalls \cup {NoCall}]
         /\ call'[c].id = call[c].id
         /\ \A d \in Callers \ {c} : call'[d] = call[d]
<1>1. CASE call[c] \in DecideCalls
  BY <1>1 DEF TypeOK, Advance, DecideCalls
<1>2. CASE call[c] \in ConsumeCalls
  BY <1>2 DEF TypeOK, Advance, ConsumeCalls
<1> QED BY <1>1, <1>2 DEF TypeOK, Idle

(* Setting the state of a row that exists changes that column of that row. *)
LEMMA SetStateEffect ==
  ASSUME TypeOK, NEW a \in Ids, State(a) # "NONE", NEW s \in RowStates, SetState(a, s)
  PROVE  /\ ledger' \in [Ids -> Rows \cup {NoRow}]
         /\ State(a)' = s
         /\ \A b \in Ids \ {a} : State(b)' = State(b)
<1>1. ledger[a] \in Rows
  BY DEF TypeOK, NoRow, State
<1>2. [ledger[a] EXCEPT !.state = s] \in Rows
  BY <1>1 DEF Rows
<1>3. ledger' = [ledger EXCEPT ![a] = [ledger[a] EXCEPT !.state = s]]
  BY DEF SetState
<1> QED BY <1>1, <1>2, <1>3 DEF TypeOK, State, Rows

(* The row a locked caller is about to update is in the table: nothing is     *)
(* ever deleted, so the row that the SELECT found is still there.             *)
RowPresent == \A c \in Callers : Locked(c) => State(call[c].id) # "NONE"
TypeInv    == TypeOK /\ RowPresent

(* The id of a call in flight is an id, and its verdict is a verdict. *)
LEMMA CallFields ==
  ASSUME TypeOK, NEW c \in Callers, call[c] # NoCall
  PROVE  /\ call[c].id \in Ids
         /\ call[c].op = "decide" => call[c].want \in Verdicts
  BY DEF TypeOK, DecideCalls, ConsumeCalls, NoCall

(* The invariant survives each action of a caller and of the clock. *)
LEMMA TypeStep == TypeInv /\ [Next]_vars => TypeInv'
<1> SUFFICES ASSUME TypeInv, [Next]_vars PROVE TypeInv'
  OBVIOUS
<1> USE ConstantsAssumption DEF TypeInv
<1>1. ASSUME NEW c \in Callers, NEW a \in Ids, NEW e \in Entities, NEW act \in Actions,
             NEW ttl \in Ttls, Request(c, a, e, act, ttl)
      PROVE  TypeInv'
  <2>1. NewRow(e, act, ttl) \in Rows
    BY DEF NewRow, Rows, RowStates, TypeOK
  <2>2. TypeOK'
    BY <1>1, <2>1 DEF TypeOK, Request
  <2>3. \A b \in Ids : State(b) # "NONE" => State(b)' # "NONE"
    BY <1>1 DEF Request, State, NewRow, TypeOK
  <2>4. RowPresent'
    BY <1>1, <2>3, CallFields DEF RowPresent, Request, Locked, NoCall
  <2> QED BY <2>2, <2>4
<1>2. ASSUME NEW c \in Callers, NEW a \in Ids, NEW v \in Verdicts, DecideCall(c, a, v)
      PROVE  TypeInv'
  BY <1>2 DEF TypeOK, DecideCall, DecideCalls, ledgerVars, RowPresent, Locked, State
<1>3. ASSUME NEW c \in Callers, DecideRead(c) PROVE TypeInv'
  <2>1. \A b \in Ids : State(b)' = State(b)
    BY <1>3 DEF DecideRead, ledgerVars, State
  <2>2. CASE Return(c)
    BY <1>3, <2>1, <2>2, CallFields
       DEF DecideRead, ledgerVars, TypeOK, Return, RowPresent, Locked, NoCall
  <2>3. CASE /\ State(call[c].id) # "NONE"
             /\ \E step \in {"late", "writing"} :
                  Advance(c, step) /\ (call[c].op = "consume" => step = "writing")
    <3>1. PICK step \in {"late", "writing"} :
            Advance(c, step) /\ (call[c].op = "consume" => step = "writing")
      BY <2>3
    <3>2. ~Idle(c) /\ call[c].id \in Ids
      BY <1>3, CallFields DEF DecideRead, Idle, NoCall
    <3>3. /\ call' \in [Callers -> DecideCalls \cup ConsumeCalls \cup {NoCall}]
          /\ call'[c].id = call[c].id
          /\ \A d \in Callers \ {c} : call'[d] = call[d]
      BY <3>1, <3>2, AdvanceEffect
    <3> QED
      BY <1>3, <2>1, <2>3, <3>2, <3>3, CallFields
         DEF DecideRead, ledgerVars, TypeOK, RowPresent, Locked, NoCall
  <2>4. ledger[call[c].id] = NoRow \/ State(call[c].id) # "NONE"
    BY <1>3, CallFields DEF DecideRead, State, NoCall, TypeOK, Rows, RowStates, Verdicts
  <2> QED
    BY <1>3, <2>2, <2>3, <2>4 DEF DecideRead, State
<1>4. ASSUME NEW c \in Callers, DecideLate(c) PROVE TypeInv'
  <2>1. call[c].id \in Ids
    BY <1>4, CallFields DEF DecideLate, NoCall
  <2>2. /\ ledger' \in [Ids -> Rows \cup {NoRow}]
        /\ \A b \in Ids : State(b) # "NONE" => State(b)' # "NONE"
    BY <1>4, <2>1, SetStateEffect DEF DecideLate, RowStates, TypeOK, State
  <2> QED
    BY <1>4, <2>1, <2>2, CallFields DEF TypeOK, DecideLate, Return, RowPresent, Locked, NoCall
<1>5. ASSUME NEW c \in Callers, DecideWrite(c) PROVE TypeInv'
  <2>1. call[c].id \in Ids /\ call[c].want \in Verdicts /\ State(call[c].id) # "NONE"
    BY <1>5, CallFields DEF DecideWrite, NoCall, RowPresent, Locked
  <2>2. /\ ledger' \in [Ids -> Rows \cup {NoRow}]
        /\ \A b \in Ids : State(b) # "NONE" => State(b)' # "NONE"
    BY <1>5, <2>1, SetStateEffect DEF DecideWrite, RowStates, Verdicts
  <2>3. /\ verdicts' \in [Ids -> SUBSET Verdicts]
        /\ grants' \in [Ids -> Nat]
    BY <1>5, <2>1 DEF TypeOK, DecideWrite
  <2>4. TypeOK'
    BY <1>5, <2>2, <2>3 DEF TypeOK, DecideWrite, Return
  <2> QED
    BY <1>5, <2>1, <2>2, <2>4, CallFields
       DEF TypeOK, DecideWrite, Return, RowPresent, Locked, NoCall
<1>6. ASSUME NEW c \in Callers, NEW a \in Ids, NEW e \in Entities, NEW act \in Actions,
             ConsumeCall(c, a, e, act)
      PROVE  TypeInv'
  BY <1>6 DEF TypeOK, ConsumeCall, ConsumeCalls, ledgerVars, RowPresent, Locked, State
<1>7. ASSUME NEW c \in Callers, ConsumeRead(c) PROVE TypeInv'
  <2>1. \A b \in Ids : State(b)' = State(b)
    BY <1>7 DEF ConsumeRead, ledgerVars, State
  <2>2. CASE Return(c)
    BY <1>7, <2>1, <2>2, CallFields
       DEF ConsumeRead, ledgerVars, TypeOK, Return, RowPresent, Locked, NoCall
  <2>3. CASE /\ State(call[c].id) # "NONE"
             /\ \E step \in {"late", "writing"} :
                  Advance(c, step) /\ (call[c].op = "consume" => step = "writing")
    <3>1. PICK step \in {"late", "writing"} :
            Advance(c, step) /\ (call[c].op = "consume" => step = "writing")
      BY <2>3
    <3>2. ~Idle(c) /\ call[c].id \in Ids
      BY <1>7, CallFields DEF ConsumeRead, Idle, NoCall
    <3>3. /\ call' \in [Callers -> DecideCalls \cup ConsumeCalls \cup {NoCall}]
          /\ call'[c].id = call[c].id
          /\ \A d \in Callers \ {c} : call'[d] = call[d]
      BY <3>1, <3>2, AdvanceEffect
    <3> QED
      BY <1>7, <2>1, <2>3, <3>2, <3>3, CallFields
         DEF ConsumeRead, ledgerVars, TypeOK, RowPresent, Locked, NoCall
  <2>4. ledger[call[c].id] = NoRow \/ State(call[c].id) # "NONE"
    BY <1>7, CallFields DEF ConsumeRead, State, NoCall, TypeOK, Rows, RowStates, Verdicts
  <2> QED
    BY <1>7, <2>2, <2>3, <2>4 DEF ConsumeRead, Matches, State
<1>8. ASSUME NEW c \in Callers, ConsumeWrite(c) PROVE TypeInv'
  <2>1. call[c].id \in Ids
    BY <1>8, CallFields DEF ConsumeWrite, NoCall
  <2>2. /\ ledger' \in [Ids -> Rows \cup {NoRow}]
        /\ \A b \in Ids : State(b) # "NONE" => State(b)' # "NONE"
    BY <1>8, <2>1, SetStateEffect DEF ConsumeWrite, StillApproved, RowStates, TypeOK, State
  <2>3. TypeOK'
    BY <1>8, <2>1, <2>2 DEF TypeOK, ConsumeWrite, Return
  <2> QED
    BY <1>8, <2>1, <2>2, <2>3, CallFields
       DEF TypeOK, ConsumeWrite, Return, RowPresent, Locked, NoCall
<1>9. ASSUME NEW c \in Callers, NEW t \in 0..MaxTime, Sweep(c, t) PROVE TypeInv'
  <2>1. \A b \in Ids : /\ ledger'[b] \in Rows \cup {NoRow}
                       /\ State(b) # "NONE" => State(b)' # "NONE"
    BY <1>9 DEF TypeOK, Sweep, Expirable, State, Rows, RowStates, NoRow
  <2>2. ledger' \in [Ids -> Rows \cup {NoRow}]
    BY <1>9, <2>1 DEF Sweep
  <2>3. TypeOK'
    BY <1>9, <2>2 DEF TypeOK, Sweep
  <2>4. RowPresent'
    BY <1>9, <2>1, CallFields DEF Sweep, RowPresent, Locked, NoCall, State, TypeOK
  <2> QED BY <2>3, <2>4
<1>10. ASSUME NEW c \in Callers, Abort(c) PROVE TypeInv'
  BY <1>10 DEF TypeOK, Abort, Return, ledgerVars, RowPresent, Locked, State, NoCall
<1>11. CASE Tick
  BY <1>11 DEF TypeOK, Tick, ledgerVars, RowPresent, Locked, State
<1>12. CASE UNCHANGED vars
  BY <1>12 DEF TypeOK, vars, RowPresent, Locked, State
<1> QED
  BY <1>1, <1>2, <1>3, <1>4, <1>5, <1>6, <1>7, <1>8, <1>9, <1>10, <1>11, <1>12
     DEF Next, Step

(* The invariant holds in every reachable state. *)
LEMMA TypeInvariant == Spec => []TypeInv
<1>1. Init => TypeInv
  BY ConstantsAssumption DEF Init, TypeInv, TypeOK, RowPresent, Locked, NoRow, NoCall, Verdicts
<1> QED BY <1>1, TypeStep, PTL DEF Spec

(* Type correctness of the ledger, the calls in flight and the histories. *)
THEOREM TypeCorrect == Spec => []TypeOK
<1>1. TypeInv => TypeOK
  BY DEF TypeInv
<1> QED BY <1>1, TypeInvariant, PTL

-----------------------------------------------------------------------------
(***************************************************************************)
(* What a step may do to one row and its histories, whoever takes it.      *)
(***************************************************************************)
Kept(a)     == verdicts'[a] = verdicts[a] /\ grants'[a] = grants[a] /\ uses'[a] = uses[a]
Untouched(a) == State(a)' = State(a) /\ Kept(a)
Asked(a)    == State(a) = "NONE" /\ State(a)' = "PENDING" /\ Kept(a)
Lapsed(a)   == State(a) = "PENDING" /\ State(a)' = "EXPIRED" /\ Kept(a)
Spent(a)    == /\ State(a) = "APPROVED" /\ State(a)' = "USED"
               /\ verdicts'[a] = verdicts[a] /\ grants'[a] = grants[a]
               /\ uses'[a] = uses[a] + 1
Decided(a)  == \E v \in Verdicts :
                 /\ State(a) # "NONE" /\ State(a)' = v
                 /\ verdicts'[a] = verdicts[a] \cup {v}
                 /\ grants'[a] = IF v = "APPROVED" THEN grants[a] + 1 ELSE grants[a]
                 /\ uses'[a] = uses[a]

(* A step either leaves the ledger and its histories alone or is one of five. *)
LEMMA StepKinds ==
  ASSUME [Next]_vars
  PROVE  \/ UNCHANGED ledgerVars
         \/ \E c \in Callers :
              \/ \E b \in Ids, e \in Entities, act \in Actions, ttl \in Ttls :
                   Request(c, b, e, act, ttl)
              \/ DecideLate(c) \/ DecideWrite(c) \/ ConsumeWrite(c)
              \/ \E t \in 0..MaxTime : Sweep(c, t)
<1>1. \A c \in Callers, b \in Ids, v \in Verdicts :
        DecideCall(c, b, v) => UNCHANGED ledgerVars
  BY DEF DecideCall
<1>2. \A c \in Callers, b \in Ids, e \in Entities, act \in Actions :
        ConsumeCall(c, b, e, act) => UNCHANGED ledgerVars
  BY DEF ConsumeCall
<1>3. \A c \in Callers : DecideRead(c) \/ ConsumeRead(c) \/ Abort(c) => UNCHANGED ledgerVars
  BY DEF DecideRead, ConsumeRead, Abort
<1>4. Tick \/ UNCHANGED vars => UNCHANGED ledgerVars
  BY DEF Tick, vars, ledgerVars
<1> QED BY <1>1, <1>2, <1>3, <1>4 DEF Next, Step

(* A late decision and a sweep only let pending records lapse. *)
LEMMA QuietSteps ==
  ASSUME TypeInv, NEW c \in Callers,
         DecideLate(c) \/ \E t \in 0..MaxTime : Sweep(c, t), NEW a \in Ids
  PROVE  Untouched(a) \/ Lapsed(a)
<1> USE DEF TypeInv
<1>1. CASE DecideLate(c)
  <2>1. call[c].id \in Ids
    BY <1>1, CallFields DEF DecideLate, NoCall
  <2>2. CASE State(call[c].id) = "PENDING"
    BY <1>1, <2>1, <2>2, SetStateEffect DEF DecideLate, Untouched, Lapsed, Kept, RowStates
  <2> QED BY <1>1, <2>2 DEF DecideLate, Untouched, Kept, State
<1>2. ASSUME NEW t \in 0..MaxTime, Sweep(c, t) PROVE Untouched(a) \/ Lapsed(a)
  BY <1>2 DEF Sweep, Expirable, Untouched, Lapsed, Kept, State, TypeOK, Rows
<1> QED BY <1>1, <1>2

LEMMA RowSteps ==
  ASSUME TypeInv, [Next]_vars, NEW a \in Ids
  PROVE  Untouched(a) \/ Asked(a) \/ Lapsed(a) \/ Spent(a)
           \/ \E c \in Callers : call[c].id = a /\ DecideWrite(c) /\ Decided(a)
<1> USE DEF TypeInv
<1>1. ASSUME NEW c \in Callers, NEW b \in Ids, NEW e \in Entities, NEW act \in Actions,
             NEW ttl \in Ttls, Request(c, b, e, act, ttl)
      PROVE  Untouched(a) \/ Asked(a)
  BY <1>1 DEF Request, Untouched, Asked, Kept, State, NewRow, NoRow, TypeOK
<1>2. ASSUME NEW c \in Callers, DecideLate(c) PROVE Untouched(a) \/ Lapsed(a)
  BY <1>2, QuietSteps
<1>3. ASSUME NEW c \in Callers, DecideWrite(c)
      PROVE  Untouched(a) \/ (call[c].id = a /\ Decided(a))
  <2>1. /\ call[c].id \in Ids /\ call[c].want \in Verdicts
        /\ State(call[c].id) # "NONE"
    BY <1>3, CallFields DEF DecideWrite, NoCall, RowPresent, Locked
  <2>2. PICK b \in Ids : b = call[c].id
    BY <2>1
  <2>3. /\ State(b)' = call[c].want
        /\ \A d \in Ids \ {b} : State(d)' = State(d)
    BY <1>3, <2>1, <2>2, SetStateEffect DEF DecideWrite, RowStates
  <2>4. CASE b = a
    BY <1>3, <2>1, <2>2, <2>3, <2>4 DEF DecideWrite, Decided, TypeOK
  <2>5. CASE b # a
    BY <1>3, <2>1, <2>2, <2>3, <2>5 DEF DecideWrite, Untouched, Kept, TypeOK
  <2> QED BY <2>4, <2>5
<1>4. ASSUME NEW c \in Callers, ConsumeWrite(c) PROVE Untouched(a) \/ Spent(a)
  <2>1. PICK b \in Ids : b = call[c].id
    BY <1>4, CallFields DEF ConsumeWrite, NoCall
  <2>2. CASE State(b) = "APPROVED"
    <3>1. /\ State(b)' = "USED"
          /\ \A d \in Ids \ {b} : State(d)' = State(d)
      BY <1>4, <2>1, <2>2, SetStateEffect DEF ConsumeWrite, StillApproved, RowStates
    <3> QED
      BY <1>4, <2>1, <2>2, <3>1 DEF ConsumeWrite, StillApproved, Untouched, Spent, Kept, TypeOK
  <2> QED BY <1>4, <2>1, <2>2 DEF ConsumeWrite, StillApproved, Untouched, Kept, State
<1>5. ASSUME NEW c \in Callers, NEW t \in 0..MaxTime, Sweep(c, t)
      PROVE  Untouched(a) \/ Lapsed(a)
  BY <1>5, QuietSteps
<1>6. CASE UNCHANGED ledgerVars
  BY <1>6 DEF ledgerVars, Untouched, Kept, State
<1> QED BY <1>1, <1>2, <1>3, <1>4, <1>5, <1>6, StepKinds

(* A grant is in hand for every use: consume() of one record succeeds at most *)
(* as often as the record was set to APPROVED, however many stores race.      *)
THEOREM UsesCovered == Spec => []UsesCoveredByGrants
<1>1. Init => UsesCoveredByGrants
  <2> SUFFICES ASSUME Init, NEW a \in Ids
               PROVE  uses[a] + (IF State(a) = "APPROVED" THEN 1 ELSE 0) <= grants[a]
    BY DEF UsesCoveredByGrants
  <2>1. uses[a] = 0 /\ grants[a] = 0 /\ State(a) # "APPROVED"
    BY DEF Init, State, NoRow
  <2> QED BY <2>1
<1>2. TypeInv /\ UsesCoveredByGrants /\ [Next]_vars => UsesCoveredByGrants'
  <2> SUFFICES ASSUME TypeInv, UsesCoveredByGrants, [Next]_vars, NEW a \in Ids
               PROVE  uses'[a] + (IF State(a)' = "APPROVED" THEN 1 ELSE 0) <= grants'[a]
    BY DEF UsesCoveredByGrants
  <2>1. uses[a] \in Nat /\ grants[a] \in Nat
    BY DEF TypeInv, TypeOK
  <2>2. uses[a] + (IF State(a) = "APPROVED" THEN 1 ELSE 0) <= grants[a]
    BY DEF UsesCoveredByGrants
  <2> QED
    BY <2>1, <2>2, RowSteps DEF Untouched, Asked, Lapsed, Spent, Decided, Kept, Verdicts
<1> QED BY <1>1, <1>2, TypeInvariant, PTL DEF Spec

(* A verdict nobody contradicts stands, however many stores race. *)
THEOREM VerdictIsFinal == Spec => []VerdictStands
<1>1. Init => VerdictStands
  BY DEF Init, VerdictStands
<1>2. TypeInv /\ VerdictStands /\ [Next]_vars => VerdictStands'
  <2> SUFFICES ASSUME TypeInv, VerdictStands, [Next]_vars, NEW a \in Ids
               PROVE  /\ verdicts'[a] = {"APPROVED"} => State(a)' \in {"APPROVED", "USED"}
                      /\ verdicts'[a] = {"DENIED"} => State(a)' = "DENIED"
    BY DEF VerdictStands
  <2>1. /\ verdicts[a] = {"APPROVED"} => State(a) \in {"APPROVED", "USED"}
        /\ verdicts[a] = {"DENIED"} => State(a) = "DENIED"
    BY DEF VerdictStands
  <2> QED
    BY <2>1, RowSteps DEF Untouched, Asked, Lapsed, Spent, Decided, Kept, Verdicts
<1> QED BY <1>1, <1>2, TypeInvariant, PTL DEF Spec

-----------------------------------------------------------------------------
(***************************************************************************)
(* One store: its lock makes each decision and each consumption atomic.    *)
(***************************************************************************)
LockInv ==
  /\ \A c, d \in Callers : Locked(c) /\ Locked(d) => c = d
  /\ \A c \in Callers : call[c].pc = "writing" =>
       State(call[c].id) = IF call[c].op = "decide" THEN "PENDING" ELSE "APPROVED"

(* With one store, each step keeps the lock to one caller and its read fresh. *)
LEMMA LockStep == OneStore /\ TypeInv /\ LockInv /\ [Next]_vars => LockInv'
<1> SUFFICES ASSUME OneStore, TypeInv, LockInv, [Next]_vars PROVE LockInv'
  OBVIOUS
<1> USE DEF TypeInv
<1>1. ASSUME NEW c \in Callers, NEW a \in Ids, NEW e \in Entities, NEW act \in Actions,
             NEW ttl \in Ttls, Request(c, a, e, act, ttl)
      PROVE  LockInv'
  <2>1. \A d \in Callers : ~Locked(d)
    BY <1>1 DEF Request, LockFree, OneStore
  <2> QED BY <1>1, <2>1 DEF Request, LockInv, Locked
<1>2. ASSUME NEW c \in Callers, NEW a \in Ids, NEW v \in Verdicts, DecideCall(c, a, v)
      PROVE  LockInv'
  BY <1>2 DEF DecideCall, LockInv, Locked, TypeOK, State, ledgerVars
<1>3. ASSUME NEW c \in Callers, DecideRead(c) PROVE LockInv'
  <2>1. \A d \in Callers : ~Locked(d)
    BY <1>3 DEF DecideRead, LockFree, OneStore
  <2>2. call[c] \in DecideCalls
    BY <1>3 DEF DecideRead, TypeOK, ConsumeCalls, NoCall
  <2> QED
    BY <1>3, <2>1, <2>2
       DEF DecideRead, LockInv, Locked, TypeOK, State, ledgerVars, Return, Advance, NoCall,
           DecideCalls
<1>4. ASSUME NEW c \in Callers, DecideLate(c) PROVE LockInv'
  <2>1. \A d \in Callers : Locked(d) => d = c
    BY <1>4 DEF DecideLate, LockInv, Locked
  <2> QED BY <1>4, <2>1 DEF DecideLate, LockInv, Locked, Return, NoCall, TypeOK
<1>5. ASSUME NEW c \in Callers, DecideWrite(c) PROVE LockInv'
  <2>1. \A d \in Callers : Locked(d) => d = c
    BY <1>5 DEF DecideWrite, LockInv, Locked
  <2> QED BY <1>5, <2>1 DEF DecideWrite, LockInv, Locked, Return, NoCall, TypeOK
<1>6. ASSUME NEW c \in Callers, NEW a \in Ids, NEW e \in Entities, NEW act \in Actions,
             ConsumeCall(c, a, e, act)
      PROVE  LockInv'
  BY <1>6 DEF ConsumeCall, LockInv, Locked, TypeOK, State, ledgerVars
<1>7. ASSUME NEW c \in Callers, ConsumeRead(c) PROVE LockInv'
  <2>1. \A d \in Callers : ~Locked(d)
    BY <1>7 DEF ConsumeRead, LockFree, OneStore
  <2>2. call[c] \in ConsumeCalls
    BY <1>7 DEF ConsumeRead, TypeOK, DecideCalls, NoCall
  <2> QED
    BY <1>7, <2>1, <2>2
       DEF ConsumeRead, Matches, LockInv, Locked, TypeOK, State, ledgerVars, Return, Advance,
           NoCall, ConsumeCalls
<1>8. ASSUME NEW c \in Callers, ConsumeWrite(c) PROVE LockInv'
  <2>1. \A d \in Callers : Locked(d) => d = c
    BY <1>8 DEF ConsumeWrite, LockInv, Locked
  <2> QED BY <1>8, <2>1 DEF ConsumeWrite, LockInv, Locked, Return, NoCall, TypeOK
<1>9. ASSUME NEW c \in Callers, NEW t \in 0..MaxTime, Sweep(c, t) PROVE LockInv'
  <2>1. \A d \in Callers : ~Locked(d)
    BY <1>9 DEF Sweep, LockFree, OneStore
  <2> QED BY <1>9, <2>1 DEF Sweep, LockInv, Locked
<1>10. ASSUME NEW c \in Callers, Abort(c) PROVE LockInv'
  BY <1>10 DEF Abort, LockInv, Locked, Return, NoCall, TypeOK, State, ledgerVars
<1>11. CASE Tick
  BY <1>11 DEF Tick, LockInv, Locked, State, ledgerVars
<1>12. CASE UNCHANGED vars
  BY <1>12 DEF vars, LockInv, Locked, State
<1> QED
  BY <1>1, <1>2, <1>3, <1>4, <1>5, <1>6, <1>7, <1>8, <1>9, <1>10, <1>11, <1>12
     DEF Next, Step

LEMMA LockInvariant == ASSUME OneStore PROVE Spec => [](TypeInv /\ LockInv)
<1>1. Init => LockInv
  BY DEF Init, LockInv, Locked, NoCall
<1>2. TypeInv /\ LockInv /\ [Next]_vars => LockInv'
  BY LockStep
<1> QED BY <1>1, <1>2, TypeInvariant, PTL DEF Spec

(* With one store a verdict is only written over a pending row. *)
LEMMA DecidesPending ==
  ASSUME LockInv, NEW c \in Callers, DecideWrite(c)
  PROVE  State(call[c].id) = "PENDING"
  BY DEF LockInv, DecideWrite

(* Each state of a row tells which verdict was given and whether it was used. *)
Settled ==
  \A a \in Ids :
    /\ State(a) \in {"NONE", "PENDING", "EXPIRED"} => verdicts[a] = {}
    /\ State(a) \in {"APPROVED", "USED"} => verdicts[a] = {"APPROVED"}
    /\ State(a) = "DENIED" => verdicts[a] = {"DENIED"}
    /\ State(a) = "USED" => uses[a] = 1
    /\ State(a) # "USED" => uses[a] = 0

LEMMA SettledInit == Init => Settled
<1> SUFFICES ASSUME Init, NEW a \in Ids
             PROVE  State(a) = "NONE" /\ verdicts[a] = {} /\ uses[a] = 0
  BY DEF Settled
<1> QED BY DEF Init, State, NoRow

LEMMA SettledStep == TypeInv /\ LockInv /\ Settled /\ [Next]_vars => Settled'
<1> SUFFICES ASSUME TypeInv, LockInv, Settled, [Next]_vars, NEW a \in Ids
             PROVE  /\ State(a)' \in {"NONE", "PENDING", "EXPIRED"} => verdicts'[a] = {}
                    /\ State(a)' \in {"APPROVED", "USED"} => verdicts'[a] = {"APPROVED"}
                    /\ State(a)' = "DENIED" => verdicts'[a] = {"DENIED"}
                    /\ State(a)' = "USED" => uses'[a] = 1
                    /\ State(a)' # "USED" => uses'[a] = 0
  BY DEF Settled
<1>1. /\ State(a) \in {"NONE", "PENDING", "EXPIRED"} => verdicts[a] = {}
      /\ State(a) \in {"APPROVED", "USED"} => verdicts[a] = {"APPROVED"}
      /\ State(a) = "DENIED" => verdicts[a] = {"DENIED"}
      /\ State(a) = "USED" => uses[a] = 1
      /\ State(a) # "USED" => uses[a] = 0
  BY DEF Settled
<1>2. CASE Untouched(a) \/ Asked(a) \/ Lapsed(a) \/ Spent(a)
  BY <1>1, <1>2 DEF Untouched, Asked, Lapsed, Spent, Kept
<1>3. CASE Decided(a) /\ State(a) = "PENDING"
  BY <1>1, <1>3 DEF Decided, Verdicts
<1>4. \A c \in Callers : call[c].id = a /\ DecideWrite(c) => State(a) = "PENDING"
  BY DecidesPending
<1> QED BY <1>2, <1>3, <1>4, RowSteps

(* With one store, an approval authorizes its action once: consume() returns  *)
(* True at most once for each record.                                          *)
THEOREM OneStoreSingleUse == ASSUME OneStore PROVE Spec => []SingleUse
<1>1. TypeInv /\ Settled => SingleUse
  <2> SUFFICES ASSUME TypeInv, Settled, NEW a \in Ids PROVE uses[a] <= 1
    BY DEF SingleUse
  <2> QED BY DEF Settled
<1>2. Spec => [](TypeInv /\ LockInv)
  BY LockInvariant
<1> QED BY <1>1, <1>2, SettledInit, SettledStep, PTL DEF Spec

(* With one store, a human decision is terminal: no record collects both      *)
(* verdicts.                                                                   *)
THEOREM OneStoreDecisionsAgree == ASSUME OneStore PROVE Spec => []DecisionsAgree
<1>1. TypeInv /\ Settled => DecisionsAgree
  <2> SUFFICES ASSUME TypeInv, Settled, NEW a \in Ids PROVE verdicts[a] # Verdicts
    BY DEF DecisionsAgree
  <2>1. State(a) \in RowStates \cup {"NONE"}
    BY DEF TypeInv, TypeOK, State, Rows, NoRow
  <2> QED BY <2>1 DEF Settled, RowStates, Verdicts
<1>2. Spec => [](TypeInv /\ LockInv)
  BY LockInvariant
<1> QED BY <1>1, <1>2, SettledInit, SettledStep, PTL DEF Spec

(* The status of every record, as the promise sees it. *)
Status == [a \in Ids |-> State(a)]

(* A step that leaves every other record alone moves one status of the promise. *)
LEMMA OneRowStep ==
  ASSUME NEW a \in Ids, \A b \in Ids \ {a} : State(b)' = State(b)
  PROVE  Status' = [Status EXCEPT ![a] = State(a)']
  BY DEF Status

LEMMA PromiseStep ==
  ASSUME TypeInv, LockInv, [Next]_vars
  PROVE  Promise!Next \/ UNCHANGED Status
<1> USE DEF TypeInv
<1>1. ASSUME NEW c \in Callers, NEW a \in Ids, NEW e \in Entities, NEW act \in Actions,
             NEW ttl \in Ttls, Request(c, a, e, act, ttl)
      PROVE  Promise!Next
  <2>1. /\ State(a) = "NONE" /\ State(a)' = "PENDING"
        /\ \A b \in Ids \ {a} : State(b)' = State(b)
    BY <1>1 DEF Request, State, NewRow, NoRow, TypeOK
  <2>2. Promise!Ask(a)
    BY <2>1, OneRowStep DEF Promise!Ask, Promise!Becomes, Status
  <2> QED BY <2>2 DEF Promise!Next
<1>2. ASSUME NEW c \in Callers, DecideWrite(c) PROVE Promise!Next
  <2>1. call[c].id \in Ids /\ call[c].want \in Verdicts
    BY <1>2, CallFields DEF DecideWrite, NoCall
  <2>2. PICK a \in Ids : a = call[c].id
    BY <2>1
  <2>3. State(a) = "PENDING"
    BY <1>2, <2>2, DecidesPending
  <2>4. /\ State(a)' = call[c].want
        /\ \A b \in Ids \ {a} : State(b)' = State(b)
    BY <1>2, <2>1, <2>2, <2>3, SetStateEffect DEF DecideWrite, RowStates
  <2>5. Promise!Grant(a) \/ Promise!Refuse(a)
    BY <2>1, <2>3, <2>4, OneRowStep
       DEF Promise!Grant, Promise!Refuse, Promise!Becomes, Status, Verdicts
  <2> QED BY <2>5 DEF Promise!Next
<1>3. ASSUME NEW c \in Callers, ConsumeWrite(c) PROVE Promise!Next \/ UNCHANGED Status
  <2>1. PICK a \in Ids : a = call[c].id
    BY <1>3, CallFields DEF ConsumeWrite, NoCall
  <2>2. CASE State(a) = "APPROVED"
    <3>1. /\ State(a)' = "USED"
          /\ \A b \in Ids \ {a} : State(b)' = State(b)
      BY <1>3, <2>1, <2>2, SetStateEffect DEF ConsumeWrite, StillApproved, RowStates
    <3>2. Promise!Spend(a)
      BY <2>2, <3>1, OneRowStep DEF Promise!Spend, Promise!Becomes, Status
    <3> QED BY <3>2 DEF Promise!Next
  <2>3. CASE State(a) # "APPROVED"
    BY <1>3, <2>1, <2>3 DEF ConsumeWrite, StillApproved, Status, State
  <2> QED BY <2>2, <2>3
<1>4. ASSUME NEW S \in SUBSET Ids,
             \A a \in S : State(a) = "PENDING" /\ State(a)' = "EXPIRED",
             \A a \in Ids \ S : State(a)' = State(a)
      PROVE  Promise!Next
  <2>1. Promise!Lapse(S)
    BY <1>4 DEF Promise!Lapse
  <2> QED BY <2>1 DEF Promise!Next
<1>5. CASE \A a \in Ids : Untouched(a) \/ Lapsed(a)
  <2> DEFINE S == {a \in Ids : Lapsed(a)}
  <2>1. /\ \A a \in S : State(a) = "PENDING" /\ State(a)' = "EXPIRED"
        /\ \A a \in Ids \ S : State(a)' = State(a)
    BY <1>5 DEF Lapsed, Untouched
  <2> QED BY <2>1, <1>4
<1>6. (UNCHANGED ledgerVars) => \A a \in Ids : Untouched(a)
  BY DEF ledgerVars, Untouched, Kept, State
<1>7. \A c \in Callers : DecideLate(c) => \A a \in Ids : Untouched(a) \/ Lapsed(a)
  BY QuietSteps
<1>8. \A c \in Callers, t \in 0..MaxTime : Sweep(c, t) => \A a \in Ids : Untouched(a) \/ Lapsed(a)
  BY QuietSteps
<1>9. \/ \A a \in Ids : Untouched(a) \/ Lapsed(a)
      \/ \E c \in Callers :
           \/ \E a \in Ids, e \in Entities, act \in Actions, ttl \in Ttls :
                Request(c, a, e, act, ttl)
           \/ DecideWrite(c)
           \/ ConsumeWrite(c)
  BY <1>6, <1>7, <1>8, StepKinds
<1> QED BY <1>1, <1>2, <1>3, <1>5, <1>9

(* With one store the ledger implements ActionGrant: every ask is granted or  *)
(* refused once or lapses, and a granted one is spent at most once.            *)
THEOREM OneStoreImplementsGrant == ASSUME OneStore PROVE Spec => ImplementsGrant
<1>1. Init => Promise!Init
  BY DEF Init, Promise!Init, State, NoRow
<1>2. TypeInv /\ LockInv /\ [Next]_vars => [Promise!Next]_Status
  BY PromiseStep
<1>3. Spec => [](TypeInv /\ LockInv)
  BY LockInvariant
<1> QED BY <1>1, <1>2, <1>3, PTL DEF Spec, ImplementsGrant, Promise!Spec, Status
=============================================================================
