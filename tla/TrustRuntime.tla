----------------------------- MODULE TrustRuntime -----------------------------
(***************************************************************************)
(* Durable runs and their approval checkpoints (trust_runtime.py).  Three  *)
(* files hold a run: the index, the approvals, and an append-only journal  *)
(* whose records are chained by hash.  Every mutator holds one lock over   *)
(* the whole store (threads and processes), reads what it needs and then   *)
(* writes the files one after the other.  A mutator may die between two    *)
(* writes, and an append may leave half a line behind: the lock is then    *)
(* released and what was written stays.                                    *)
(*                                                                         *)
(* A record's hash is the number of the append that made it.  A half line  *)
(* swallows the next record appended, since readers skip what they cannot  *)
(* parse.                                                                  *)
(***************************************************************************)
EXTENDS Naturals, Sequences, FiniteSets

CONSTANTS
  Runs,          \* run ids
  Checkpoints,   \* approval ids
  Linked,        \* checkpoints that carry an authority_id
  Procs,         \* threads and processes that share the state directory
  Keys,          \* idempotency keys callers give their steps
  Secretive,     \* keys that redaction rewrites, as <run>:tool:get_secret:<hash>
  StepStatuses,  \* statuses callers record
  MaxAppends,    \* bound on the appends to one journal
  MayCrash,      \* a mutator may stop between two of its writes
  TornAppends    \* a stopped append may leave half a line

ASSUME StoreAssumption ==
  /\ Linked \subseteq Checkpoints
  /\ Secretive \subseteq Keys
  /\ MaxAppends \in Nat
  /\ {MayCrash, TornAppends} \subseteq BOOLEAN
ASSUME CountableAssumption == IsFiniteSet(Checkpoints)   \* asks of a run are counted

VARIABLES
  index,      \* run_index.json
  approvals,  \* approvals.json
  journal,    \* runs/<id>.jsonl: the lines that parse
  torn,       \* the journal ends in half a line
  authority,  \* state of the ledger record behind a linked checkpoint
  said,       \* history: the verdicts that record was given
  proc,       \* the mutator each process is in, with the writes left to do
  appended,   \* appends so far
  resumes     \* history: the last records completed resumes started from

files == <<index, approvals, journal, torn, appended>>
vars  == <<index, approvals, journal, torn, authority, said, proc, appended, resumes>>

Decisions == {"approved", "denied"}
Resumable == {"pending_approval", "retryable_failure", "interrupted"}
Statuses  == StepStatuses \cup Resumable \cup Decisions \cup
             {"running", "ok", "resumed", "resumable"}
NoRun     == [status |-> "none"]
NoCheck   == [status |-> "none"]
NoKey     == <<"none">>
Redacted  == <<"redacted">>
AllKeys   == {NoKey, Redacted} \cup ({"step"} \X Keys) \cup {<<"created">>} \cup
             ({"approval", "resolved"} \X Checkpoints) \cup ({"resume"} \X (0..MaxAppends))
Records   == [key : AllKeys, status : Statuses, prev : 0..MaxAppends, hash : 1..MaxAppends]
Pending(r) == {k \in Checkpoints : approvals[k].status = "pending" /\ approvals[k].run = r}

TypeOK ==
  /\ index \in [Runs -> {NoRun} \cup
                [status : Statuses, steps : 0..MaxAppends, waiting : 0..Cardinality(Checkpoints)]]
  /\ approvals \in [Checkpoints -> {NoCheck} \cup [status : {"pending"}, run : Runs] \cup
                    [status : {"resolved"}, run : Runs, decision : Decisions, confirmed : BOOLEAN]]
  /\ \A r \in Runs : /\ Len(journal[r]) <= appended[r]
                     /\ \A i \in DOMAIN journal[r] : journal[r][i] \in Records
  /\ torn \in [Runs -> BOOLEAN]
  /\ authority \in [Linked -> {"NONE", "PENDING", "APPROVED", "DENIED", "EXPIRED", "USED"}]
  /\ said \in [Linked -> SUBSET {"APPROVED", "DENIED"}]
  /\ DOMAIN proc = Procs
  /\ appended \in [Runs -> 0..MaxAppends]
  /\ \A r \in Runs : \A i \in DOMAIN resumes[r] : resumes[r][i] \in 0..MaxAppends

Idle  == [op |-> "idle", todo |-> <<>>]
Quiet == \A p \in Procs : proc[p] = Idle

Init ==
  /\ index = [r \in Runs |-> NoRun]
  /\ approvals = [k \in Checkpoints |-> NoCheck]
  /\ journal = [r \in Runs |-> <<>>]
  /\ torn = [r \in Runs |-> FALSE]
  /\ authority = [k \in Linked |-> "NONE"]
  /\ said = [k \in Linked |-> {}]
  /\ proc = [p \in Procs |-> Idle]
  /\ appended = [r \in Runs |-> 0]
  /\ resumes = [r \in Runs |-> <<>>]

-----------------------------------------------------------------------------
(* The writes of a mutator.                                                 *)

LastHash(r)   == IF journal[r] = <<>> THEN 0 ELSE journal[r][Len(journal[r])].hash
LastStatus(r) == IF journal[r] = <<>> THEN "none" ELSE journal[r][Len(journal[r])].status

\* What to_dict() makes of a key, and what the lookup compares the caller's key with.
Stored(key) == IF key \in {"step"} \X Secretive THEN Redacted ELSE key

AlwaysFresh(r, key) == FALSE                          \* mutant: no key lookup
Recorded(r, key) == key # NoKey /\ \E i \in DOMAIN journal[r] : journal[r][i].key = key

SaveRun(r)        == [file |-> "index", run |-> r]
SaveApprovals(as) == [file |-> "approvals", to |-> as]
TwoSteps(r, s, n) == [file |-> "touch", run |-> r, status |-> s, steps |-> n + 1]
                                                      \* mutant: every touch counts a step
Touch(r, s, n)    == [file |-> "touch", run |-> r, status |-> s, steps |-> n]
Chained(r, key, s) ==
  [file |-> "journal", run |-> r, key |-> Stored(key), status |-> s, prev |-> LastHash(r)]

\* record_step(): nothing for a key found in the journal, else a chained record
\* and then the run's status and step count.
StepWrites(r, key, s) ==
  IF Recorded(r, key) THEN <<>> ELSE <<Chained(r, key, s), Touch(r, s, 1)>>

RoomFor(r) == appended[r] < MaxAppends

NoLock   == TRUE                                      \* mutant: mutators interleave
LockFree == \A p \in Procs : proc[p] = Idle

\* A mutator takes the lock, reads, and knows what it will write.
Enter(p, op, r, writes, from) ==
  /\ LockFree /\ proc[p] = Idle
  /\ writes # <<>> /\ RoomFor(r)
  /\ proc' = [proc EXCEPT ![p] = [op |-> op, run |-> r, todo |-> writes, from |-> from]]
  /\ UNCHANGED <<files, resumes>>

CreateRun(p, r) ==
  /\ index[r] = NoRun
  /\ Enter(p, "create_run", r, <<SaveRun(r)>> \o StepWrites(r, <<"created">>, "ok"), 0)
  /\ UNCHANGED <<authority, said>>

\* record_step() and, for a keyed tool call, record_tool_call().
RecordStep(p, r, key, s) ==
  /\ index[r] # NoRun
  /\ Enter(p, "record_step", r, StepWrites(r, key, s), 0)
  /\ UNCHANGED <<authority, said>>

\* create_approval(): checkpoint, journal record, status.  The caller of a linked
\* checkpoint has already filed the ledger's record.
CreateApproval(p, r, k) ==
  /\ index[r] # NoRun /\ approvals[k] = NoCheck
  /\ Enter(p, "create_approval", r,
           <<SaveApprovals([approvals EXCEPT ![k] = [status |-> "pending", run |-> r]])>>
             \o StepWrites(r, <<"approval", k>>, "pending_approval")
             \o <<Touch(r, "pending_approval", 0)>>, 0)
  /\ authority' = IF k \in Linked THEN [authority EXCEPT ![k] = "PENDING"] ELSE authority
  /\ said' = IF k \in Linked THEN [said EXCEPT ![k] = {}] ELSE said

Word(d) == IF d = "approved" THEN "APPROVED" ELSE "DENIED"

\* decide() acts on a record its SELECT found pending.  Its UPDATE asks for no state:
\* what other stores made of the record since (late) is overwritten.
FoundPending(k, late) == authority[k] = "PENDING" \/ (late /\ authority[k] # "NONE")
AfterDecide(k, d) == [authority EXCEPT ![k] = Word(d)]
SaidAfter(k, d)   == [said EXCEPT ![k] = @ \cup {Word(d)}]

AnyOutcome(asks, found) == TRUE                       \* mutant: the answer is not compared
Confirmed(asks, found) == asks => found

\* resolve_approval(): the ledger first when the caller supplies it, and no write
\* at all unless it confirms the decision.
Resolve(p, k, d, supplied, late) ==
  LET asks  == supplied /\ k \in Linked
      found == asks /\ FoundPending(k, late)
      r     == approvals[k].run
      done  == [status |-> "resolved", run |-> r, decision |-> d, confirmed |-> asks]
  IN
  /\ approvals[k].status = "pending"
  /\ authority' = IF found THEN AfterDecide(k, d) ELSE authority
  /\ said' = IF found THEN SaidAfter(k, d) ELSE said
  /\ IF Confirmed(asks, found)
     THEN Enter(p, "resolve", r,
                <<SaveApprovals([approvals EXCEPT ![k] = done])>>
                  \o StepWrites(r, <<"resolved", k>>, d)
                  \o <<Touch(r, IF d = "approved" THEN "resumable" ELSE "denied", 0)>>, 0)
     ELSE LockFree /\ UNCHANGED <<files, proc, resumes>>

AnyBoundary(r) == index[r].status \in Resumable \cup {"resumable"} \/ LastStatus(r) \in Resumable
                                                      \* mutant: pending asks ignored
AtBoundary(r) ==
  /\ Pending(r) = {}
  /\ index[r].status \in Resumable \cup {"resumable"} \/ LastStatus(r) \in Resumable

Resume(p, r) ==
  /\ index[r] # NoRun /\ AtBoundary(r)
  /\ Enter(p, "resume", r,
           StepWrites(r, <<"resume", LastHash(r)>>, "resumed") \o <<Touch(r, "running", 0)>>,
           LastHash(r))
  /\ UNCHANGED <<authority, said>>

-----------------------------------------------------------------------------
(* One write, and stopping between two.                                     *)

StaleCount(r) == 0                                    \* mutant: pending asks not recounted
WaitingOn(r)  == Cardinality(Pending(r))

Touched(run, w) == [run EXCEPT !.status = w.status, !.steps = @ + w.steps,
                               !.waiting = WaitingOn(w.run)]

WriteIndex(w) ==
  /\ w.file \in {"index", "touch"}
  /\ index' = [index EXCEPT ![w.run] =
       IF w.file = "index" THEN [status |-> "running", steps |-> 0, waiting |-> 0]
       ELSE IF @ = NoRun THEN NoRun ELSE Touched(@, w)]
  /\ UNCHANGED <<approvals, journal, torn, appended>>

WriteApprovals(w) ==
  /\ w.file = "approvals"
  /\ approvals' = w.to
  /\ UNCHANGED <<index, journal, torn, appended>>

Line(w) == [key |-> w.key, status |-> w.status, prev |-> w.prev, hash |-> appended[w.run] + 1]

WriteJournal(w) ==
  /\ w.file = "journal" /\ RoomFor(w.run)
  /\ appended' = [appended EXCEPT ![w.run] = @ + 1]
  /\ journal' = IF torn[w.run] THEN journal ELSE [journal EXCEPT ![w.run] = Append(@, Line(w))]
  /\ torn' = [torn EXCEPT ![w.run] = FALSE]
  /\ UNCHANGED <<index, approvals>>

\* The next write; after the last one the lock is released.
Write(p) ==
  /\ proc[p].todo # <<>>
  /\ LET w == Head(proc[p].todo) IN WriteIndex(w) \/ WriteApprovals(w) \/ WriteJournal(w)
  /\ IF Len(proc[p].todo) = 1
     THEN /\ proc' = [proc EXCEPT ![p] = Idle]
          /\ resumes' = IF proc[p].op = "resume"
                        THEN [resumes EXCEPT ![proc[p].run] = Append(@, proc[p].from)]
                        ELSE resumes
     ELSE /\ proc' = [proc EXCEPT ![p].todo = Tail(@)]
          /\ UNCHANGED resumes
  /\ UNCHANGED <<authority, said>>

\* The process dies, or its write fails, before the next write.
Stop(p) ==
  /\ MayCrash /\ proc[p] # Idle
  /\ proc' = [proc EXCEPT ![p] = Idle]
  /\ UNCHANGED <<files, authority, said, resumes>>

\* The append itself stops half way.
Tear(p) ==
  /\ TornAppends /\ proc[p].todo # <<>>
  /\ LET w == Head(proc[p].todo) IN
       w.file = "journal" /\ torn' = [torn EXCEPT ![w.run] = TRUE]
  /\ proc' = [proc EXCEPT ![p] = Idle]
  /\ UNCHANGED <<index, approvals, journal, authority, said, appended, resumes>>

\* The ledger's own life.  The UPDATE of a verdict asks for no state, so a decider of
\* another store that read PENDING overwrites whatever the record says by now; expiry
\* and consume() do ask.
LedgerMoves(k, s) ==
  /\ \/ s \in {"APPROVED", "DENIED"} /\ authority[k] # "NONE"
     \/ s = "EXPIRED" /\ authority[k] = "PENDING"
     \/ s = "USED" /\ authority[k] = "APPROVED"
  /\ authority' = [authority EXCEPT ![k] = s]
  /\ said' = IF s \in {"APPROVED", "DENIED"} THEN [said EXCEPT ![k] = @ \cup {s}] ELSE said
  /\ UNCHANGED <<files, proc, resumes>>

Next ==
  \/ \E p \in Procs, r \in Runs : CreateRun(p, r) \/ Resume(p, r)
  \/ \E p \in Procs, r \in Runs, s \in StepStatuses :
       RecordStep(p, r, NoKey, s) \/ \E x \in Keys : RecordStep(p, r, <<"step", x>>, s)
  \/ \E p \in Procs, r \in Runs, k \in Checkpoints : CreateApproval(p, r, k)
  \/ \E p \in Procs, k \in Checkpoints, d \in Decisions, supplied, late \in BOOLEAN :
       Resolve(p, k, d, supplied, late)
  \/ \E p \in Procs : Write(p) \/ Stop(p) \/ Tear(p)
  \/ \E k \in Linked, s \in {"APPROVED", "DENIED", "EXPIRED", "USED"} : LedgerMoves(k, s)

Spec == Init /\ [][Next]_vars

-----------------------------------------------------------------------------
\* verify_run_integrity() succeeds on what the program itself wrote: every line
\* names the hash of the one before it, after crashes and torn lines too.
ChainVerifies ==
  \A r \in Runs : \A i \in DOMAIN journal[r] :
    journal[r][i].prev = IF i = 1 THEN 0 ELSE journal[r][i - 1].hash

\* "Idempotency keys prevent duplicate step records", whoever retries and whatever
\* crashes, for every key that is stored as given.  The others are never found again.
KeysUnique ==
  \A r \in Runs : \A i, j \in DOMAIN journal[r] :
    journal[r][i].key = journal[r][j].key /\ journal[r][i].key \notin {NoKey, Redacted} => i = j

\* No ask is opened on a run while it is being resumed.
PendingBlocksResume ==
  \A p \in Procs : proc[p].op = "resume" => Pending(proc[p].run) = {}

\* A boundary is left once: no two resumes that returned started at one record.
ResumesOnce ==
  \A r \in Runs : \A i, j \in DOMAIN resumes[r] : resumes[r][i] = resumes[r][j] => i = j

Upholds(ledger, given, k, w) ==
  /\ w \in given[k]
  /\ given[k] = {w} => ledger[k] = w \/ (ledger[k] = "USED" /\ w = "APPROVED")

\* A decision that resolve_approval confirmed with the ledger was given to the ledger,
\* and as long as nobody gave it the opposite one, the ledger says so still, or that
\* the approval was used.
LedgerAgrees ==
  \A k \in Linked :
    approvals[k].status = "resolved" /\ approvals[k].confirmed =>
      Upholds(authority, said, k, Word(approvals[k].decision))

\* A resolved checkpoint is never decided again or lost.
ResolvedIsFinal ==
  [][\A k \in Checkpoints :
       approvals[k].status = "resolved" => approvals'[k] = approvals[k]]_vars

\* Between mutators the index tells what the journal and the approvals hold.
IndexAccurate ==
  Quiet => \A r \in Runs : index[r] # NoRun =>
    /\ index[r].steps = Len(journal[r])
    /\ index[r].waiting = Cardinality(Pending(r))

Decided(r, d) == \E k \in Checkpoints :
  approvals[k].status = "resolved" /\ approvals[k].run = r /\ approvals[k].decision = d

\* "resume only succeeds at safe boundaries": the refused run of a single denied
\* ask is not resumed.
DeniedStaysDown ==
  \A p \in Procs :
    proc[p].op = "resume" /\ Decided(proc[p].run, "denied") => Decided(proc[p].run, "approved")
=============================================================================
