------------------------- MODULE TrustRuntimeProofs -------------------------
(***************************************************************************)
(* What durable runs promise, for any number of runs, checkpoints,         *)
(* processes and appends: first what no crash, torn append or interleaving *)
(* of mutators can break; then what holds wherever appends are whole; and  *)
(* last what holds where mutators also run to their end.                   *)
(***************************************************************************)
EXTENDS TrustRuntime, FiniteSetTheorems, SequenceTheorems, TLAPS

Checks == {NoCheck} \cup [status : {"pending"}, run : Runs] \cup
          [status : {"resolved"}, run : Runs, decision : Decisions, confirmed : BOOLEAN]
AuthorityStates == {"NONE", "PENDING", "APPROVED", "DENIED", "EXPIRED", "USED"}
Verdicts == {"APPROVED", "DENIED"}

IndexWrites    == [file : {"index"}, run : Runs]
TouchWrites    == [file : {"touch"}, run : Runs, status : Statuses, steps : Nat]
ApprovalWrites == [file : {"approvals"}, to : [Checkpoints -> Checks]]
JournalWrites  == [file : {"journal"}, run : Runs, key : AllKeys, status : Statuses,
                   prev : 0..MaxAppends]
Writes         == IndexWrites \cup TouchWrites \cup ApprovalWrites \cup JournalWrites
Mutators       == [op : {"create_run", "record_step", "create_approval", "resolve", "resume"},
                   run : Runs, todo : Seq(Writes), from : 0..MaxAppends]

(* The part of the state the theorems are about is well formed. *)
Shape ==
  /\ approvals \in [Checkpoints -> Checks]
  /\ journal \in [Runs -> Seq(Records)]
  /\ authority \in [Linked -> AuthorityStates]
  /\ said \in [Linked -> SUBSET Verdicts]
  /\ appended \in [Runs -> 0..MaxAppends]
  /\ proc \in [Procs -> Mutators \cup {Idle}]

(* One mutator at a time, in whichever process. *)
Exclusive == \A p, q \in Procs : proc[p] # Idle /\ proc[q] # Idle => p = q

(* What a mutator computed from the files is still so when it comes to write it: the
   approvals file is written first, keeps what is resolved and claims no more than
   the ledger upholds; the one journal record follows the last and has a new key, or
   one that redaction rewrote. *)
ApprovalsFresh(op, todo, ledger, given) ==
  \A i \in DOMAIN todo : todo[i].file = "approvals" =>
    /\ i = 1 /\ op # "resume"
    /\ \A k \in Checkpoints : approvals[k].status = "resolved" => todo[i].to[k] = approvals[k]
    /\ \A k \in Linked : todo[i].to[k].status = "resolved" /\ todo[i].to[k].confirmed
                           => Upholds(ledger, given, k, Word(todo[i].to[k].decision))
JournalFresh(todo) ==
  \A i \in DOMAIN todo : todo[i].file = "journal" =>
    /\ \A j \in DOMAIN todo : todo[j].file = "journal" => i = j
    /\ todo[i].prev = LastHash(todo[i].run)
    /\ todo[i].key = Redacted \/ ~Recorded(todo[i].run, todo[i].key)
WritesFresh ==
  \A p \in Procs : ApprovalsFresh(proc[p].op, proc[p].todo, authority, said) /\ JournalFresh(proc[p].todo)

RunsInv ==
  Shape /\ Exclusive /\ WritesFresh /\ ChainVerifies /\ KeysUnique /\ PendingBlocksResume
    /\ LedgerAgrees

(* The start is in order. *)
LEMMA RunsInvInit == Init => RunsInv
<1> SUFFICES ASSUME Init PROVE RunsInv
  OBVIOUS
<1> USE StoreAssumption DEF Init
<1>1. Shape
  BY DEF Shape, Checks, AuthorityStates, Verdicts, NoCheck
<1>2. Exclusive /\ WritesFresh
  BY DEF Exclusive, WritesFresh, ApprovalsFresh, JournalFresh, Idle
<1>3. ChainVerifies /\ KeysUnique
  BY DEF ChainVerifies, KeysUnique
<1>4. PendingBlocksResume /\ LedgerAgrees
  BY DEF PendingBlocksResume, LedgerAgrees, Idle, NoCheck
<1> QED BY <1>1, <1>2, <1>3, <1>4 DEF RunsInv

-----------------------------------------------------------------------------
(* A last hash is one of the hashes, or 0. *)
LEMMA LastHashType ==
  ASSUME Shape, NEW r \in Runs
  PROVE  LastHash(r) \in 0..MaxAppends
<1>1. journal[r] # <<>> => journal[r][Len(journal[r])] \in Records
  BY DEF Shape
<1> QED BY <1>1, StoreAssumption DEF LastHash, Records

(* record_step() has nothing to write, or one chained record and one touch. *)
LEMMA StepWritesShape ==
  ASSUME Shape, NEW r \in Runs, NEW key \in AllKeys, NEW s \in Statuses
  PROVE  \/ StepWrites(r, key, s) = <<>>
         \/ /\ StepWrites(r, key, s) = <<Chained(r, key, s), Touch(r, s, 1)>>
            /\ Stored(key) = Redacted \/ ~Recorded(r, Stored(key))
            /\ Chained(r, key, s) \in JournalWrites
            /\ Chained(r, key, s).prev = LastHash(r)
            /\ Chained(r, key, s).run = r /\ Chained(r, key, s).key = Stored(key)
            /\ Touch(r, s, 1) \in TouchWrites
<1>1. Stored(key) \in AllKeys /\ Stored(key) \in {Redacted, key}
  BY DEF Stored, AllKeys
<1>2. Chained(r, key, s) \in JournalWrites
  BY <1>1, LastHashType DEF Chained, JournalWrites
<1> QED BY <1>1, <1>2 DEF StepWrites, Chained, Touch, TouchWrites

-----------------------------------------------------------------------------
(* Nothing to write is in order whatever the files hold. *)
LEMMA IdleFresh ==
  ASSUME NEW q \in Procs, proc'[q] = Idle
  PROVE  ApprovalsFresh(proc[q].op, proc[q].todo, authority, said)' /\ JournalFresh(proc[q].todo)'
<1>1. proc'[q].todo = <<>>
  BY DEF Idle
<1> QED BY <1>1 DEF ApprovalsFresh, JournalFresh

(* A mutator that enters with writes computed from the present files. *)
LEMMA EnterKeeps ==
  ASSUME RunsInv,
         NEW p \in Procs, NEW r \in Runs, NEW from \in 0..MaxAppends, NEW writes \in Seq(Writes),
         NEW op \in {"create_run", "record_step", "create_approval", "resolve", "resume"},
         Enter(p, op, r, writes, from),
         JournalFresh(writes), ApprovalsFresh(op, writes, authority', said'),
         authority' \in [Linked -> AuthorityStates], said' \in [Linked -> SUBSET Verdicts],
         \A k \in Linked : approvals[k].status = "resolved" =>
           authority'[k] = authority[k] /\ said'[k] = said[k],
         op = "resume" => Pending(r) = {}
  PROVE  RunsInv'
<1> DEFINE m == [op |-> op, run |-> r, todo |-> writes, from |-> from]
<1>1. /\ \A q \in Procs : proc[q] = Idle
      /\ proc' = [proc EXCEPT ![p] = m]
      /\ UNCHANGED <<index, approvals, journal, torn, appended, resumes>>
  BY DEF Enter, LockFree, files
<1>2. m \in Mutators
  BY DEF Mutators
<1>3. proc'[p] = m /\ \A q \in Procs \ {p} : proc'[q] = Idle
  BY <1>1 DEF RunsInv, Shape
<1>4. Shape' /\ Exclusive'
  BY <1>1, <1>2, <1>3 DEF RunsInv, Shape, Exclusive
<1>5. WritesFresh'
  <2>1. proc'[p].op = op /\ proc'[p].todo = writes
    BY <1>3
  <2>2. ApprovalsFresh(proc[p].op, proc[p].todo, authority, said)'
    BY <1>1, <2>1 DEF ApprovalsFresh
  <2>3. JournalFresh(proc[p].todo)'
    <3>1. /\ \A x \in Runs : LastHash(x)' = LastHash(x)
          /\ \A x \in Runs : \A y : Recorded(x, y)' <=> Recorded(x, y)
      BY <1>1 DEF LastHash, Recorded
    <3>2. \A i \in DOMAIN writes : writes[i].file = "journal" => writes[i].run \in Runs
      BY DEF Writes, IndexWrites, TouchWrites, ApprovalWrites, JournalWrites
    <3> QED BY <2>1, <3>1, <3>2 DEF JournalFresh
  <2> QED BY <1>3, <2>2, <2>3, IdleFresh DEF WritesFresh
<1>6. ChainVerifies' /\ KeysUnique'
  BY <1>1 DEF RunsInv, ChainVerifies, KeysUnique
<1>7. PendingBlocksResume'
  BY <1>1, <1>3 DEF PendingBlocksResume, Pending, Idle
<1>8. LedgerAgrees'
  BY <1>1 DEF RunsInv, LedgerAgrees, Upholds
<1> QED BY <1>4, <1>5, <1>6, <1>7, <1>8 DEF RunsInv

(* A mutator that stops, wherever it was. *)
LEMMA StopKeeps ==
  ASSUME RunsInv, NEW p \in Procs, proc' = [proc EXCEPT ![p] = Idle],
         UNCHANGED <<approvals, journal, authority, said, appended>>
  PROVE  RunsInv'
<1>1. proc'[p] = Idle /\ \A q \in Procs \ {p} : proc'[q] = proc[q]
  BY DEF RunsInv, Shape
<1>2. Shape' /\ Exclusive'
  BY <1>1 DEF RunsInv, Shape, Exclusive
<1>3. WritesFresh'
  <2>1. \A q \in Procs \ {p} :
          ApprovalsFresh(proc[q].op, proc[q].todo, authority, said)' /\ JournalFresh(proc[q].todo)'
    BY <1>1 DEF RunsInv, WritesFresh, ApprovalsFresh, JournalFresh, LastHash, Recorded
  <2> QED BY <1>1, <2>1, IdleFresh DEF WritesFresh
<1>4. ChainVerifies' /\ KeysUnique' /\ LedgerAgrees'
  BY DEF RunsInv, ChainVerifies, KeysUnique, LedgerAgrees
<1>5. PendingBlocksResume'
  BY <1>1 DEF RunsInv, PendingBlocksResume, Pending, Idle
<1> QED BY <1>2, <1>3, <1>4, <1>5 DEF RunsInv

(* A line appended to a journal leaves the others where they were. *)
LEMMA AppendLine ==
  ASSUME NEW j \in Seq(Records), NEW l \in Records
  PROVE  /\ Append(j, l) \in Seq(Records)
         /\ Len(j) \in Nat /\ DOMAIN j = 1 .. Len(j)
         /\ DOMAIN Append(j, l) = 1 .. Len(j) + 1
         /\ \A i \in 1 .. Len(j) : Append(j, l)[i] = j[i]
         /\ Append(j, l)[Len(j) + 1] = l
OBVIOUS

(* A chain grows by a line that names the hash of its last. *)
LEMMA ChainGrows ==
  ASSUME NEW j \in Seq(Records), NEW l \in Records,
         \A i \in DOMAIN j : j[i].prev = IF i = 1 THEN 0 ELSE j[i - 1].hash,
         l.prev = IF j = <<>> THEN 0 ELSE j[Len(j)].hash,
         NEW a, a = Append(j, l)
  PROVE  \A i \in DOMAIN a : a[i].prev = IF i = 1 THEN 0 ELSE a[i - 1].hash
<1> DEFINE n == Len(j)
<1>1. /\ n \in Nat /\ DOMAIN j = 1 .. n /\ DOMAIN a = 1 .. n + 1
      /\ \A i \in 1 .. n : a[i] = j[i]
      /\ a[n + 1] = l
      /\ j = <<>> <=> n = 0
  BY AppendLine
<1>2. l.prev = IF n = 0 THEN 0 ELSE j[n].hash
  BY <1>1
<1> HIDE DEF n
<1>3. ASSUME NEW i \in 1 .. n
      PROVE  a[i].prev = IF i = 1 THEN 0 ELSE a[i - 1].hash
  <2>1. a[i].prev = IF i = 1 THEN 0 ELSE j[i - 1].hash
    BY <1>1
  <2>2. i # 1 => i - 1 \in 1 .. n
    BY <1>1
  <2> QED BY <1>1, <2>1, <2>2
<1>4. a[n + 1].prev = IF n + 1 = 1 THEN 0 ELSE a[n + 1 - 1].hash
  <2>1. CASE n = 0
    BY <1>1, <1>2, <2>1
  <2>2. CASE n # 0
    <3>1. n \in 1 .. n /\ n + 1 - 1 = n /\ n + 1 # 1
      BY <1>1, <2>2
    <3> QED BY <1>1, <1>2, <2>2, <3>1
  <2> QED BY <2>1, <2>2
<1>5. \A i \in DOMAIN a : i \in 1 .. n \/ i = n + 1
  BY <1>1
<1> QED BY <1>3, <1>4, <1>5

(* Keys stay unique when the new line has none, or one no line has. *)
Bare == {NoKey, Redacted}
LEMMA KeysStayUnique ==
  ASSUME NEW j \in Seq(Records), NEW l \in Records,
         \A h, i \in DOMAIN j : j[h].key = j[i].key /\ j[h].key \notin Bare => h = i,
         l.key \notin Bare => \A i \in DOMAIN j : j[i].key # l.key,
         NEW a, a = Append(j, l)
  PROVE  \A h, i \in DOMAIN a : a[h].key = a[i].key /\ a[h].key \notin Bare => h = i
<1> DEFINE n == Len(j)
<1>1. /\ n \in Nat /\ DOMAIN j = 1 .. n /\ DOMAIN a = 1 .. n + 1
      /\ \A i \in 1 .. n : a[i] = j[i]
      /\ a[n + 1] = l
  BY AppendLine
<1> HIDE DEF n
<1>2. \A i \in DOMAIN a : i \in 1 .. n \/ i = n + 1
  BY <1>1
<1> QED BY <1>1, <1>2

(* The next write of a mutator, seen from the files it may change. *)
LEMMA WriteKeeps ==
  ASSUME RunsInv, NEW p \in Procs, Write(p)
  PROVE  RunsInv'
<1> DEFINE m == proc[p]
           w == Head(m.todo)
<1>1. /\ m \in Mutators /\ m.todo # <<>> /\ m # Idle
      /\ w \in Writes /\ w = m.todo[1]
  BY DEF RunsInv, Shape, Write, Idle, Mutators
<1>2. \A q \in Procs \ {p} : proc[q] = Idle
  BY <1>1 DEF RunsInv, Exclusive
<1>3. PICK rest \in {Idle, [m EXCEPT !.todo = Tail(@)]} : proc' = [proc EXCEPT ![p] = rest]
  BY DEF Write
<1>4. /\ rest \in Mutators \cup {Idle}
      /\ rest # Idle => rest.op = m.op /\ rest.run = m.run
      /\ rest.todo \in Seq(Writes)
      /\ \A i \in DOMAIN rest.todo :
           i \in Nat \ {0} /\ i + 1 \in DOMAIN m.todo /\ rest.todo[i] = m.todo[i + 1]
  <2>1. CASE rest = Idle
    BY <2>1 DEF Idle
  <2>2. CASE rest = [m EXCEPT !.todo = Tail(@)]
    <3>1. m.todo \in Seq(Writes) /\ m.todo # <<>>
      BY <1>1 DEF Mutators
    <3> DEFINE t == Tail(m.todo)
    <3>2. /\ t \in Seq(Writes)
          /\ \A i \in DOMAIN t : i \in Nat \ {0} /\ i + 1 \in DOMAIN m.todo /\ t[i] = m.todo[i + 1]
      BY <3>1
    <3>3. rest \in Mutators /\ rest.todo = t /\ rest.op = m.op /\ rest.run = m.run
      BY <1>1, <2>2, <3>2 DEF Mutators
    <3> QED BY <3>2, <3>3
  <2> QED BY <1>3, <2>1, <2>2
<1>5. proc'[p] = rest /\ \A q \in Procs \ {p} : proc'[q] = Idle
  BY <1>2, <1>3 DEF RunsInv, Shape
<1>6. UNCHANGED <<authority, said>>
  BY DEF Write
<1>7. ApprovalsFresh(m.op, m.todo, authority, said) /\ JournalFresh(m.todo)
  BY DEF RunsInv, WritesFresh
<1>8. \A i \in DOMAIN rest.todo : rest.todo[i].file # "approvals"
  BY <1>4, <1>7 DEF ApprovalsFresh
<1>9. Exclusive'
  BY <1>5 DEF Exclusive
<1>10. ApprovalsFresh(proc[p].op, proc[p].todo, authority, said)'
  BY <1>5, <1>8 DEF ApprovalsFresh
<1>11. JournalFresh(proc[p].todo)' => WritesFresh'
  BY <1>5, <1>10, IdleFresh DEF WritesFresh
<1>12. WriteIndex(w) \/ WriteApprovals(w) \/ WriteJournal(w)
  BY DEF Write
<1>13. appended' \in [Runs -> 0..MaxAppends]
  <2>1. CASE WriteJournal(w)
    BY <1>1, <2>1, StoreAssumption
       DEF WriteJournal, RoomFor, RunsInv, Shape, Writes, IndexWrites, TouchWrites,
           ApprovalWrites, JournalWrites
  <2> QED BY <1>12, <2>1 DEF WriteIndex, WriteApprovals, RunsInv, Shape
<1>14. CASE UNCHANGED journal
  <2>1. /\ \A x \in Runs : LastHash(x)' = LastHash(x)
        /\ \A x \in Runs : \A y : Recorded(x, y)' <=> Recorded(x, y)
    BY <1>14 DEF LastHash, Recorded
  <2>2. \A i \in DOMAIN rest.todo : rest.todo[i].file = "journal" => rest.todo[i].run \in Runs
    BY <1>4 DEF Writes, IndexWrites, TouchWrites, ApprovalWrites, JournalWrites
  <2>3. JournalFresh(rest.todo)
    BY <1>4, <1>7 DEF JournalFresh
  <2>4. JournalFresh(proc[p].todo)'
    BY <1>5, <2>1, <2>2, <2>3 DEF JournalFresh
  <2>5. WritesFresh' /\ ChainVerifies' /\ KeysUnique'
    BY <1>11, <1>14, <2>4 DEF RunsInv, ChainVerifies, KeysUnique
  <2>6. CASE UNCHANGED approvals
    <3>1. Shape'
      BY <1>3, <1>4, <1>6, <1>13, <1>14, <2>6 DEF RunsInv, Shape
    <3>2. PendingBlocksResume' /\ LedgerAgrees'
      BY <1>4, <1>5, <1>6, <2>6 DEF RunsInv, PendingBlocksResume, Pending, Idle, LedgerAgrees
    <3> QED BY <1>9, <2>5, <3>1, <3>2 DEF RunsInv
  <2>7. CASE WriteApprovals(w)
    <3>1. approvals' = w.to /\ w.file = "approvals" /\ w.to \in [Checkpoints -> Checks]
      BY <1>1, <2>7
         DEF WriteApprovals, Writes, IndexWrites, TouchWrites, ApprovalWrites, JournalWrites
    <3>2. /\ m.op # "resume"
          /\ \A k \in Linked : w.to[k].status = "resolved" /\ w.to[k].confirmed
                                => Upholds(authority, said, k, Word(w.to[k].decision))
      BY <1>1, <1>7, <3>1 DEF ApprovalsFresh, Mutators
    <3>3. Shape'
      BY <1>3, <1>4, <1>6, <1>13, <1>14, <3>1 DEF RunsInv, Shape
    <3>4. PendingBlocksResume'
      BY <1>4, <1>5, <3>2 DEF PendingBlocksResume, Idle
    <3>5. LedgerAgrees'
      BY <1>6, <3>1, <3>2 DEF LedgerAgrees
    <3> QED BY <1>9, <2>5, <3>3, <3>4, <3>5 DEF RunsInv
  <2> QED BY <1>12, <2>6, <2>7 DEF WriteIndex, WriteJournal
<1>15. CASE WriteJournal(w) /\ ~torn[w.run]
  <2> DEFINE r == w.run
             j == journal[r]
             l == Line(w)
  <2>1. /\ w \in JournalWrites /\ w.file = "journal" /\ r \in Runs /\ j \in Seq(Records)
        /\ UNCHANGED approvals
        /\ journal' = [journal EXCEPT ![r] = Append(j, l)]
    BY <1>1, <1>15
       DEF WriteJournal, Writes, IndexWrites, TouchWrites, ApprovalWrites, JournalWrites, RunsInv,
           Shape
  <2>2. l \in Records /\ l.key = w.key /\ l.prev = w.prev
    <3>1. appended[r] \in 0..MaxAppends /\ appended[r] < MaxAppends
      BY <1>15, <2>1 DEF WriteJournal, RoomFor, RunsInv, Shape
    <3>2. appended[r] + 1 \in 1..MaxAppends
      <4>1. \A n \in 0..MaxAppends : n < MaxAppends => n + 1 \in 1..MaxAppends
        BY StoreAssumption
      <4> HIDE DEF r
      <4> QED BY <3>1, <4>1
    <3>3. w.key \in AllKeys /\ w.status \in Statuses /\ w.prev \in 0..MaxAppends
      BY <2>1 DEF JournalWrites
    <3> QED BY <3>2, <3>3 DEF Line, Records
  <2>3. /\ journal'[r] = Append(j, l) /\ Append(j, l) \in Seq(Records)
        /\ \A x \in Runs \ {r} : journal'[x] = journal[x]
    BY <2>1, <2>2, AppendLine DEF RunsInv, Shape
  <2>5. w.prev = LastHash(r) /\ (w.key = Redacted \/ ~Recorded(r, w.key))
        /\ \A i \in DOMAIN rest.todo : rest.todo[i].file # "journal"
    <3>1. 1 \in DOMAIN m.todo /\ m.todo[1] = w
      BY <1>1 DEF Mutators
    <3> QED BY <1>4, <1>7, <2>1, <3>1 DEF JournalFresh
  <2>6. JournalFresh(proc[p].todo)'
    BY <1>5, <2>5 DEF JournalFresh
  <2>7. Shape'
    BY <1>3, <1>4, <1>6, <1>13, <2>1, <2>3 DEF RunsInv, Shape
  <2>8. ChainVerifies'
    <3>1. l.prev = IF j = <<>> THEN 0 ELSE j[Len(j)].hash
      BY <2>2, <2>5 DEF LastHash
    <3>2. \A i \in DOMAIN j : j[i].prev = IF i = 1 THEN 0 ELSE j[i - 1].hash
      BY <2>1 DEF RunsInv, ChainVerifies
    <3>3. \A i \in DOMAIN journal'[r] :
            journal'[r][i].prev = IF i = 1 THEN 0 ELSE journal'[r][i - 1].hash
      <4> HIDE DEF j, l
      <4> QED BY <2>1, <2>2, <2>3, <3>1, <3>2, ChainGrows
    <3>4. ASSUME NEW x \in Runs \ {r}
          PROVE  \A i \in DOMAIN journal'[x] :
                   journal'[x][i].prev = IF i = 1 THEN 0 ELSE journal'[x][i - 1].hash
      <4>1. journal'[x] = journal[x]
        BY <2>3
      <4>2. \A i \in DOMAIN journal[x] : journal[x][i].prev = IF i = 1 THEN 0 ELSE journal[x][i - 1].hash
        BY DEF RunsInv, ChainVerifies
      <4> HIDE DEF r, j, l
      <4> QED BY <4>1, <4>2
    <3> HIDE DEF r
    <3> QED BY <3>3, <3>4 DEF ChainVerifies
  <2>9. KeysUnique'
    <3>1. l.key \notin Bare => \A i \in DOMAIN j : j[i].key # l.key
      BY <2>2, <2>5 DEF Recorded, Bare
    <3>2. \A h, i \in DOMAIN j : j[h].key = j[i].key /\ j[h].key \notin Bare => h = i
      BY <2>1 DEF RunsInv, KeysUnique, Bare
    <3>3. \A h, i \in DOMAIN journal'[r] :
            journal'[r][h].key = journal'[r][i].key /\ journal'[r][h].key \notin Bare => h = i
      <4> HIDE DEF j, l
      <4> QED BY <2>1, <2>2, <2>3, <3>1, <3>2, KeysStayUnique
    <3>4. ASSUME NEW x \in Runs \ {r}
          PROVE  \A h, i \in DOMAIN journal'[x] :
                   journal'[x][h].key = journal'[x][i].key /\ journal'[x][h].key \notin Bare => h = i
      <4>1. journal'[x] = journal[x]
        BY <2>3
      <4>2. \A h, i \in DOMAIN journal[x] :
              journal[x][h].key = journal[x][i].key /\ journal[x][h].key \notin Bare => h = i
        BY DEF RunsInv, KeysUnique, Bare
      <4> HIDE DEF r, j, l
      <4> QED BY <4>1, <4>2
    <3> HIDE DEF r
    <3> QED BY <3>3, <3>4 DEF KeysUnique, Bare
  <2>10. PendingBlocksResume' /\ LedgerAgrees'
    BY <1>4, <1>5, <1>6, <2>1 DEF RunsInv, PendingBlocksResume, Pending, Idle, LedgerAgrees
  <2> QED BY <1>9, <1>11, <2>6, <2>7, <2>8, <2>9, <2>10 DEF RunsInv
<1> QED BY <1>12, <1>14, <1>15 DEF WriteIndex, WriteApprovals, WriteJournal
-----------------------------------------------------------------------------
(* Sequences of one and of two, by index. *)
LEMMA One ==
  ASSUME NEW S, NEW x \in S, NEW q, q = <<x>>
  PROVE  q \in Seq(S) /\ Len(q) = 1 /\ DOMAIN q = {1} /\ q[1] = x
OBVIOUS

LEMMA Two ==
  ASSUME NEW S, NEW x \in S, NEW y \in S, NEW q, q = <<x, y>>
  PROVE  q \in Seq(S) /\ Len(q) = 2 /\ DOMAIN q = {1, 2} /\ q[1] = x /\ q[2] = y
OBVIOUS

LEMMA None ==
  ASSUME NEW S, NEW q, q = <<>>
  PROVE  q \in Seq(S) /\ Len(q) = 0 /\ DOMAIN q = {}
OBVIOUS

EntryWrites(first, r, key, s, last) == first \o StepWrites(r, key, s) \o last

(* The writes of every mutator: at most one whole file, what record_step() writes, at
   most one touch. *)
LEMMA EnteringWrites ==
  ASSUME RunsInv, NEW r \in Runs, NEW key \in AllKeys, NEW s \in Statuses,
         NEW first \in Seq(IndexWrites \cup ApprovalWrites), Len(first) \in {0, 1},
         NEW last \in Seq(TouchWrites), Len(last) \in {0, 1}
  PROVE  /\ EntryWrites(first, r, key, s, last) \in Seq(Writes)
         /\ JournalFresh(EntryWrites(first, r, key, s, last))
         /\ \A i \in DOMAIN EntryWrites(first, r, key, s, last) :
              EntryWrites(first, r, key, s, last)[i].file = "approvals" =>
                i = 1 /\ 1 \in DOMAIN first /\ EntryWrites(first, r, key, s, last)[i] = first[1]
<1> DEFINE writes == EntryWrites(first, r, key, s, last)
           step == StepWrites(r, key, s)
           c == Chained(r, key, s)
           t == Touch(r, s, 1)
<1>1. \/ step = <<>>
      \/ /\ step = <<c, t>> /\ (c.key = Redacted \/ ~Recorded(r, c.key)) /\ c \in JournalWrites /\ t \in TouchWrites
         /\ c.prev = LastHash(r) /\ c.run = r
  BY StepWritesShape DEF RunsInv
<1>2. /\ first \in Seq(Writes)
      /\ \A i \in DOMAIN first : i = 1 /\ first[i].file # "journal"
  BY DEF Writes, IndexWrites, ApprovalWrites
<1>3. /\ last \in Seq(Writes)
      /\ \A i \in DOMAIN last : last[i].file = "touch"
  <2>1. TouchWrites \subseteq Writes
    BY DEF Writes
  <2>2. \A i \in DOMAIN last : last[i] \in TouchWrites
    OBVIOUS
  <2> QED BY <2>1, <2>2 DEF TouchWrites
<1>4. /\ step \in Seq(Writes) /\ Len(step) \in {0, 2}
      /\ \A i \in DOMAIN step :
           /\ step[i].file # "approvals"
           /\ step[i].file = "journal" => i = 1 /\ step[i] = c
  <2>1. CASE step = <<>>
    BY <2>1, None
  <2>2. CASE step # <<>>
    <3>1. step = <<c, t>> /\ c \in Writes /\ t \in Writes /\ c.file = "journal" /\ t.file = "touch"
      BY <1>1, <2>2 DEF Writes, JournalWrites, TouchWrites
    <3> HIDE DEF step, c, t
    <3> QED BY <3>1, Two
  <2> QED BY <2>1, <2>2
<1> HIDE DEF step, c, t
<1>5. /\ writes \in Seq(Writes)
      /\ \A i \in DOMAIN writes :
           \/ i \in DOMAIN first /\ writes[i] = first[i]
           \/ i - Len(first) \in DOMAIN step /\ writes[i] = step[i - Len(first)]
           \/ i - Len(first) - Len(step) \in DOMAIN last
              /\ writes[i] = last[i - Len(first) - Len(step)]
  <2> DEFINE both == first \o step
  <2>1. /\ both \in Seq(Writes) /\ Len(both) = Len(first) + Len(step)
        /\ \A i \in DOMAIN both :
             \/ i \in DOMAIN first /\ both[i] = first[i]
             \/ i - Len(first) \in DOMAIN step /\ both[i] = step[i - Len(first)]
    BY <1>2, <1>4
  <2>2. writes = both \o last
    BY DEF EntryWrites, step
  <2> HIDE DEF both, writes
  <2>3. /\ writes \in Seq(Writes)
        /\ \A i \in DOMAIN writes :
             \/ i \in DOMAIN both /\ writes[i] = both[i]
             \/ i - Len(both) \in DOMAIN last /\ writes[i] = last[i - Len(both)]
    BY <1>3, <2>1, <2>2
  <2>4. Len(first) \in Nat /\ Len(step) \in Nat /\ \A i \in DOMAIN writes : i \in Nat
    BY <1>2, <1>4, <2>3
  <2> QED BY <2>1, <2>3, <2>4
<1> HIDE DEF writes
<1>6. \A i \in DOMAIN writes :
        /\ writes[i].file = "approvals"
             => i = 1 /\ 1 \in DOMAIN first /\ writes[i] = first[1]
        /\ writes[i].file = "journal" => i = Len(first) + 1 /\ writes[i] = c /\ step # <<>>
  <2> SUFFICES ASSUME NEW i \in DOMAIN writes
               PROVE  /\ writes[i].file = "approvals"
                           => i = 1 /\ 1 \in DOMAIN first /\ writes[i] = first[1]
                      /\ writes[i].file = "journal"
                           => i = Len(first) + 1 /\ writes[i] = c /\ step # <<>>
    OBVIOUS
  <2> DEFINE n == Len(first)
             k == i - n
  <2>1. i \in Nat /\ n \in Nat
    BY <1>2, <1>5
  <2>2. CASE i \in DOMAIN first /\ writes[i] = first[i]
    BY <1>2, <2>2
  <2>3. CASE k \in DOMAIN step /\ writes[i] = step[k]
    <3>1. step # <<>>
      BY <2>3
    <3>2. k = 1 => i = n + 1
      BY <2>1
    <3> HIDE DEF k, n
    <3>3. writes[i].file # "approvals" /\ (writes[i].file = "journal" => k = 1 /\ writes[i] = c)
      BY <1>4, <2>3
    <3> QED BY <3>1, <3>2, <3>3 DEF n
  <2>4. CASE /\ k - Len(step) \in DOMAIN last
             /\ writes[i] = last[k - Len(step)]
    BY <1>3, <2>4
  <2> QED BY <1>5, <2>2, <2>3, <2>4
<1>7. step # <<>> => /\ c.key = Redacted \/ ~Recorded(r, c.key)
                     /\ c.prev = LastHash(r) /\ c.run = r
  BY <1>1
<1>8. JournalFresh(writes)
  BY <1>6, <1>7 DEF JournalFresh
<1> QED BY <1>5, <1>6, <1>8 DEF writes

(* Nothing in front of or behind a sequence. *)
LEMMA AppendNone ==
  ASSUME NEW S, NEW q \in Seq(S)
  PROVE  q \o <<>> = q /\ <<>> \o q = q /\ <<>> \o q \o <<>> = q
OBVIOUS

(* What record_step() writes is a list of writes. *)
LEMMA StepWritesSeq ==
  ASSUME RunsInv, NEW r \in Runs, NEW key \in AllKeys, NEW s \in Statuses
  PROVE  StepWrites(r, key, s) \in Seq(Writes)
<1>1. CASE StepWrites(r, key, s) = <<>>
  BY <1>1
<1>2. CASE StepWrites(r, key, s) # <<>>
  <2>1. /\ StepWrites(r, key, s) = <<Chained(r, key, s), Touch(r, s, 1)>>
        /\ Chained(r, key, s) \in Writes /\ Touch(r, s, 1) \in Writes
    BY <1>2, StepWritesShape DEF RunsInv, Writes
  <2> QED BY <2>1, Two
<1> QED BY <1>1, <1>2

-----------------------------------------------------------------------------
(* Each mutator's entry, by what it is about to write. *)

(* create_run() enters. *)
LEMMA CreateRunKeeps ==
  ASSUME RunsInv, NEW p \in Procs, NEW r \in Runs, CreateRun(p, r)
  PROVE  RunsInv'
<1> DEFINE first == <<SaveRun(r)>>
           writes == EntryWrites(first, r, <<"created">>, "ok", <<>>)
<1>1. /\ first \in Seq(IndexWrites \cup ApprovalWrites) /\ Len(first) = 1
      /\ first[1].file = "index"
  BY One DEF SaveRun, IndexWrites
<1>2. <<"created">> \in AllKeys /\ "ok" \in Statuses /\ 0 \in 0..MaxAppends
  BY StoreAssumption DEF AllKeys, Statuses
<1> HIDE DEF first
<1>3. /\ writes \in Seq(Writes) /\ JournalFresh(writes)
      /\ \A i \in DOMAIN writes : writes[i].file = "approvals" => writes[i] = first[1]
  BY <1>1, <1>2, None, EnteringWrites
<1>4. \A i \in DOMAIN writes : writes[i].file # "approvals"
  BY <1>1, <1>3
<1>5. writes = first \o StepWrites(r, <<"created">>, "ok")
  <2>1. first \in Seq(Writes)
    BY <1>1 DEF Writes
  <2>2. StepWrites(r, <<"created">>, "ok") \in Seq(Writes)
    BY <1>2, StepWritesSeq
  <2> QED BY <2>1, <2>2, AppendNone DEF EntryWrites
<1>6. Enter(p, "create_run", r, writes, 0) /\ UNCHANGED <<authority, said>>
  BY <1>5 DEF CreateRun, first
<1> HIDE DEF writes
<1> QED BY <1>2, <1>3, <1>4, <1>6, EnterKeeps DEF RunsInv, Shape, ApprovalsFresh

(* record_step() enters. *)
LEMMA RecordStepKeeps ==
  ASSUME RunsInv, NEW p \in Procs, NEW r \in Runs, NEW key \in AllKeys, NEW s \in Statuses,
         RecordStep(p, r, key, s)
  PROVE  RunsInv'
<1> DEFINE writes == EntryWrites(<<>>, r, key, s, <<>>)
<1>1. /\ writes \in Seq(Writes) /\ JournalFresh(writes)
      /\ \A i \in DOMAIN writes : writes[i].file # "approvals"
  BY None, EnteringWrites
<1>2. writes = StepWrites(r, key, s)
  BY StepWritesSeq, AppendNone DEF EntryWrites
<1>3. Enter(p, "record_step", r, writes, 0) /\ UNCHANGED <<authority, said>> /\ 0 \in 0..MaxAppends
  BY <1>2, StoreAssumption DEF RecordStep
<1> HIDE DEF writes
<1> QED BY <1>1, <1>3, EnterKeeps DEF RunsInv, Shape, ApprovalsFresh

(* create_approval() enters. *)
LEMMA CreateApprovalKeeps ==
  ASSUME RunsInv, NEW p \in Procs, NEW r \in Runs, NEW k \in Checkpoints, CreateApproval(p, r, k)
  PROVE  RunsInv'
<1> DEFINE as == [approvals EXCEPT ![k] = [status |-> "pending", run |-> r]]
           first == <<SaveApprovals(as)>>
           last == <<Touch(r, "pending_approval", 0)>>
           writes == EntryWrites(first, r, <<"approval", k>>, "pending_approval", last)
<1>1. as \in [Checkpoints -> Checks] /\ approvals[k] = NoCheck
  BY DEF RunsInv, Shape, Checks, CreateApproval
<1>2. /\ first \in Seq(IndexWrites \cup ApprovalWrites) /\ Len(first) = 1 /\ first[1].to = as
      /\ last \in Seq(TouchWrites) /\ Len(last) = 1
  <2>1. SaveApprovals(as) \in ApprovalWrites /\ SaveApprovals(as).to = as
    BY <1>1 DEF SaveApprovals, ApprovalWrites
  <2>2. Touch(r, "pending_approval", 0) \in TouchWrites
    BY DEF Touch, TouchWrites, Statuses, Resumable
  <2> QED BY <2>1, <2>2, One
<1>3. <<"approval", k>> \in AllKeys /\ "pending_approval" \in Statuses /\ 0 \in 0..MaxAppends
  BY StoreAssumption DEF AllKeys, Statuses, Resumable
<1>4. /\ \A x \in Checkpoints : approvals[x].status = "resolved" => as[x] = approvals[x]
      /\ \A x \in Linked : as[x].status = "resolved" => as[x] = approvals[x] /\ x # k
  BY <1>1, StoreAssumption DEF NoCheck, RunsInv, Shape
<1>5. /\ authority' \in [Linked -> AuthorityStates] /\ said' \in [Linked -> SUBSET Verdicts]
      /\ \A x \in Linked \ {k} : authority'[x] = authority[x] /\ said'[x] = said[x]
  BY DEF CreateApproval, RunsInv, Shape, AuthorityStates
<1>6. \A x \in Linked : as[x].status = "resolved" /\ as[x].confirmed
                           => Upholds(authority', said', x, Word(as[x].decision))
  BY <1>4, <1>5 DEF RunsInv, LedgerAgrees, Upholds
<1>7. \A x \in Linked : approvals[x].status = "resolved" =>
        authority'[x] = authority[x] /\ said'[x] = said[x]
  BY <1>1, <1>5 DEF NoCheck
<1>8. Enter(p, "create_approval", r, writes, 0)
  BY DEF CreateApproval, EntryWrites
<1> HIDE DEF first, last, as
<1>9. /\ writes \in Seq(Writes) /\ JournalFresh(writes)
      /\ \A i \in DOMAIN writes :
           writes[i].file = "approvals" => i = 1 /\ writes[i] = first[1]
  BY <1>2, <1>3, EnteringWrites
<1> HIDE DEF writes
<1>10. ApprovalsFresh("create_approval", writes, authority', said')
  BY <1>2, <1>4, <1>6, <1>9 DEF ApprovalsFresh
<1> QED BY <1>3, <1>5, <1>7, <1>8, <1>9, <1>10, EnterKeeps

(* resume_run() enters. *)
LEMMA ResumeKeeps ==
  ASSUME RunsInv, NEW p \in Procs, NEW r \in Runs, Resume(p, r)
  PROVE  RunsInv'
<1> DEFINE h == LastHash(r)
           last == <<Touch(r, "running", 0)>>
           step == StepWrites(r, <<"resume", h>>, "resumed")
           writes == EntryWrites(<<>>, r, <<"resume", h>>, "resumed", last)
<1>1. h \in 0..MaxAppends
  BY LastHashType DEF RunsInv
<1>2. last \in Seq(TouchWrites) /\ Len(last) = 1
  BY One DEF Touch, TouchWrites, Statuses
<1>3. <<"resume", h>> \in AllKeys /\ "resumed" \in Statuses
  BY <1>1 DEF AllKeys, Statuses
<1>4. step \in Seq(Writes)
  BY <1>3, StepWritesSeq
<1>5. Enter(p, "resume", r, step \o last, h) /\ Pending(r) = {} /\ UNCHANGED <<authority, said>>
  BY DEF Resume, AtBoundary
<1> HIDE DEF h, last
<1>6. /\ writes \in Seq(Writes) /\ JournalFresh(writes)
      /\ \A i \in DOMAIN writes : writes[i].file # "approvals"
  BY <1>2, <1>3, None, EnteringWrites
<1>7. writes = step \o last
  BY <1>4, AppendNone DEF EntryWrites
<1> HIDE DEF writes, step
<1> QED BY <1>1, <1>5, <1>6, <1>7, EnterKeeps DEF RunsInv, Shape, ApprovalsFresh

(* resolve_approval() enters. *)
LEMMA ResolveKeeps ==
  ASSUME RunsInv, NEW p \in Procs, NEW k \in Checkpoints, NEW d \in Decisions,
         NEW supplied \in BOOLEAN, NEW late \in BOOLEAN, Resolve(p, k, d, supplied, late)
  PROVE  RunsInv'
<1> DEFINE asks == supplied /\ k \in Linked
           found == asks /\ FoundPending(k, late)
           r == approvals[k].run
           s == IF d = "approved" THEN "resumable" ELSE "denied"
           done == [status |-> "resolved", run |-> r, decision |-> d, confirmed |-> asks]
           as == [approvals EXCEPT ![k] = done]
           first == <<SaveApprovals(as)>>
           last == <<Touch(r, s, 0)>>
           writes == EntryWrites(first, r, <<"resolved", k>>, d, last)
<1>1. approvals[k].status = "pending" /\ r \in Runs
  <2>1. approvals[k].status = "pending" /\ approvals[k] \in Checks
    BY DEF Resolve, RunsInv, Shape
  <2> QED BY <2>1 DEF Checks, NoCheck
<1>2. /\ authority' = IF found THEN [authority EXCEPT ![k] = Word(d)] ELSE authority
      /\ said' = IF found THEN [said EXCEPT ![k] = @ \cup {Word(d)}] ELSE said
  BY DEF Resolve, AfterDecide, SaidAfter
<1>3. /\ authority' \in [Linked -> AuthorityStates] /\ said' \in [Linked -> SUBSET Verdicts]
      /\ \A x \in Linked \ {k} : authority'[x] = authority[x] /\ said'[x] = said[x]
  BY <1>2 DEF Word, RunsInv, Shape, AuthorityStates, Verdicts
<1>4. \A x \in Linked : approvals[x].status = "resolved" =>
        authority'[x] = authority[x] /\ said'[x] = said[x]
  BY <1>1, <1>3
<1>5. CASE ~Confirmed(asks, found)
  <2>1. /\ \A q \in Procs : proc[q] = Idle
        /\ UNCHANGED <<index, approvals, journal, torn, appended, proc, resumes>>
    BY <1>5 DEF Resolve, LockFree, files
  <2>2. Shape' /\ Exclusive'
    BY <1>3, <2>1 DEF RunsInv, Shape, Exclusive
  <2>3. WritesFresh'
    BY <2>1, IdleFresh DEF WritesFresh
  <2>4. ChainVerifies' /\ KeysUnique' /\ PendingBlocksResume'
    BY <2>1 DEF RunsInv, ChainVerifies, KeysUnique, PendingBlocksResume, Pending
  <2>5. LedgerAgrees'
    BY <1>4, <2>1 DEF RunsInv, LedgerAgrees, Upholds
  <2> QED BY <2>2, <2>3, <2>4, <2>5 DEF RunsInv
<1>6. CASE Confirmed(asks, found)
  <2>1. as \in [Checkpoints -> Checks] /\ as[k] = done
    BY <1>1 DEF RunsInv, Shape, Checks
  <2>2. first \in Seq(IndexWrites \cup ApprovalWrites) /\ Len(first) = 1 /\ first[1].to = as
    <3>1. SaveApprovals(as) \in ApprovalWrites /\ SaveApprovals(as).to = as
      BY <2>1 DEF SaveApprovals, ApprovalWrites
    <3> QED BY <3>1, One
  <2>3. last \in Seq(TouchWrites) /\ Len(last) = 1
    <3>1. Touch(r, s, 0) \in TouchWrites
      BY <1>1 DEF Touch, TouchWrites, Statuses, Decisions
    <3> QED BY <3>1, One
  <2>4. <<"resolved", k>> \in AllKeys /\ d \in Statuses /\ 0 \in 0..MaxAppends
    BY StoreAssumption DEF AllKeys, Statuses
  <2>5. \A x \in Checkpoints \ {k} : as[x] = approvals[x]
    BY DEF RunsInv, Shape
  <2>6. \A x \in Linked : as[x].status = "resolved" /\ as[x].confirmed
                             => Upholds(authority', said', x, Word(as[x].decision))
    <3>1. ASSUME k \in Linked, as[k].confirmed
          PROVE  Upholds(authority', said', k, Word(as[k].decision))
      BY <1>2, <1>6, <2>1, <3>1 DEF Confirmed, Upholds, RunsInv, Shape
    <3>2. \A x \in Linked \ {k} : as[x].status = "resolved" /\ as[x].confirmed
                                      => Upholds(authority', said', x, Word(as[x].decision))
      BY <1>3, <2>5, StoreAssumption DEF RunsInv, LedgerAgrees, Upholds
    <3> QED BY <3>1, <3>2
  <2>7. \A x \in Checkpoints : approvals[x].status = "resolved" => as[x] = approvals[x]
    BY <1>1, <2>5
  <2>8. Enter(p, "resolve", r, writes, 0)
    BY <1>6 DEF Resolve, EntryWrites
  <2>11. r \in Runs
    BY <1>1
  <2> HIDE DEF first, last, as, r
  <2>9. /\ writes \in Seq(Writes) /\ JournalFresh(writes)
        /\ \A i \in DOMAIN writes :
             writes[i].file = "approvals" => i = 1 /\ writes[i] = first[1]
    BY <2>2, <2>3, <2>4, <2>11, EnteringWrites
  <2> HIDE DEF writes
  <2>10. ApprovalsFresh("resolve", writes, authority', said')
    BY <2>2, <2>6, <2>7, <2>9 DEF ApprovalsFresh
  <2> QED BY <1>3, <1>4, <2>4, <2>8, <2>9, <2>10, <2>11, EnterKeeps
<1> QED BY <1>5, <1>6

(* The ledger gives a verdict, lets a request lapse or an approval be used: what it was
   given before, and upholds, it upholds still unless the verdict is the opposite one. *)
LEMMA LedgerMovesKeeps ==
  ASSUME RunsInv, NEW k \in Linked, NEW s \in {"APPROVED", "DENIED", "EXPIRED", "USED"},
         LedgerMoves(k, s)
  PROVE  RunsInv'
<1>1. /\ authority' = [authority EXCEPT ![k] = s]
      /\ said' = IF s \in Verdicts THEN [said EXCEPT ![k] = @ \cup {s}] ELSE said
      /\ s \notin Verdicts => \/ s = "EXPIRED" /\ authority[k] = "PENDING"
                              \/ s = "USED" /\ authority[k] = "APPROVED"
      /\ UNCHANGED <<index, approvals, journal, torn, appended, proc, resumes>>
  BY DEF LedgerMoves, files, Verdicts
<1>2. ASSUME NEW x \in Linked, NEW d, Upholds(authority, said, x, Word(d))
      PROVE  Upholds(authority', said', x, Word(d))
  <2>1. Word(d) \in Verdicts
    BY DEF Word, Verdicts
  <2>2. CASE x # k
    BY <1>1, <1>2, <2>2 DEF Upholds, RunsInv, Shape
  <2>3. CASE x = k /\ s \in Verdicts
    <3>1. authority'[k] = s /\ said'[k] = said[k] \cup {s}
      BY <1>1, <2>3 DEF RunsInv, Shape
    <3> QED BY <1>2, <2>3, <3>1 DEF Upholds
  <2>4. CASE x = k /\ s \notin Verdicts
    <3>1. authority'[k] = s /\ said'[k] = said[k]
      BY <1>1, <2>4 DEF RunsInv, Shape
    <3> QED BY <1>1, <1>2, <2>1, <2>4, <3>1 DEF Upholds, Verdicts
  <2> QED BY <2>2, <2>3, <2>4
<1>3. Shape' /\ Exclusive'
  BY <1>1 DEF RunsInv, Shape, Exclusive, AuthorityStates, Verdicts
<1>4. WritesFresh'
  <2>1. \A q \in Procs : JournalFresh(proc[q].todo)'
    BY <1>1 DEF RunsInv, WritesFresh, JournalFresh, LastHash, Recorded
  <2>2. \A q \in Procs : ApprovalsFresh(proc[q].op, proc[q].todo, authority, said)'
    BY <1>1, <1>2 DEF RunsInv, WritesFresh, ApprovalsFresh
  <2> QED BY <2>1, <2>2 DEF WritesFresh
<1>5. ChainVerifies' /\ KeysUnique' /\ PendingBlocksResume'
  BY <1>1 DEF RunsInv, ChainVerifies, KeysUnique, PendingBlocksResume, Pending
<1>6. LedgerAgrees'
  BY <1>1, <1>2 DEF RunsInv, LedgerAgrees
<1> QED BY <1>3, <1>4, <1>5, <1>6 DEF RunsInv

(* Every step keeps what no crash can break. *)
LEMMA RunsInvStep == RunsInv /\ [Next]_vars => RunsInv'
<1> SUFFICES ASSUME RunsInv, [Next]_vars PROVE RunsInv'
  OBVIOUS
<1>1. ASSUME NEW p \in Procs, NEW r \in Runs, CreateRun(p, r) \/ Resume(p, r)
      PROVE  RunsInv'
  BY <1>1, CreateRunKeeps, ResumeKeeps
<1>2. ASSUME NEW p \in Procs, NEW r \in Runs, NEW s \in StepStatuses,
             RecordStep(p, r, NoKey, s) \/ \E x \in Keys : RecordStep(p, r, <<"step", x>>, s)
      PROVE  RunsInv'
  <2>1. s \in Statuses /\ NoKey \in AllKeys /\ \A x \in Keys : <<"step", x>> \in AllKeys
    BY DEF Statuses, AllKeys
  <2> QED BY <1>2, <2>1, RecordStepKeeps
<1>3. ASSUME NEW p \in Procs, NEW r \in Runs, NEW k \in Checkpoints, CreateApproval(p, r, k)
      PROVE  RunsInv'
  BY <1>3, CreateApprovalKeeps
<1>4. ASSUME NEW p \in Procs, NEW k \in Checkpoints, NEW d \in Decisions,
             NEW supplied \in BOOLEAN, NEW late \in BOOLEAN, Resolve(p, k, d, supplied, late)
      PROVE  RunsInv'
  BY <1>4, ResolveKeeps
<1>5. ASSUME NEW p \in Procs, Write(p) PROVE RunsInv'
  BY <1>5, WriteKeeps
<1>6. ASSUME NEW p \in Procs, Stop(p) \/ Tear(p) PROVE RunsInv'
  <2>1. /\ proc' = [proc EXCEPT ![p] = Idle]
        /\ UNCHANGED <<approvals, journal, authority, said, appended>>
    BY <1>6 DEF Stop, Tear, files
  <2> QED BY <2>1, StopKeeps
<1>7. ASSUME NEW k \in Linked, NEW s \in {"APPROVED", "DENIED", "EXPIRED", "USED"}, LedgerMoves(k, s)
      PROVE  RunsInv'
  BY <1>7, LedgerMovesKeeps
<1>8. CASE UNCHANGED vars
  <2>1. UNCHANGED <<approvals, journal, authority, said, proc, appended>>
    BY <1>8 DEF vars
  <2>2. Shape' /\ Exclusive' /\ ChainVerifies' /\ KeysUnique'
    BY <2>1 DEF RunsInv, Shape, Exclusive, ChainVerifies, KeysUnique
  <2>3. WritesFresh'
    BY <2>1 DEF RunsInv, WritesFresh, ApprovalsFresh, JournalFresh, LastHash, Recorded
  <2>4. PendingBlocksResume' /\ LedgerAgrees'
    BY <2>1 DEF RunsInv, PendingBlocksResume, Pending, LedgerAgrees
  <2> QED BY <2>2, <2>3, <2>4 DEF RunsInv
<1> QED BY <1>1, <1>2, <1>3, <1>4, <1>5, <1>6, <1>7, <1>8 DEF Next

LEMMA RunsInvAlways == Spec => []RunsInv
BY RunsInvInit, RunsInvStep, PTL DEF Spec

-----------------------------------------------------------------------------
(* Every record names the hash of the record before it, whatever crashes, half lines
   and interleavings the journal went through: verify_run_integrity() succeeds. *)
THEOREM RunsChainVerifies == Spec => []ChainVerifies
<1>1. RunsInv => ChainVerifies
  BY DEF RunsInv
<1> QED BY <1>1, RunsInvAlways, PTL

(* A retry never records a step twice: no idempotency key that redaction leaves as it is
   occurs at two records. *)
THEOREM RunsKeysUnique == Spec => []KeysUnique
<1>1. RunsInv => KeysUnique
  BY DEF RunsInv
<1> QED BY <1>1, RunsInvAlways, PTL

(* A run is never being resumed while one of its checkpoints is pending. *)
THEOREM RunsPendingBlocksResume == Spec => []PendingBlocksResume
<1>1. RunsInv => PendingBlocksResume
  BY DEF RunsInv
<1> QED BY <1>1, RunsInvAlways, PTL

(* A checkpoint resolved against the ledger says what the ledger was told and, until
   somebody tells it the opposite, says still. *)
THEOREM RunsLedgerAgrees == Spec => []LedgerAgrees
<1>1. RunsInv => LedgerAgrees
  BY DEF RunsInv
<1> QED BY <1>1, RunsInvAlways, PTL

(* Only the first write of a mutator replaces the approvals file, and what it writes was
   computed from the file it replaces: a resolved checkpoint stays as it is. *)
THEOREM RunsResolvedIsFinal == Spec => ResolvedIsFinal
<1> DEFINE Kept == \A k \in Checkpoints :
             approvals[k].status = "resolved" => approvals'[k] = approvals[k]
<1>1. RunsInv /\ Next => Kept
  <2> SUFFICES ASSUME RunsInv, Next, ~UNCHANGED approvals PROVE Kept
    OBVIOUS
  <2>1. PICK p \in Procs : Write(p)
    <3>1. \A p \in Procs, r \in Runs : CreateRun(p, r) \/ Resume(p, r) => UNCHANGED approvals
      BY DEF CreateRun, Resume, Enter, files
    <3>2. \A p \in Procs, r \in Runs, s \in StepStatuses :
            /\ RecordStep(p, r, NoKey, s) => UNCHANGED approvals
            /\ \A x \in Keys : RecordStep(p, r, <<"step", x>>, s) => UNCHANGED approvals
      BY DEF RecordStep, Enter, files
    <3>3. \A p \in Procs, r \in Runs, k \in Checkpoints :
            CreateApproval(p, r, k) => UNCHANGED approvals
      BY DEF CreateApproval, Enter, files
    <3>4. \A p \in Procs, k \in Checkpoints, d \in Decisions, supplied, late \in BOOLEAN :
            Resolve(p, k, d, supplied, late) => UNCHANGED approvals
      BY DEF Resolve, Enter, files
    <3>5. \A p \in Procs : Stop(p) \/ Tear(p) => UNCHANGED approvals
      BY DEF Stop, Tear, files
    <3>6. \A k \in Linked, s \in {"APPROVED", "DENIED", "EXPIRED", "USED"} :
            LedgerMoves(k, s) => UNCHANGED approvals
      BY DEF LedgerMoves, files
    <3> QED BY <3>1, <3>2, <3>3, <3>4, <3>5, <3>6 DEF Next
  <2> DEFINE w == Head(proc[p].todo)
  <2>2. w.file = "approvals" /\ approvals' = w.to
    BY <2>1 DEF Write, WriteIndex, WriteApprovals, WriteJournal
  <2>3. 1 \in DOMAIN proc[p].todo /\ w = proc[p].todo[1]
    BY <2>1 DEF Write, RunsInv, Shape, Mutators, Idle
  <2> QED BY <2>2, <2>3 DEF RunsInv, WritesFresh, ApprovalsFresh
<1>2. RunsInv /\ [Next]_vars => [Kept]_vars
  BY <1>1
<1> QED BY <1>2, RunsInvAlways, PTL DEF Spec, ResolvedIsFinal

-----------------------------------------------------------------------------
(* What is left of a mutator's plan: the whole file it replaces comes first, every
   journal record is followed by the touch that counts it, no other touch counts a
   step after the first write, and a touch of its run comes last. *)
Ordered(m) ==
  /\ m.todo # <<>>
  /\ m.todo[Len(m.todo)].file = "touch"
  /\ \A i \in DOMAIN m.todo :
       /\ m.todo[i].file # "approvals" => m.todo[i].run = m.run
       /\ m.todo[i].file \in {"index", "approvals"} => i = 1
       /\ m.todo[i].file = "touch" =>
            /\ m.todo[i].steps \in {0, 1}
            /\ i > 1 => (m.todo[i].steps = 1 <=> m.todo[i - 1].file = "journal")

(* The approvals file once the mutator is through: it changes checkpoints of its run. *)
After(m)  == IF m.todo[1].file = "approvals" THEN m.todo[1].to ELSE approvals
ToOwn(m)  ==
  \A k \in Checkpoints :
    \/ After(m)[k] = approvals[k]
    \/ /\ After(m)[k] # NoCheck /\ After(m)[k].run = m.run
       /\ approvals[k] = NoCheck \/ approvals[k].run = m.run

(* The program's own idempotency keys: a checkpoint's are recorded behind the
   checkpoint, a resume's behind the record it starts from. *)
KeysBacked(m) ==
  \A i \in DOMAIN m.todo : m.todo[i].file = "journal" =>
    /\ \A k \in Checkpoints :
         /\ m.todo[i].key = <<"approval", k>> => After(m)[k] # NoCheck
         /\ m.todo[i].key = <<"resolved", k>> => After(m)[k].status = "resolved"
    /\ \A h \in 0..MaxAppends : m.todo[i].key = <<"resume", h>> => h <= appended[m.run]

Sound(m) ==
  /\ Ordered(m) /\ ToOwn(m) /\ KeysBacked(m)
  /\ m.todo[1].file = "index" <=> index[m.run] = NoRun
Planned == \A p \in Procs : proc[p] # Idle => Sound(proc[p])

RunRows == [status : Statuses, steps : Nat, waiting : 0..Cardinality(Checkpoints)]
Rows ==
  /\ index \in [Runs -> {NoRun} \cup RunRows]
  /\ torn \in [Runs -> BOOLEAN]
  /\ resumes \in [Runs -> Seq(0..MaxAppends)]

(* A journal belongs to a run of the index, and so does a checkpoint. *)
Known ==
  /\ \A r \in Runs : index[r] = NoRun => journal[r] = <<>>
  /\ \A k \in Checkpoints : approvals[k] # NoCheck => index[approvals[k].run] # NoRun
KeysKept ==
  \A r \in Runs, k \in Checkpoints :
    /\ Recorded(r, <<"approval", k>>) => approvals[k] # NoCheck
    /\ Recorded(r, <<"resolved", k>>) => approvals[k].status = "resolved"

(* The last record has the greatest hash, and what a resume's key names is older than
   the record. *)
HashesGrow ==
  \A r \in Runs :
    /\ Len(journal[r]) <= appended[r]
    /\ LastHash(r) <= appended[r]
    /\ \A i \in DOMAIN journal[r] :
         /\ journal[r][i].hash <= LastHash(r)
         /\ \A h \in 0..MaxAppends :
              journal[r][i].key = <<"resume", h>> => h < journal[r][i].hash

(* A record appended and not yet counted in the index. *)
Uncounted(m) == m.todo # <<>> /\ m.todo[1].file = "touch" /\ m.todo[1].steps = 1
Owed(r)      == IF \E p \in Procs : Uncounted(proc[p]) /\ proc[p].run = r THEN 1 ELSE 0
StepsBounded == \A r \in Runs : index[r] # NoRun => index[r].steps + Owed(r) <= appended[r]

FilesInv == Rows /\ Planned /\ Known /\ KeysKept /\ HashesGrow /\ StepsBounded

(* The start is in order. *)
LEMMA FilesInvInit == Init => FilesInv
<1> SUFFICES ASSUME Init PROVE FilesInv
  OBVIOUS
<1> USE StoreAssumption DEF Init
<1>1. Rows /\ Known /\ KeysKept /\ HashesGrow
  BY DEF Rows, Known, KeysKept, Recorded, HashesGrow, LastHash
<1>2. Planned /\ StepsBounded
  BY DEF Planned, StepsBounded
<1> QED BY <1>1, <1>2 DEF FilesInv

-----------------------------------------------------------------------------
(* A row of the index is not the mark of a run that does not exist. *)
LEMMA RowsDiffer == \A x \in RunRows : x # NoRun
BY DEF RunRows, NoRun

(* The keys the program makes are of different kinds. *)
LEMMA KeysDiffer ==
  /\ \A k, h : <<"approval", k>> # <<"resolved", h>> /\ <<"approval", k>> # <<"resume", h>>
               /\ <<"resolved", k>> # <<"resume", h>>
  /\ \A x, h : <<"step", x>> # <<"approval", h>> /\ <<"step", x>> # <<"resolved", h>>
               /\ <<"step", x>> # <<"resume", h>>
  /\ \A h : <<"created">> # <<"approval", h>> /\ <<"created">> # <<"resolved", h>>
            /\ <<"created">> # <<"resume", h>>
  /\ \A h : /\ Redacted # <<"approval", h>> /\ Redacted # <<"resolved", h>>
            /\ Redacted # <<"resume", h>>
  /\ \A h : NoKey # <<"approval", h>> /\ NoKey # <<"resolved", h>> /\ NoKey # <<"resume", h>>
  /\ \A k, h : <<"approval", k>> = <<"approval", h>> => k = h
  /\ \A k, h : <<"resolved", k>> = <<"resolved", h>> => k = h
  /\ \A k, h : <<"resume", k>> = <<"resume", h>> => k = h
BY DEF NoKey, Redacted

(* Plans spelled out. *)
LEMMA FirstAndTwo ==
  ASSUME NEW a, NEW b, NEW c, NEW q, q = <<a>> \o <<b, c>>
  PROVE  q = <<a, b, c>>
<1> DEFINE S == {a, b, c}
<1>1. <<a>> \in Seq(S) /\ <<b, c>> \in Seq(S)
  OBVIOUS
<1>2. q \in Seq(S) /\ Len(q) = 3 /\ q[1] = a /\ q[2] = b /\ q[3] = c
  BY <1>1
<1>3. <<a, b, c>> \in Seq(S) /\ Len(<<a, b, c>>) = 3
  OBVIOUS
<1>4. \A i \in 1..3 : q[i] = <<a, b, c>>[i]
  BY <1>2
<1> HIDE DEF S
<1> QED BY <1>2, <1>3, <1>4, SeqEqual

(* Two writes in front of a last one, by index. *)
LEMMA TwoAndLast ==
  ASSUME NEW b, NEW c, NEW d, NEW q, q = <<b, c>> \o <<d>>
  PROVE  q = <<b, c, d>>
<1> DEFINE S == {b, c, d}
<1>1. <<d>> \in Seq(S) /\ <<b, c>> \in Seq(S)
  OBVIOUS
<1>2. q \in Seq(S) /\ Len(q) = 3 /\ q[1] = b /\ q[2] = c /\ q[3] = d
  BY <1>1
<1>4. \A i \in 1..3 : q[i] = <<b, c, d>>[i]
  BY <1>2
<1>3. <<b, c, d>> \in Seq(S) /\ Len(<<b, c, d>>) = 3
  OBVIOUS
<1> HIDE DEF S
<1> QED BY <1>2, <1>3, <1>4, SeqEqual

(* Three writes in front of a last one, by index. *)
LEMMA ThreeAndLast ==
  ASSUME NEW a, NEW b, NEW c, NEW d, NEW q, q = <<a, b, c>> \o <<d>>
  PROVE  q = <<a, b, c, d>>
<1> DEFINE S == {a, b, c, d}
<1>1. <<d>> \in Seq(S) /\ <<a, b, c>> \in Seq(S)
  OBVIOUS
<1>2. q \in Seq(S) /\ Len(q) = 4 /\ q[1] = a /\ q[2] = b /\ q[3] = c /\ q[4] = d
  BY <1>1
<1>4. \A i \in 1..4 : q[i] = <<a, b, c, d>>[i]
  BY <1>2
<1>3. <<a, b, c, d>> \in Seq(S) /\ Len(<<a, b, c, d>>) = 4
  OBVIOUS
<1> HIDE DEF S
<1> QED BY <1>2, <1>3, <1>4, SeqEqual

(* A plan: a whole file or none, a record, the touch that counts it, a last touch or none. *)
PlanOf(m, x, c, t, y) ==
  /\ x.file = "approvals" \/ (x.file = "index" /\ x.run = m.run)
  /\ c.file = "journal" /\ c.run = m.run
  /\ t.file = "touch" /\ t.run = m.run /\ t.steps = 1
  /\ y.file = "touch" /\ y.run = m.run /\ y.steps = 0
  /\ m.todo \in {<<c, t>>, <<x, c, t>>, <<c, t, y>>, <<x, c, t, y>>}

(* Such a plan is in order. *)
LEMMA PlanOrdered ==
  ASSUME NEW m, NEW x, NEW c, NEW t, NEW y, PlanOf(m, x, c, t, y)
  PROVE  /\ Ordered(m)
         /\ \A i \in DOMAIN m.todo : m.todo[i].file = "journal" => m.todo[i] = c
         /\ \E i \in DOMAIN m.todo : m.todo[i] = c
         /\ m.todo[Len(m.todo)] = IF m.todo \in {<<c, t>>, <<x, c, t>>} THEN t ELSE y
<1> USE DEF PlanOf
<1>2. x # c
  OBVIOUS
<1>3. CASE m.todo = <<c, t>>
  BY <1>2, <1>3 DEF Ordered
<1>4. CASE m.todo = <<x, c, t>>
  BY <1>2, <1>4 DEF Ordered
<1>5. CASE m.todo = <<c, t, y>>
  BY <1>2, <1>5 DEF Ordered
<1>6. CASE m.todo = <<x, c, t, y>>
  BY <1>2, <1>6 DEF Ordered
<1> QED BY <1>3, <1>4, <1>5, <1>6

-----------------------------------------------------------------------------
(* Keys the program is about to use are new. *)
LEMMA NewKeys ==
  ASSUME RunsInv, FilesInv, NEW r \in Runs
  PROVE  /\ index[r] = NoRun => ~Recorded(r, <<"created">>)
         /\ ~Recorded(r, <<"resume", LastHash(r)>>)
         /\ \A k \in Checkpoints :
              /\ approvals[k] = NoCheck => ~Recorded(r, <<"approval", k>>)
              /\ approvals[k].status # "resolved" => ~Recorded(r, <<"resolved", k>>)
<1>1. index[r] = NoRun => ~Recorded(r, <<"created">>)
  BY DEF FilesInv, Known, Recorded
<1>2. ~Recorded(r, <<"resume", LastHash(r)>>)
  <2> SUFFICES ASSUME NEW i \in DOMAIN journal[r], journal[r][i].key = <<"resume", LastHash(r)>>
               PROVE  FALSE
    BY DEF Recorded
  <2>1. LastHash(r) \in 0..MaxAppends /\ journal[r][i] \in Records
    BY LastHashType DEF RunsInv, Shape
  <2>2. LastHash(r) < journal[r][i].hash /\ journal[r][i].hash <= LastHash(r)
    BY <2>1 DEF FilesInv, HashesGrow
  <2> QED BY <2>1, <2>2, StoreAssumption DEF Records
<1>3. \A k \in Checkpoints :
        /\ approvals[k] = NoCheck => ~Recorded(r, <<"approval", k>>)
        /\ approvals[k].status # "resolved" => ~Recorded(r, <<"resolved", k>>)
  BY DEF FilesInv, KeysKept
<1> QED BY <1>1, <1>2, <1>3

DecidedIn(as, r, d) ==
  \E k \in Checkpoints : as[k].status = "resolved" /\ as[k].run = r /\ as[k].decision = d
(* Every ask of the run is decided, one denied and none approved. *)
Refused(as, r) ==
  /\ DecidedIn(as, r, "denied") /\ ~DecidedIn(as, r, "approved")
  /\ \A k \in Checkpoints : as[k].status = "pending" => as[k].run # r
Boundary      == Resumable \cup {"resumable"}

(* No caller of record_step() records a status at which a run waits: the agent loop, the
   console, the daemon, MCP and the voice surfaces record "completed", "failed", "blocked",
   "ok" and "error" only. *)
CallersEndNothing == StepStatuses \cap Boundary = {}

(* What a mutator knows when it has taken the lock. *)
Fresh(m) ==
  /\ Sound(m) /\ ~Uncounted(m)
  /\ \E i \in DOMAIN m.todo : m.todo[i].file = "journal"
  /\ m.op = "resume" => m.from = LastHash(m.run) /\ AtBoundary(m.run)
  /\ CallersEndNothing /\ m.op # "resume" /\ Refused(After(m), m.run) =>
       /\ m.todo[Len(m.todo)].status \notin Boundary
       /\ \A i \in DOMAIN m.todo : m.todo[i].file = "journal" => m.todo[i].status \notin Boundary
Enters(p, m) ==
  /\ \A q \in Procs : proc[q] = Idle
  /\ proc' = [proc EXCEPT ![p] = m]
  /\ UNCHANGED <<files, resumes>>
  /\ Fresh(m)

(* create_run() plans soundly. *)
LEMMA CreateRunEnters ==
  ASSUME RunsInv, FilesInv, NEW p \in Procs, NEW r \in Runs, CreateRun(p, r)
  PROVE  \E m : Enters(p, m)
<1> DEFINE x == SaveRun(r)
           y == Touch(r, "running", 0)
           c == Chained(r, <<"created">>, "ok")
           t == Touch(r, "ok", 1)
           todo == <<x>> \o StepWrites(r, <<"created">>, "ok")
           m == [op |-> "create_run", run |-> r, todo |-> todo, from |-> 0]
<1>1. /\ \A q \in Procs : proc[q] = Idle
      /\ proc' = [proc EXCEPT ![p] = m]
      /\ UNCHANGED <<files, resumes>>
      /\ index[r] = NoRun
  BY DEF CreateRun, Enter, LockFree
<1>2. todo = <<x, c, t>>
  <2>1. StepWrites(r, <<"created">>, "ok") = <<c, t>>
    BY <1>1, NewKeys DEF StepWrites
  <2> HIDE DEF x, y, c, t
  <2> QED BY <2>1, FirstAndTwo
<1>3. /\ m.run = r /\ m.todo = <<x, c, t>> /\ m.op = "create_run"
      /\ <<"created">> \in AllKeys /\ "ok" \in Statuses
  BY <1>2 DEF AllKeys, Statuses
<1>4. /\ x.file = "index" /\ x.run = r /\ y.file = "touch" /\ y.run = r /\ y.steps = 0
      /\ c.file = "journal" /\ c.key = <<"created">> /\ c.status = "ok"
      /\ t.file = "touch" /\ t.status = "ok"
      /\ c.run = r /\ t.file = "touch" /\ t.run = r /\ t.steps = 1
  BY DEF SaveRun, Touch, Chained, Stored
<1> HIDE DEF m, todo, x, y, c, t
<1>5. m.todo[1] = x
  BY <1>3
<1>6. Ordered(m) /\ (\A i \in DOMAIN m.todo : m.todo[i].file = "journal" => m.todo[i] = c)
      /\ (\E i \in DOMAIN m.todo : m.todo[i] = c)
      /\ m.todo[Len(m.todo)] = t
  <2>1. PlanOf(m, x, c, t, y)
    BY <1>3, <1>4 DEF PlanOf
  <2> QED BY <1>3, <2>1, PlanOrdered
<1>7. Sound(m)
  <2>1. After(m) = approvals
    BY <1>4, <1>5 DEF After
  <2>2. KeysBacked(m)
    BY <1>4, <1>6, KeysDiffer DEF KeysBacked
  <2> QED BY <1>1, <1>3, <1>4, <1>5, <1>6, <2>1, <2>2 DEF Sound, ToOwn
<1>8. Fresh(m)
  BY <1>3, <1>4, <1>5, <1>6, <1>7 DEF Fresh, Uncounted, Boundary, Resumable
<1> QED BY <1>1, <1>8 DEF Enters

(* record_step() plans soundly. *)
LEMMA RecordStepEnters ==
  ASSUME RunsInv, FilesInv, NEW p \in Procs, NEW r \in Runs, NEW s \in StepStatuses,
         NEW key \in {NoKey} \cup ({"step"} \X Keys), RecordStep(p, r, key, s)
  PROVE  \E m : Enters(p, m)
<1> DEFINE x == SaveRun(r)
           y == Touch(r, "running", 0)
           c == Chained(r, key, s)
           t == Touch(r, s, 1)
           todo == StepWrites(r, key, s)
           m == [op |-> "record_step", run |-> r, todo |-> todo, from |-> 0]
<1>1. /\ \A q \in Procs : proc[q] = Idle
      /\ proc' = [proc EXCEPT ![p] = m]
      /\ UNCHANGED <<files, resumes>>
      /\ index[r] # NoRun /\ todo # <<>>
  BY DEF RecordStep, Enter, LockFree
<1>2. todo = <<c, t>>
  BY <1>1 DEF StepWrites
<1>3. /\ m.run = r /\ m.todo = <<c, t>> /\ m.op = "record_step"
      /\ key \in AllKeys /\ s \in Statuses
  BY <1>2 DEF AllKeys, Statuses
<1>4. /\ x.file = "index" /\ x.run = r /\ y.file = "touch" /\ y.run = r /\ y.steps = 0
      /\ c.file = "journal" /\ c.key \in {key, Redacted} /\ c.status = s
      /\ t.file = "touch" /\ t.status = s
      /\ c.run = r /\ t.file = "touch" /\ t.run = r /\ t.steps = 1
  BY DEF SaveRun, Touch, Chained, Stored
<1> HIDE DEF m, todo, x, y, c, t
<1>5. m.todo[1] = c
  BY <1>3
<1>6. Ordered(m) /\ (\A i \in DOMAIN m.todo : m.todo[i].file = "journal" => m.todo[i] = c)
      /\ (\E i \in DOMAIN m.todo : m.todo[i] = c)
      /\ m.todo[Len(m.todo)] = t
  <2>1. PlanOf(m, x, c, t, y)
    BY <1>3, <1>4 DEF PlanOf
  <2> QED BY <1>3, <2>1, PlanOrdered
<1>7. Sound(m)
  <2>1. After(m) = approvals
    BY <1>4, <1>5 DEF After
  <2>2. \A k : c.key \notin {<<"approval", k>>, <<"resolved", k>>, <<"resume", k>>}
    BY <1>4, KeysDiffer
  <2>3. KeysBacked(m)
    BY <1>4, <1>6, <2>2 DEF KeysBacked
  <2> QED BY <1>1, <1>3, <1>4, <1>5, <1>6, <2>1, <2>3 DEF Sound, ToOwn
<1>8. Fresh(m)
  BY <1>3, <1>4, <1>5, <1>6, <1>7 DEF Fresh, Uncounted, CallersEndNothing
<1> QED BY <1>1, <1>8 DEF Enters

(* create_approval() plans soundly. *)
LEMMA CreateApprovalEnters ==
  ASSUME RunsInv, FilesInv, NEW p \in Procs, NEW r \in Runs, NEW k \in Checkpoints,
         CreateApproval(p, r, k)
  PROVE  \E m : Enters(p, m)
<1> DEFINE as == [approvals EXCEPT ![k] = [status |-> "pending", run |-> r]]
           key == <<"approval", k>>
           s == "pending_approval"
           x == SaveApprovals(as)
           y == Touch(r, s, 0)
           c == Chained(r, key, s)
           t == Touch(r, s, 1)
           todo == <<x>> \o StepWrites(r, key, s) \o <<y>>
           m == [op |-> "create_approval", run |-> r, todo |-> todo, from |-> 0]
<1>1. /\ \A q \in Procs : proc[q] = Idle
      /\ proc' = [proc EXCEPT ![p] = m]
      /\ UNCHANGED <<files, resumes>>
      /\ index[r] # NoRun /\ approvals[k] = NoCheck
  BY DEF CreateApproval, Enter, LockFree
<1>2. todo = <<x, c, t, y>>
  <2>1. StepWrites(r, key, s) = <<c, t>>
    BY <1>1, NewKeys DEF StepWrites
  <2> HIDE DEF x, y, c, t
  <2>2. <<x>> \o <<c, t>> = <<x, c, t>>
    BY FirstAndTwo
  <2>3. <<x, c, t>> \o <<y>> = <<x, c, t, y>>
    BY ThreeAndLast
  <2> QED BY <2>1, <2>2, <2>3
<1>3. /\ m.run = r /\ m.todo = <<x, c, t, y>> /\ m.op = "create_approval"
      /\ key \in AllKeys /\ s \in Statuses
  BY <1>2 DEF AllKeys, Statuses, Resumable
<1>4. /\ x.file = "approvals" /\ x.to = as /\ y.file = "touch" /\ y.run = r /\ y.steps = 0
      /\ c.file = "journal" /\ c.key = key
      /\ c.run = r /\ t.file = "touch" /\ t.run = r /\ t.steps = 1
  BY DEF SaveApprovals, Touch, Chained, Stored
<1> HIDE DEF m, todo, x, y, c, t
<1>5. m.todo[1] = x
  BY <1>3
<1>6. Ordered(m) /\ (\A i \in DOMAIN m.todo : m.todo[i].file = "journal" => m.todo[i] = c)
      /\ (\E i \in DOMAIN m.todo : m.todo[i] = c)
  <2>1. PlanOf(m, x, c, t, y)
    BY <1>3, <1>4 DEF PlanOf
  <2> QED BY <2>1, PlanOrdered
<1>9. /\ After(m) = as
      /\ as[k].status = "pending" /\ as[k].run = r /\ as[k] # NoCheck
      /\ \A h \in Checkpoints \ {k} : as[h] = approvals[h]
  BY <1>4, <1>5 DEF After, NoCheck, RunsInv, Shape
<1> HIDE DEF as
<1>7. Sound(m)
  <2>1. KeysBacked(m)
    <3>1. \A h : /\ key = <<"approval", h>> => h = k
                 /\ key # <<"resolved", h>> /\ key # <<"resume", h>>
      BY KeysDiffer
    <3> HIDE DEF key
    <3> QED BY <1>4, <1>6, <1>9, <3>1 DEF KeysBacked
  <2>2. ToOwn(m)
    BY <1>1, <1>3, <1>9 DEF ToOwn
  <2> QED BY <1>1, <1>3, <1>4, <1>5, <1>6, <2>1, <2>2 DEF Sound
<1>8. Fresh(m)
  BY <1>3, <1>4, <1>5, <1>6, <1>7, <1>9 DEF Fresh, Uncounted, Refused
<1> QED BY <1>1, <1>8 DEF Enters

(* resume_run() plans soundly, from the last record. *)
LEMMA ResumeEnters ==
  ASSUME RunsInv, FilesInv, NEW p \in Procs, NEW r \in Runs, Resume(p, r)
  PROVE  \E m : Enters(p, m)
<1> DEFINE h == LastHash(r)
           key == <<"resume", h>>
           s == "resumed"
           x == SaveRun(r)
           y == Touch(r, "running", 0)
           c == Chained(r, key, s)
           t == Touch(r, s, 1)
           todo == StepWrites(r, key, s) \o <<y>>
           m == [op |-> "resume", run |-> r, todo |-> todo, from |-> h]
<1>1. /\ \A q \in Procs : proc[q] = Idle
      /\ proc' = [proc EXCEPT ![p] = m]
      /\ UNCHANGED <<files, resumes>>
      /\ index[r] # NoRun /\ AtBoundary(r)
  BY DEF Resume, Enter, LockFree
<1>2. todo = <<c, t, y>>
  <2>1. StepWrites(r, key, s) = <<c, t>>
    BY <1>1, NewKeys DEF StepWrites
  <2> HIDE DEF x, y, c, t
  <2> QED BY <2>1, TwoAndLast
<1>3. /\ m.run = r /\ m.todo = <<c, t, y>> /\ m.op = "resume" /\ m.from = h
      /\ key \in AllKeys /\ s \in Statuses /\ h \in 0..MaxAppends
  BY <1>2, LastHashType DEF AllKeys, Statuses, RunsInv
<1>4. /\ x.file = "index" /\ x.run = r /\ y.file = "touch" /\ y.run = r /\ y.steps = 0
      /\ c.file = "journal" /\ c.key = key
      /\ c.run = r /\ t.file = "touch" /\ t.run = r /\ t.steps = 1
  BY DEF SaveRun, Touch, Chained, Stored
<1> HIDE DEF m, todo, x, y, c, t
<1>5. m.todo[1] = c
  BY <1>3
<1>6. Ordered(m) /\ (\A i \in DOMAIN m.todo : m.todo[i].file = "journal" => m.todo[i] = c)
      /\ (\E i \in DOMAIN m.todo : m.todo[i] = c)
  <2>1. PlanOf(m, x, c, t, y)
    BY <1>3, <1>4 DEF PlanOf
  <2> QED BY <2>1, PlanOrdered
<1>7. Sound(m)
  <2>1. After(m) = approvals
    BY <1>4, <1>5 DEF After
  <2>2. h <= appended[r]
    BY DEF FilesInv, HashesGrow
  <2>3. KeysBacked(m)
    <3> HIDE DEF h
    <3> QED BY <1>3, <1>4, <1>6, <2>2, KeysDiffer DEF KeysBacked
  <2> QED BY <1>1, <1>3, <1>4, <1>5, <1>6, <2>1, <2>3 DEF Sound, ToOwn
<1>8. Fresh(m)
  BY <1>1, <1>3, <1>4, <1>5, <1>6, <1>7 DEF Fresh, Uncounted
<1> QED BY <1>1, <1>8 DEF Enters

(* resolve_approval() plans soundly. *)
LEMMA ResolveEnters ==
  ASSUME RunsInv, FilesInv, NEW p \in Procs, NEW k \in Checkpoints, NEW d \in Decisions,
         NEW supplied \in BOOLEAN, NEW late \in BOOLEAN, Resolve(p, k, d, supplied, late)
  PROVE  (\E m : Enters(p, m)) \/ UNCHANGED <<files, proc, resumes>>
<1> DEFINE r == approvals[k].run
           done == [status |-> "resolved", run |-> r, decision |-> d,
                    confirmed |-> supplied /\ k \in Linked]
           as == [approvals EXCEPT ![k] = done]
           end == IF d = "approved" THEN "resumable" ELSE "denied"
           key == <<"resolved", k>>
           x == SaveApprovals(as)
           y == Touch(r, end, 0)
           c == Chained(r, key, d)
           t == Touch(r, d, 1)
           todo == <<x>> \o StepWrites(r, key, d) \o <<y>>
           m == [op |-> "resolve", run |-> r, todo |-> todo, from |-> 0]
<1>0. approvals[k].status = "pending" /\ r \in Runs /\ approvals[k] # NoCheck
  <2>1. approvals[k].status = "pending" /\ approvals[k] \in Checks
    BY DEF Resolve, RunsInv, Shape
  <2> QED BY <2>1 DEF Checks, NoCheck
<1> SUFFICES ASSUME ~UNCHANGED <<files, proc, resumes>> PROVE \E m1 : Enters(p, m1)
  OBVIOUS
<1>1. /\ \A q \in Procs : proc[q] = Idle
      /\ proc' = [proc EXCEPT ![p] = m]
      /\ UNCHANGED <<files, resumes>>
  BY DEF Resolve, Enter, LockFree
<1>2. todo = <<x, c, t, y>>
  <2>1. StepWrites(r, key, d) = <<c, t>>
    BY <1>0, NewKeys DEF StepWrites
  <2> HIDE DEF x, y, c, t
  <2>2. <<x>> \o <<c, t>> = <<x, c, t>>
    BY FirstAndTwo
  <2>3. <<x, c, t>> \o <<y>> = <<x, c, t, y>>
    BY ThreeAndLast
  <2> QED BY <2>1, <2>2, <2>3
<1>3. /\ m.run = r /\ m.todo = <<x, c, t, y>> /\ m.op = "resolve"
      /\ key \in AllKeys /\ d \in Statuses
  BY <1>2 DEF AllKeys, Statuses
<1>4. /\ x.file = "approvals" /\ x.to = as
      /\ y.file = "touch" /\ y.run = r /\ y.steps = 0 /\ y.status = end
      /\ c.file = "journal" /\ c.key = key /\ c.status = d
      /\ c.run = r /\ t.file = "touch" /\ t.run = r /\ t.steps = 1
  BY DEF SaveApprovals, Touch, Chained, Stored
<1> HIDE DEF m, todo, x, y, c, t
<1>5. m.todo[1] = x
  BY <1>3
<1>6. index[r] # NoRun
  BY <1>0 DEF FilesInv, Known
<1>7. Ordered(m) /\ (\A i \in DOMAIN m.todo : m.todo[i].file = "journal" => m.todo[i] = c)
      /\ (\E i \in DOMAIN m.todo : m.todo[i] = c)
      /\ m.todo[Len(m.todo)] = y
  <2>1. m.todo \notin {<<c, t>>, <<x, c, t>>}
    BY <1>3
  <2>2. PlanOf(m, x, c, t, y)
    BY <1>3, <1>4 DEF PlanOf
  <2> QED BY <2>1, <2>2, PlanOrdered
<1>8. /\ After(m) = as
      /\ as[k].status = "resolved" /\ as[k].run = r /\ as[k].decision = d /\ as[k] # NoCheck
      /\ approvals[k].run = r
      /\ \A h \in Checkpoints \ {k} : as[h] = approvals[h]
  BY <1>4, <1>5 DEF After, NoCheck, RunsInv, Shape
<1> HIDE DEF as, r, done, end
<1>9. Sound(m)
  <2>1. KeysBacked(m)
    <3>1. \A h : /\ key = <<"resolved", h>> => h = k
                 /\ key # <<"approval", h>> /\ key # <<"resume", h>>
      BY KeysDiffer
    <3> HIDE DEF key
    <3> QED BY <1>4, <1>7, <1>8, <3>1 DEF KeysBacked
  <2>2. ToOwn(m)
    BY <1>3, <1>8 DEF ToOwn
  <2> QED BY <1>3, <1>4, <1>5, <1>6, <1>7, <2>1, <2>2 DEF Sound
<1>10. Fresh(m)
  <2>1. /\ ~Uncounted(m) /\ m.op # "resume"
        /\ \E i \in DOMAIN m.todo : m.todo[i].file = "journal"
    BY <1>3, <1>4, <1>5, <1>7 DEF Uncounted
  <2>2. CASE d = "approved"
    <3>1. DecidedIn(as, r, "approved")
      BY <1>8, <2>2 DEF DecidedIn
    <3>2. ~Refused(After(m), m.run)
      BY <1>3, <1>8, <3>1 DEF Refused
    <3> QED BY <1>9, <2>1, <3>2 DEF Fresh
  <2>3. CASE d = "denied"
    <3>1. "denied" \notin Boundary
      BY DEF Boundary, Resumable
    <3>2. y.status = "denied"
      BY <1>4, <2>3 DEF end
    <3> QED BY <1>4, <1>7, <1>9, <2>1, <2>3, <3>1, <3>2 DEF Fresh
  <2> QED BY <2>2, <2>3 DEF Decisions
<1> QED BY <1>1, <1>10 DEF Enters

(* A step enters a mutator, does a write, stops one half way, or is the ledger's own. *)
LEMMA StepKinds ==
  ASSUME RunsInv, FilesInv, [Next]_vars
  PROVE  \/ \E p \in Procs : \E m : Enters(p, m)
         \/ \E p \in Procs : Write(p) \/ Stop(p) \/ Tear(p)
         \/ UNCHANGED <<files, proc, resumes>>
<1>1. ASSUME NEW p \in Procs, NEW r \in Runs, CreateRun(p, r) \/ Resume(p, r)
      PROVE  \E m : Enters(p, m)
  BY <1>1, CreateRunEnters, ResumeEnters
<1>2. ASSUME NEW p \in Procs, NEW r \in Runs, NEW s \in StepStatuses,
             RecordStep(p, r, NoKey, s) \/ \E x \in Keys : RecordStep(p, r, <<"step", x>>, s)
      PROVE  \E m : Enters(p, m)
  BY <1>2, RecordStepEnters
<1>3. ASSUME NEW p \in Procs, NEW r \in Runs, NEW k \in Checkpoints, CreateApproval(p, r, k)
      PROVE  \E m : Enters(p, m)
  BY <1>3, CreateApprovalEnters
<1>4. ASSUME NEW p \in Procs, NEW k \in Checkpoints, NEW d \in Decisions,
             NEW supplied \in BOOLEAN, NEW late \in BOOLEAN, Resolve(p, k, d, supplied, late)
      PROVE  (\E m : Enters(p, m)) \/ UNCHANGED <<files, proc, resumes>>
  BY <1>4, ResolveEnters
<1>5. ASSUME NEW k \in Linked, NEW s \in {"APPROVED", "DENIED", "EXPIRED", "USED"}, LedgerMoves(k, s)
      PROVE  UNCHANGED <<files, proc, resumes>>
  BY <1>5 DEF LedgerMoves
<1>6. CASE UNCHANGED vars
  BY <1>6 DEF vars, files
<1> QED BY <1>1, <1>2, <1>3, <1>4, <1>5, <1>6 DEF Next

-----------------------------------------------------------------------------
(* One write of the mutator in hand: what it was, and what is left. *)
LEMMA NextWrite ==
  ASSUME RunsInv, NEW p \in Procs, Write(p), NEW m, m = proc[p]
  PROVE  /\ m \in Mutators /\ m # Idle
         /\ Len(m.todo) \in Nat /\ Len(m.todo) >= 1 /\ DOMAIN m.todo = 1..Len(m.todo)
         /\ m.todo[1] \in Writes
         /\ WriteIndex(m.todo[1]) \/ WriteApprovals(m.todo[1]) \/ WriteJournal(m.todo[1])
         /\ \A q \in Procs \ {p} : proc[q] = Idle /\ proc'[q] = Idle
         /\ Len(m.todo) = 1 =>
              /\ proc'[p] = Idle
              /\ resumes' = IF m.op = "resume"
                            THEN [resumes EXCEPT ![m.run] = Append(@, m.from)] ELSE resumes
         /\ Len(m.todo) # 1 =>
              /\ proc'[p] \in Mutators /\ proc'[p] # Idle /\ UNCHANGED resumes
              /\ proc'[p].op = m.op /\ proc'[p].run = m.run /\ proc'[p].from = m.from
              /\ Len(proc'[p].todo) = Len(m.todo) - 1
              /\ DOMAIN proc'[p].todo = 1..Len(m.todo) - 1
              /\ \A i \in 1..Len(m.todo) - 1 : proc'[p].todo[i] = m.todo[i + 1]
<1>1. /\ m \in Mutators /\ m.todo # <<>> /\ m # Idle
  BY DEF RunsInv, Shape, Write, Idle, Mutators
<1>2. m.todo \in Seq(Writes)
  BY <1>1 DEF Mutators
<1>3. /\ Len(m.todo) \in Nat /\ Len(m.todo) >= 1 /\ DOMAIN m.todo = 1..Len(m.todo)
      /\ m.todo[1] \in Writes /\ Head(m.todo) = m.todo[1]
      /\ Tail(m.todo) \in Seq(Writes) /\ Len(Tail(m.todo)) = Len(m.todo) - 1
      /\ DOMAIN Tail(m.todo) = 1..Len(m.todo) - 1
      /\ \A i \in 1..Len(m.todo) - 1 : Tail(m.todo)[i] = m.todo[i + 1]
  BY <1>1, <1>2
<1>4. \A q \in Procs \ {p} : proc[q] = Idle
  BY <1>1 DEF RunsInv, Exclusive
<1>5. WriteIndex(m.todo[1]) \/ WriteApprovals(m.todo[1]) \/ WriteJournal(m.todo[1])
  BY <1>3 DEF Write
<1>6. CASE Len(m.todo) = 1
  BY <1>1, <1>3, <1>4, <1>5, <1>6 DEF Write, RunsInv, Shape
<1>7. CASE Len(m.todo) # 1
  <2> DEFINE rest == [m EXCEPT !.todo = Tail(m.todo)]
  <2>1. proc' = [proc EXCEPT ![p] = rest] /\ UNCHANGED resumes
    BY <1>7 DEF Write
  <2>2. /\ rest \in Mutators /\ rest.todo = Tail(m.todo)
        /\ rest.op = m.op /\ rest.run = m.run /\ rest.from = m.from
    BY <1>1, <1>3 DEF Mutators
  <2>3. rest # Idle
    <3>1. Len(rest.todo) # 0
      BY <1>3, <1>7, <2>2
    <3>2. Idle.todo = <<>> /\ Len(<<>>) = 0
      BY DEF Idle
    <3> HIDE DEF rest
    <3> QED BY <3>1, <3>2
  <2>4. proc'[p] = rest /\ \A q \in Procs \ {p} : proc'[q] = proc[q]
    BY <2>1 DEF RunsInv, Shape
  <2>5. /\ Len(rest.todo) = Len(m.todo) - 1 /\ DOMAIN rest.todo = 1..Len(m.todo) - 1
        /\ \A i \in 1..Len(m.todo) - 1 : rest.todo[i] = m.todo[i + 1]
    BY <1>3, <2>2
  <2> HIDE DEF rest
  <2>6. \A q \in Procs \ {p} : proc[q] = Idle /\ proc'[q] = Idle
    BY <1>4, <2>4
  <2> QED BY <1>1, <1>3, <1>5, <1>7, <2>1, <2>2, <2>3, <2>4, <2>5, <2>6
<1> QED BY <1>6, <1>7

(* One append: the line that is new, or nothing behind half a line. *)
LEMMA LineWritten ==
  ASSUME RunsInv, NEW w \in Writes, WriteJournal(w), NEW r, r = w.run
  PROVE  /\ r \in Runs /\ w \in JournalWrites
         /\ appended'[r] = appended[r] + 1
         /\ \A x \in Runs \ {r} : appended'[x] = appended[x] /\ journal'[x] = journal[x]
         /\ torn[r] => UNCHANGED journal
         /\ ~torn[r] =>
              /\ Len(journal'[r]) = Len(journal[r]) + 1
              /\ DOMAIN journal'[r] = 1..Len(journal[r]) + 1
              /\ \A i \in DOMAIN journal[r] : i \in DOMAIN journal'[r] /\ journal'[r][i] = journal[r][i]
              /\ \A i \in DOMAIN journal'[r] : i \in DOMAIN journal[r] \/ i = Len(journal[r]) + 1
              /\ journal'[r][Len(journal[r]) + 1] = Line(w)
              /\ LastHash(r)' = appended[r] + 1
              /\ LastStatus(r)' = w.status
<1>1. w \in JournalWrites /\ r \in Runs
  BY DEF WriteJournal, Writes, IndexWrites, TouchWrites, ApprovalWrites, JournalWrites
<1>2. /\ appended[r] \in 0..MaxAppends /\ appended[r] < MaxAppends
      /\ appended'[r] = appended[r] + 1
      /\ \A x \in Runs \ {r} : appended'[x] = appended[x]
  BY <1>1 DEF WriteJournal, RoomFor, RunsInv, Shape
<1>3. Line(w) \in Records /\ Line(w).hash = appended[r] + 1 /\ Line(w).status = w.status
  <2>1. appended[r] + 1 \in 1..MaxAppends
    BY <1>2, StoreAssumption
  <2> QED BY <1>1, <2>1 DEF Line, Records, JournalWrites
<1>4. CASE torn[r]
  BY <1>1, <1>2, <1>4 DEF WriteJournal
<1>5. CASE ~torn[r]
  <2> DEFINE j == journal[r]
  <2>1. /\ journal[r] \in Seq(Records)
        /\ journal' = [journal EXCEPT ![r] = Append(j, Line(w))]
    BY <1>1, <1>5 DEF WriteJournal, RunsInv, Shape
  <2>2. /\ journal'[r] = Append(j, Line(w))
        /\ \A x \in Runs \ {r} : journal'[x] = journal[x]
    BY <1>1, <2>1 DEF RunsInv, Shape
  <2>3. /\ Len(journal'[r]) = Len(j) + 1
        /\ DOMAIN journal'[r] = 1..Len(j) + 1
        /\ DOMAIN j = 1..Len(j) /\ Len(j) \in Nat
        /\ \A i \in 1..Len(j) : journal'[r][i] = j[i]
        /\ journal'[r][Len(j) + 1] = Line(w)
        /\ journal'[r] # <<>>
    BY <1>3, <2>1, <2>2, AppendLine
  <2> HIDE DEF j
  <2>4. /\ \A i \in DOMAIN j : i \in DOMAIN journal'[r] /\ journal'[r][i] = j[i]
        /\ \A i \in DOMAIN journal'[r] : i \in DOMAIN j \/ i = Len(j) + 1
    BY <2>3
  <2>5. LastHash(r)' = appended[r] + 1 /\ LastStatus(r)' = w.status
    BY <1>3, <2>3 DEF LastHash, LastStatus
  <2> QED BY <1>1, <1>2, <1>5, <2>2, <2>3, <2>4, <2>5 DEF j
<1> QED BY <1>4, <1>5

(* The open asks of a run are counted. *)
LEMMA PendingCounted ==
  ASSUME NEW r
  PROVE  Cardinality(Pending(r)) \in 0..Cardinality(Checkpoints)
<1>1. Pending(r) \subseteq Checkpoints /\ IsFiniteSet(Checkpoints)
  BY CountableAssumption DEF Pending
<1>2. Cardinality(Checkpoints) \in Nat
  BY <1>1, FS_CardinalityType
<1>3. IsFiniteSet(Pending(r)) /\ Cardinality(Pending(r)) <= Cardinality(Checkpoints)
  BY <1>1, FS_Subset
<1>4. Cardinality(Pending(r)) \in Nat
  BY <1>3, FS_CardinalityType
<1> QED BY <1>2, <1>3, <1>4

(* A write is of one of the four kinds, which its file tells. *)
LEMMA WritesByFile ==
  \A w \in Writes :
    /\ w.file = "index" => w \in IndexWrites /\ w.run \in Runs
    /\ w.file = "touch" => w \in TouchWrites /\ w.run \in Runs /\ w.status \in Statuses /\ w.steps \in Nat
    /\ w.file = "approvals" => w \in ApprovalWrites
    /\ w.file = "journal" => w \in JournalWrites /\ w.run \in Runs
    /\ w.file \in {"index", "touch", "approvals", "journal"}
BY DEF Writes, IndexWrites, TouchWrites, ApprovalWrites, JournalWrites

(* A row that is touched is a row. *)
LEMMA TouchedRow ==
  ASSUME NEW row \in RunRows, NEW w, w.status \in Statuses, w.steps \in Nat
  PROVE  /\ Touched(row, w) \in RunRows
         /\ Touched(row, w).status = w.status
         /\ Touched(row, w).steps = row.steps + w.steps
         /\ Touched(row, w).waiting = Cardinality(Pending(w.run))
<1>1. Cardinality(Pending(w.run)) \in 0..Cardinality(Checkpoints)
  BY PendingCounted
<1> DEFINE c == Cardinality(Pending(w.run))
<1>2. Touched(row, w) = [row EXCEPT !.status = w.status, !.steps = row.steps + w.steps, !.waiting = c]
  BY DEF Touched, WaitingOn
<1> HIDE DEF c
<1>3. DOMAIN row = {"status", "steps", "waiting"} /\ row.steps \in Nat
  BY DEF RunRows
<1>4. row.steps + w.steps \in Nat
  BY <1>3
<1>5. /\ Touched(row, w).status = w.status
      /\ Touched(row, w).steps = row.steps + w.steps
      /\ Touched(row, w).waiting = c
  BY <1>2, <1>3
<1>6. Touched(row, w) = [status |-> w.status, steps |-> row.steps + w.steps, waiting |-> c]
  BY <1>2, <1>3
<1>7. Touched(row, w) \in RunRows
  BY <1>1, <1>4, <1>6 DEF RunRows, c
<1> QED BY <1>5, <1>7 DEF c

(* What a write of the index leaves in it. *)
LEMMA IndexWritten ==
  ASSUME Rows, NEW w \in Writes, WriteIndex(w), NEW r, r = w.run
  PROVE  /\ r \in Runs
         /\ index' \in [Runs -> {NoRun} \cup RunRows]
         /\ \A x \in Runs \ {r} : index'[x] = index[x]
         /\ w.file = "index" => /\ index'[r] # NoRun
                                /\ index'[r] = [status |-> "running", steps |-> 0, waiting |-> 0]
         /\ w.file = "touch" /\ index[r] = NoRun => index'[r] = NoRun
         /\ w.file = "touch" /\ index[r] # NoRun =>
              /\ index'[r] # NoRun
              /\ index'[r].status = w.status /\ index'[r].steps = index[r].steps + w.steps
              /\ index'[r].waiting = Cardinality(Pending(r))
<1>1. r \in Runs /\ w.file \in {"index", "touch"}
  BY WritesByFile DEF WriteIndex
<1>2. index \in [Runs -> {NoRun} \cup RunRows]
  BY DEF Rows
<1> DEFINE new == [status |-> "running", steps |-> 0, waiting |-> 0]
           touched == Touched(index[r], w)
<1>3. new \in RunRows
  <2>1. 0 \in 0..Cardinality(Checkpoints)
    BY CountableAssumption, FS_CardinalityType
  <2>2. "running" \in Statuses
    BY DEF Statuses
  <2> QED BY <2>1, <2>2 DEF RunRows
<1>4. CASE w.file = "index"
  <2>1. index' = [index EXCEPT ![r] = new]
    BY <1>4 DEF WriteIndex
  <2> HIDE DEF new
  <2>2. index'[r] = new /\ \A x \in Runs \ {r} : index'[x] = index[x]
    BY <1>1, <1>2, <2>1
  <2>3. index' \in [Runs -> {NoRun} \cup RunRows]
    BY <1>1, <1>2, <1>3, <2>1
  <2>4. new # NoRun
    BY <1>3, RowsDiffer
  <2> QED BY <1>1, <1>4, <2>2, <2>3, <2>4 DEF new
<1>5. CASE w.file = "touch" /\ index[r] = NoRun
  <2>1. index' = [index EXCEPT ![r] = NoRun]
    BY <1>1, <1>2, <1>5 DEF WriteIndex
  <2> QED BY <1>1, <1>2, <1>5, <2>1
<1>6. CASE w.file = "touch" /\ index[r] # NoRun
  <2>1. index' = [index EXCEPT ![r] = touched]
    BY <1>1, <1>2, <1>6 DEF WriteIndex
  <2>2. index[r] \in RunRows /\ w.status \in Statuses /\ w.steps \in Nat
    BY <1>1, <1>2, <1>6, WritesByFile
  <2>3. /\ touched \in RunRows
        /\ touched.status = w.status /\ touched.steps = index[r].steps + w.steps
        /\ touched.waiting = Cardinality(Pending(r))
    BY <2>2, TouchedRow
  <2> HIDE DEF touched
  <2>4. index'[r] = touched /\ \A x \in Runs \ {r} : index'[x] = index[x]
    BY <1>1, <1>2, <2>1
  <2>5. index' \in [Runs -> {NoRun} \cup RunRows]
    BY <1>1, <1>2, <2>1, <2>3
  <2> QED BY <1>1, <1>6, <2>3, <2>4, <2>5, RowsDiffer
<1> QED BY <1>1, <1>4, <1>5, <1>6

(* One write of a sound plan, seen from all the files. *)
LEMMA WriteEffect ==
  ASSUME RunsInv, FilesInv, NEW p \in Procs, Write(p), NEW m, m = proc[p],
         NEW w, w = m.todo[1]
  PROVE  /\ Sound(m) /\ m.run \in Runs /\ w \in Writes
         /\ w.file # "approvals" => w.run = m.run
         /\ WriteIndex(w) \/ WriteApprovals(w) \/ WriteJournal(w)
         /\ approvals' = After(m)
         /\ index' \in [Runs -> {NoRun} \cup RunRows] /\ torn' \in [Runs -> BOOLEAN]
         /\ \A r \in Runs : index[r] # NoRun => index'[r] # NoRun
         /\ index'[m.run] # NoRun
         /\ \A r \in Runs \ {m.run} : index'[r] = index[r] /\ journal'[r] = journal[r]
                                      /\ torn'[r] = torn[r] /\ appended'[r] = appended[r]
         /\ \A r \in Runs : appended[r] \in Nat /\ appended'[r] \in Nat /\ appended[r] <= appended'[r]
<1>1. /\ m \in Mutators /\ m # Idle /\ w \in Writes /\ Len(m.todo) \in Nat /\ Len(m.todo) >= 1
      /\ DOMAIN m.todo = 1..Len(m.todo)
      /\ WriteIndex(w) \/ WriteApprovals(w) \/ WriteJournal(w)
  BY NextWrite
<1>2. Sound(m) /\ m.run \in Runs
  BY <1>1 DEF FilesInv, Planned, Mutators
<1>3. w.file # "approvals" => w.run = m.run
  <2>1. 1 \in DOMAIN m.todo
    BY <1>1
  <2> QED BY <1>2, <2>1 DEF Sound, Ordered
<1>4. Rows /\ \A r \in Runs : appended[r] \in 0..MaxAppends
  BY DEF FilesInv, RunsInv, Shape
<1>5. w.file = "index" <=> index[m.run] = NoRun
  BY <1>2 DEF Sound
<1>6. CASE WriteIndex(w)
  <2>1. UNCHANGED <<approvals, journal, torn, appended>> /\ w.file \in {"index", "touch"}
        /\ w.run = m.run
    BY <1>3, <1>6 DEF WriteIndex
  <2>2. approvals' = After(m)
    BY <2>1 DEF After
  <2>3. /\ index' \in [Runs -> {NoRun} \cup RunRows]
        /\ \A x \in Runs \ {m.run} : index'[x] = index[x]
        /\ index'[m.run] # NoRun
    BY <1>1, <1>4, <1>5, <1>6, <2>1, IndexWritten
  <2> QED BY <1>1, <1>2, <1>3, <1>4, <2>1, <2>2, <2>3 DEF Rows
<1>7. CASE WriteApprovals(w)
  <2>1. UNCHANGED <<index, journal, torn, appended>> /\ w.file = "approvals" /\ approvals' = w.to
    BY <1>7 DEF WriteApprovals
  <2>2. approvals' = After(m)
    BY <2>1 DEF After
  <2> QED BY <1>1, <1>2, <1>3, <1>4, <1>5, <2>1, <2>2 DEF Rows
<1>8. CASE WriteJournal(w)
  <2>1. UNCHANGED <<index, approvals>> /\ w.file = "journal" /\ w.run = m.run
        /\ torn' = [torn EXCEPT ![m.run] = FALSE]
    BY <1>3, <1>8 DEF WriteJournal
  <2>2. approvals' = After(m)
    BY <2>1 DEF After
  <2>3. /\ appended'[m.run] = appended[m.run] + 1
        /\ \A x \in Runs \ {m.run} : appended'[x] = appended[x] /\ journal'[x] = journal[x]
    BY <1>1, <1>8, <2>1, LineWritten
  <2>4. torn' \in [Runs -> BOOLEAN] /\ \A x \in Runs \ {m.run} : torn'[x] = torn[x]
    BY <1>4, <2>1 DEF Rows
  <2>5. \A x \in Runs : appended[x] \in Nat /\ appended'[x] \in Nat /\ appended[x] <= appended'[x]
    <3>1. ASSUME NEW x \in Runs PROVE appended'[x] = appended[x] \/ appended'[x] = appended[x] + 1
      BY <2>3
    <3> QED BY <1>4, <3>1, StoreAssumption
  <2>6. index[m.run] # NoRun /\ index' \in [Runs -> {NoRun} \cup RunRows]
    BY <1>4, <1>5, <2>1 DEF Rows
  <2>7. index' = index
    BY <2>1
  <2> QED BY <1>1, <1>2, <1>3, <2>2, <2>3, <2>4, <2>5, <2>6, <2>7
<1> QED BY <1>1, <1>6, <1>7, <1>8

(* What is left of a sound plan is sound in the next state. *)
LEMMA PlanShifts ==
  ASSUME RunsInv, FilesInv, NEW p \in Procs, Write(p), NEW m, m = proc[p],
         NEW n, n = proc'[p], Len(m.todo) # 1
  PROVE  Sound(n)' /\ n.todo[1].file \notin {"index", "approvals"} /\ After(n)' = After(m)
<1> DEFINE l == Len(m.todo)
<1>1. /\ l \in Nat /\ l >= 1 /\ l # 1 /\ DOMAIN m.todo = 1..l
      /\ n.run = m.run /\ Len(n.todo) = l - 1 /\ DOMAIN n.todo = 1..l - 1
      /\ \A i \in 1..l - 1 : n.todo[i] = m.todo[i + 1]
  BY NextWrite
<1>2. Ordered(m)
  BY WriteEffect DEF Sound
<1> HIDE DEF l
<1>3. ASSUME NEW i \in DOMAIN n.todo
      PROVE  /\ i \in Nat /\ i >= 1 /\ i + 1 \in DOMAIN m.todo /\ i + 1 > 1
             /\ n.todo[i] = m.todo[i + 1]
             /\ i > 1 => n.todo[i - 1] = m.todo[i]
  <2>1. i \in 1..l - 1 /\ (i > 1 => i - 1 \in 1..l - 1 /\ (i - 1) + 1 = i)
    BY <1>1
  <2>2. i > 1 => n.todo[i - 1] = m.todo[(i - 1) + 1]
    BY <1>1, <2>1
  <2>3. i \in Nat /\ i >= 1 /\ i + 1 \in 1..l /\ i + 1 > 1
    BY <1>1, <2>1
  <2>4. n.todo[i] = m.todo[i + 1]
    BY <1>1, <2>1
  <2>5. i > 1 => n.todo[i - 1] = m.todo[i]
    BY <2>1, <2>2
  <2> QED BY <1>1, <2>3, <2>4, <2>5
<1>4. Ordered(n)
  <2>1. n.todo # <<>> /\ l - 1 \in DOMAIN n.todo /\ n.todo[l - 1] = m.todo[l]
    BY <1>1
  <2>2. n.todo[Len(n.todo)].file = "touch"
    BY <1>1, <1>2, <2>1 DEF Ordered, l
  <2>3. ASSUME NEW i \in DOMAIN n.todo
        PROVE  /\ n.todo[i].file # "approvals" => n.todo[i].run = n.run
               /\ n.todo[i].file \notin {"index", "approvals"}
               /\ n.todo[i].file = "touch" =>
                    /\ n.todo[i].steps \in {0, 1}
                    /\ i > 1 => (n.todo[i].steps = 1 <=> n.todo[i - 1].file = "journal")
    <3>1. i \in Nat /\ i + 1 \in DOMAIN m.todo /\ i + 1 > 1 /\ i + 1 # 1 /\ (i + 1) - 1 = i
          /\ n.todo[i] = m.todo[i + 1]
      BY <1>3
    <3>2. i > 1 => n.todo[i - 1] = m.todo[i]
      BY <1>3
    <3>3. /\ m.todo[i + 1].file # "approvals" => m.todo[i + 1].run = m.run
          /\ m.todo[i + 1].file \notin {"index", "approvals"}
          /\ m.todo[i + 1].file = "touch" =>
               /\ m.todo[i + 1].steps \in {0, 1}
               /\ m.todo[i + 1].steps = 1 <=> m.todo[(i + 1) - 1].file = "journal"
      BY <1>2, <3>1 DEF Ordered
    <3> QED BY <1>1, <3>1, <3>2, <3>3
  <2> QED BY <2>1, <2>2, <2>3 DEF Ordered
<1>5. n.todo[1].file \notin {"index", "approvals"}
  <2>1. 1 \in DOMAIN n.todo /\ 1 + 1 # 1
    BY <1>1
  <2>2. n.todo[1] = m.todo[1 + 1] /\ 1 + 1 \in DOMAIN m.todo
    BY <1>3, <2>1
  <2> QED BY <1>2, <2>1, <2>2 DEF Ordered
<1>6. After(n)' = approvals' /\ approvals' = After(m)
  BY <1>5, WriteEffect DEF After
<1>7. ToOwn(n)'
  BY <1>6 DEF ToOwn
<1>8. KeysBacked(n)'
  <2>1. KeysBacked(m) /\ m.run \in Runs /\ appended[m.run] <= appended'[m.run]
        /\ appended[m.run] \in Nat /\ appended'[m.run] \in Nat
    BY WriteEffect DEF Sound
  <2> SUFFICES ASSUME NEW i \in DOMAIN n.todo, n.todo[i].file = "journal"
               PROVE  /\ \A k \in Checkpoints :
                           /\ n.todo[i].key = <<"approval", k>> => After(m)[k] # NoCheck
                           /\ n.todo[i].key = <<"resolved", k>> => After(m)[k].status = "resolved"
                      /\ \A h \in 0..MaxAppends :
                           n.todo[i].key = <<"resume", h>> => h <= appended'[m.run]
    BY <1>1, <1>6 DEF KeysBacked
  <2>2. i + 1 \in DOMAIN m.todo /\ m.todo[i + 1].file = "journal" /\ n.todo[i] = m.todo[i + 1]
    BY <1>3
  <2> QED BY <2>1, <2>2, StoreAssumption DEF KeysBacked
<1>9. index'[n.run] # NoRun
  BY <1>1, WriteEffect
<1> QED BY <1>4, <1>5, <1>6, <1>7, <1>8, <1>9 DEF Sound

(* Who has nothing to write owes no count. *)
LEMMA IdleOwesNothing == ~Uncounted(Idle)
BY DEF Uncounted, Idle

(* Entering changes no file. *)
LEMMA EnterKeepsFiles ==
  ASSUME RunsInv, FilesInv, NEW p \in Procs, NEW m, Enters(p, m)
  PROVE  FilesInv'
<1>1. /\ \A q \in Procs : proc[q] = Idle
      /\ proc' = [proc EXCEPT ![p] = m]
      /\ UNCHANGED <<index, approvals, journal, torn, appended, resumes>>
      /\ Sound(m) /\ ~Uncounted(m)
  BY DEF Enters, Fresh, files
<1>2. proc'[p] = m /\ \A q \in Procs \ {p} : proc'[q] = Idle
  BY <1>1 DEF RunsInv, Shape
<1>3. Rows' /\ Known' /\ KeysKept' /\ HashesGrow'
  BY <1>1 DEF FilesInv, Rows, Known, KeysKept, HashesGrow, Recorded, LastHash
<1>4. Sound(m)'
  BY <1>1 DEF Sound, ToOwn, KeysBacked, After
<1>5. Planned'
  BY <1>2, <1>4 DEF Planned
<1>6. \A r \in Runs : Owed(r)' = 0 /\ Owed(r) = 0
  BY <1>1, <1>2, IdleOwesNothing DEF Owed
<1>7. StepsBounded'
  BY <1>1, <1>6 DEF FilesInv, StepsBounded
<1> QED BY <1>3, <1>5, <1>7 DEF FilesInv

(* Nor does stopping, but for the half line. *)
LEMMA StopKeepsFiles ==
  ASSUME RunsInv, FilesInv, NEW p \in Procs, Stop(p) \/ Tear(p)
  PROVE  FilesInv'
<1>1. /\ proc' = [proc EXCEPT ![p] = Idle]
      /\ UNCHANGED <<index, approvals, journal, appended, resumes>>
      /\ torn' \in [Runs -> BOOLEAN]
  <2>1. CASE Stop(p)
    BY <2>1 DEF Stop, files, FilesInv, Rows
  <2>2. CASE Tear(p)
    BY <2>2 DEF Tear, FilesInv, Rows
  <2> QED BY <2>1, <2>2
<1>2. proc'[p] = Idle /\ \A q \in Procs \ {p} : proc'[q] = proc[q]
  BY <1>1 DEF RunsInv, Shape
<1>3. Rows' /\ Known' /\ KeysKept' /\ HashesGrow'
  BY <1>1 DEF FilesInv, Rows, Known, KeysKept, HashesGrow, Recorded, LastHash
<1>4. ASSUME NEW q \in Procs, proc'[q] # Idle PROVE Sound(proc[q])'
  <2> DEFINE n == proc[q]
  <2>1. proc'[q] = n /\ Sound(n)
    BY <1>2, <1>4 DEF FilesInv, Planned
  <2>2. ASSUME NEW c, c = n PROVE Sound(c)'
    BY <1>1, <2>1, <2>2 DEF Sound, ToOwn, KeysBacked, After
  <2> QED BY <2>1, <2>2
<1>5. Planned'
  BY <1>4 DEF Planned
<1>6. \A r \in Runs : Owed(r) \in {0, 1} /\ (Owed(r)' = 0 \/ Owed(r)' = Owed(r))
  BY <1>2, IdleOwesNothing DEF Owed
<1>7. StepsBounded'
  <2> SUFFICES ASSUME NEW r \in Runs, index[r] # NoRun
               PROVE  index[r].steps + Owed(r)' <= appended[r]
    BY <1>1 DEF StepsBounded
  <2>1. index[r].steps + Owed(r) <= appended[r]
    BY DEF FilesInv, StepsBounded
  <2>2. index[r].steps \in Nat /\ appended[r] \in Nat
    BY DEF RunsInv, Shape, FilesInv, Rows, RunRows
  <2> QED BY <1>6, <2>1, <2>2
<1> QED BY <1>3, <1>5, <1>7 DEF FilesInv

(* What a write does to the record that is not counted yet. *)
LEMMA OwedMoves ==
  ASSUME RunsInv, FilesInv, NEW p \in Procs, Write(p), NEW m, m = proc[p],
         NEW w, w = m.todo[1]
  PROVE  /\ w.file = "journal" => Owed(m.run) = 0 /\ Owed(m.run)' = 1
         /\ w.file = "touch" => w.steps \in {0, 1} /\ Owed(m.run) = w.steps /\ Owed(m.run)' = 0
         /\ w.file \in {"index", "approvals"} => Owed(m.run) = 0 /\ Owed(m.run)' = 0
         /\ \A r \in Runs \ {m.run} : Owed(r) = 0 /\ Owed(r)' = 0
<1> DEFINE n == proc'[p]
<1>1. /\ m # Idle /\ m \in Mutators /\ Len(m.todo) >= 1 /\ Len(m.todo) \in Nat
      /\ DOMAIN m.todo = 1..Len(m.todo)
      /\ \A q \in Procs \ {p} : proc[q] = Idle /\ proc'[q] = Idle
  BY NextWrite
<1>2. Ordered(m) /\ w \in Writes
  BY WriteEffect DEF Sound
<1>3. /\ Owed(m.run) = IF Uncounted(m) THEN 1 ELSE 0
      /\ \A r \in Runs \ {m.run} : Owed(r) = 0
  BY <1>1, IdleOwesNothing DEF Owed
<1>4. Uncounted(m) <=> w.file = "touch" /\ w.steps = 1
  BY <1>2 DEF Uncounted, Ordered
<1>5. w.file = "touch" => w.steps \in {0, 1}
  BY <1>1, <1>2 DEF Ordered
<1>6. CASE Len(m.todo) = 1
  <2>1. w.file = "touch"
    BY <1>2, <1>6 DEF Ordered
  <2>2. proc'[p] = Idle
    BY <1>6, NextWrite
  <2>3. \A r : Owed(r)' = 0
    BY <1>1, <2>2, IdleOwesNothing DEF Owed
  <2> QED BY <1>3, <1>4, <1>5, <2>1, <2>3
<1>7. CASE Len(m.todo) # 1
  <2>1. /\ n.run = m.run /\ n.todo[1] = m.todo[2] /\ 1 \in DOMAIN n.todo
        /\ n # Idle /\ n \in Mutators /\ 2 \in DOMAIN m.todo /\ n.todo # <<>>
    <3>1. /\ n.run = m.run /\ n # Idle /\ n \in Mutators
          /\ DOMAIN n.todo = 1..Len(m.todo) - 1
          /\ \A i \in 1..Len(m.todo) - 1 : n.todo[i] = m.todo[i + 1]
      BY <1>7, NextWrite
    <3>2. 1 \in 1..Len(m.todo) - 1 /\ 2 \in 1..Len(m.todo)
      <4> DEFINE l == Len(m.todo)
      <4>1. l \in Nat /\ l >= 1 /\ l # 1
        BY <1>1, <1>7
      <4> HIDE DEF l
      <4>2. 1 \in 1..l - 1 /\ 2 \in 1..l
        BY <4>1
      <4> QED BY <4>2 DEF l
    <3> HIDE DEF n
    <3> QED BY <1>1, <3>1, <3>2
  <2>2. m.todo[2].file \in {"touch", "journal"} /\ m.todo[2] \in Writes
    <3>1. m.todo[2] \in Writes
      BY <1>1, <2>1 DEF Mutators
    <3>2. m.todo[2].file \notin {"index", "approvals"}
      BY <1>2, <2>1 DEF Ordered
    <3> QED BY <3>1, <3>2, WritesByFile
  <2>3. w.file = "journal" => m.todo[2].file # "journal"
    <3>1. JournalFresh(m.todo)
      BY DEF RunsInv, WritesFresh
    <3> QED BY <1>1, <2>1, <3>1 DEF JournalFresh
  <2>4. m.todo[2].file = "touch" => (m.todo[2].steps = 1 <=> w.file = "journal")
    BY <1>2, <2>1 DEF Ordered
  <2>5. Uncounted(n) <=> w.file = "journal"
    BY <2>1, <2>2, <2>3, <2>4 DEF Uncounted
  <2>6. /\ Owed(m.run)' = IF Uncounted(n) THEN 1 ELSE 0
        /\ \A r \in Runs \ {m.run} : Owed(r)' = 0
    <3>1. \A q \in Procs \ {p} : ~Uncounted(proc'[q])
      BY <1>1, IdleOwesNothing
    <3> QED BY <2>1, <3>1 DEF Owed
  <2> QED BY <1>3, <1>4, <1>5, <2>5, <2>6
<1> QED BY <1>6, <1>7

(* A write keeps what is recorded tied to a run and its checkpoint. *)
LEMMA WriteKeepsKnown ==
  ASSUME RunsInv, FilesInv, NEW p \in Procs, Write(p), NEW m, m = proc[p]
  PROVE  Known' /\ KeysKept'
<1> DEFINE w == m.todo[1]
<1>1. /\ Sound(m) /\ m.run \in Runs /\ w \in Writes /\ w = m.todo[1]
      /\ w.file # "approvals" => w.run = m.run
      /\ WriteIndex(w) \/ WriteApprovals(w) \/ WriteJournal(w)
      /\ approvals' = After(m)
      /\ \A r \in Runs : index[r] # NoRun => index'[r] # NoRun
      /\ index'[m.run] # NoRun
      /\ \A r \in Runs \ {m.run} : journal'[r] = journal[r]
  BY WriteEffect
<1>2. 1 \in DOMAIN m.todo
  BY NextWrite
<1>3. \A r \in Runs : index'[r] = NoRun => journal'[r] = <<>>
  BY <1>1 DEF FilesInv, Known
<1>4. ASSUME NEW k \in Checkpoints, After(m)[k] # NoCheck
      PROVE  index'[After(m)[k].run] # NoRun
  <2>1. CASE After(m)[k] = approvals[k]
    <3>1. approvals[k].run \in Runs
      BY <1>4, <2>1 DEF RunsInv, Shape, Checks, NoCheck
    <3> QED BY <1>1, <1>4, <2>1, <3>1 DEF FilesInv, Known
  <2> QED BY <1>1, <2>1 DEF Sound, ToOwn
<1>5. ASSUME NEW k \in Checkpoints
      PROVE  /\ approvals[k] # NoCheck => After(m)[k] # NoCheck
             /\ approvals[k].status = "resolved" => After(m)[k].status = "resolved"
  <2>1. approvals[k] # NoCheck => After(m)[k] # NoCheck
    BY <1>1 DEF Sound, ToOwn
  <2>2. ApprovalsFresh(m.op, m.todo, authority, said)
    BY DEF RunsInv, WritesFresh
  <2>3. approvals[k].status = "resolved" => After(m)[k] = approvals[k]
    BY <1>2, <2>2 DEF ApprovalsFresh, After
  <2> QED BY <2>1, <2>3
<1>6. ASSUME NEW r \in Runs, NEW k \in Checkpoints
      PROVE  /\ Recorded(r, <<"approval", k>>)' => After(m)[k] # NoCheck
             /\ Recorded(r, <<"resolved", k>>)' => After(m)[k].status = "resolved"
  <2>1. /\ Recorded(r, <<"approval", k>>) => After(m)[k] # NoCheck
        /\ Recorded(r, <<"resolved", k>>) => After(m)[k].status = "resolved"
    BY <1>5 DEF FilesInv, KeysKept
  <2>2. CASE journal'[r] = journal[r]
    BY <2>1, <2>2 DEF Recorded
  <2>3. CASE journal'[r] # journal[r]
    <3>1. WriteJournal(w) /\ w.file = "journal" /\ w.run = r /\ ~torn[r]
      <4>1. WriteJournal(w) /\ w.file = "journal"
        BY <1>1, <2>3 DEF WriteIndex, WriteApprovals, WriteJournal
      <4>2. w.run = r /\ ~torn[r]
        BY <1>1, <2>3, <4>1, LineWritten
      <4> QED BY <4>1, <4>2
    <3>2. /\ \A i \in DOMAIN journal[r] : journal'[r][i] = journal[r][i]
          /\ \A i \in DOMAIN journal'[r] : i \in DOMAIN journal[r] \/ i = Len(journal[r]) + 1
          /\ journal'[r][Len(journal[r]) + 1] = Line(w)
      <4> HIDE DEF w
      <4>1. w \in Writes
        BY <1>1
      <4>2. ASSUME NEW v \in Writes, WriteJournal(v), v.run = r
            PROVE  /\ \A i \in DOMAIN journal[r] : journal'[r][i] = journal[r][i]
                   /\ \A i \in DOMAIN journal'[r] : i \in DOMAIN journal[r] \/ i = Len(journal[r]) + 1
                   /\ journal'[r][Len(journal[r]) + 1] = Line(v)
        BY <3>1, <4>2, LineWritten
      <4> QED BY <3>1, <4>1, <4>2
    <3>3. /\ w.key = <<"approval", k>> => After(m)[k] # NoCheck
          /\ w.key = <<"resolved", k>> => After(m)[k].status = "resolved"
      BY <1>1, <1>2, <3>1 DEF Sound, KeysBacked
    <3>4. ASSUME NEW key, Recorded(r, key)' PROVE Recorded(r, key) \/ key = w.key
      BY <3>2, <3>4 DEF Recorded, Line
    <3> QED BY <2>1, <3>3, <3>4
  <2> QED BY <2>2, <2>3
<1> HIDE DEF w
<1> QED BY <1>1, <1>3, <1>4, <1>6 DEF Known, KeysKept

(* A write keeps the last hash the greatest. *)
LEMMA WriteKeepsHashes ==
  ASSUME RunsInv, FilesInv, NEW p \in Procs, Write(p), NEW m, m = proc[p]
  PROVE  HashesGrow'
<1> DEFINE w == m.todo[1]
<1>1. /\ Sound(m) /\ m.run \in Runs /\ w \in Writes
      /\ w.file # "approvals" => w.run = m.run
      /\ WriteIndex(w) \/ WriteApprovals(w) \/ WriteJournal(w)
  BY WriteEffect
<1>2. 1 \in DOMAIN m.todo
  BY NextWrite
<1>3. HashesGrow
  BY DEF FilesInv
<1>4. CASE UNCHANGED <<journal, appended>>
  BY <1>3, <1>4 DEF HashesGrow, LastHash
<1>5. CASE WriteJournal(w)
  <2>1. w.run = m.run /\ w.file = "journal"
    BY <1>1, <1>5 DEF WriteJournal
  <2> SUFFICES ASSUME NEW r \in Runs
               PROVE  /\ Len(journal'[r]) <= appended'[r]
                      /\ LastHash(r)' <= appended'[r]
                      /\ \A i \in DOMAIN journal'[r] :
                           /\ journal'[r][i].hash <= LastHash(r)'
                           /\ \A h \in 0..MaxAppends :
                                journal'[r][i].key = <<"resume", h>> => h < journal'[r][i].hash
    BY DEF HashesGrow
  <2>2. /\ Len(journal[r]) <= appended[r]
        /\ LastHash(r) <= appended[r]
        /\ \A i \in DOMAIN journal[r] :
             /\ journal[r][i].hash <= LastHash(r)
             /\ \A h \in 0..MaxAppends :
                  journal[r][i].key = <<"resume", h>> => h < journal[r][i].hash
    BY <1>3 DEF HashesGrow
  <2>3. /\ LastHash(r) \in 0..MaxAppends /\ Len(journal[r]) \in Nat /\ appended[r] \in 0..MaxAppends
        /\ \A i \in DOMAIN journal[r] : journal[r][i].hash \in 1..MaxAppends
    <3>1. Shape
      BY DEF RunsInv
    <3>2. LastHash(r) \in 0..MaxAppends /\ appended[r] \in 0..MaxAppends
      BY <3>1, LastHashType DEF Shape
    <3>3. journal[r] \in Seq(Records)
      BY <3>1 DEF Shape
    <3>4. Len(journal[r]) \in Nat /\ \A i \in DOMAIN journal[r] : journal[r][i] \in Records
      BY <3>3
    <3> QED BY <3>2, <3>4 DEF Records
  <2>4. CASE r # m.run \/ torn[r]
    <3>1. /\ journal'[r] = journal[r] /\ (appended'[r] = appended[r] \/ appended'[r] = appended[r] + 1)
      BY <1>1, <1>5, <2>1, <2>4, LineWritten
    <3>2. LastHash(r)' = LastHash(r)
      BY <3>1 DEF LastHash
    <3> QED BY <2>2, <2>3, <3>1, <3>2, StoreAssumption
  <2>5. CASE r = m.run /\ ~torn[r]
    <3> DEFINE e == Len(journal[r]) + 1
    <3>1. /\ appended'[r] = appended[r] + 1 /\ Len(journal'[r]) = e
          /\ \A i \in DOMAIN journal[r] : journal'[r][i] = journal[r][i]
          /\ \A i \in DOMAIN journal'[r] : i \in DOMAIN journal[r] \/ i = e
          /\ journal'[r][e] = Line(w)
          /\ LastHash(r)' = appended[r] + 1
      <4> HIDE DEF w
      <4> QED BY <1>1, <1>5, <2>1, <2>5, LineWritten
    <3>2. Line(w).hash = appended[r] + 1 /\ Line(w).key = w.key
      BY <2>1, <2>5 DEF Line
    <3>3. \A h \in 0..MaxAppends : w.key = <<"resume", h>> => h <= appended[r]
      BY <1>1, <1>2, <2>1, <2>5 DEF Sound, KeysBacked
    <3>4. Len(journal'[r]) <= appended'[r] /\ LastHash(r)' <= appended'[r]
      BY <2>2, <2>3, <3>1, StoreAssumption
    <3> HIDE DEF e, w
    <3>5. ASSUME NEW i \in DOMAIN journal'[r]
          PROVE  /\ journal'[r][i].hash <= appended[r] + 1
                 /\ \A h \in 0..MaxAppends :
                      journal'[r][i].key = <<"resume", h>> => h < journal'[r][i].hash
      <4>1. CASE i \in DOMAIN journal[r]
        BY <2>2, <2>3, <3>1, <4>1, StoreAssumption
      <4>2. CASE i = e
        BY <2>3, <3>1, <3>2, <3>3, <4>2, StoreAssumption
      <4> QED BY <3>1, <4>1, <4>2
    <3> QED BY <3>1, <3>4, <3>5
  <2> QED BY <2>4, <2>5
<1> QED BY <1>1, <1>4, <1>5 DEF WriteIndex, WriteApprovals

(* A write keeps the files in order. *)
LEMMA WriteKeepsFiles ==
  ASSUME RunsInv, FilesInv, NEW p \in Procs, Write(p)
  PROVE  FilesInv'
<1> SUFFICES ASSUME NEW m, m = proc[p] PROVE FilesInv'
  OBVIOUS
<1> DEFINE w == m.todo[1]
<1>1. /\ Sound(m) /\ m.run \in Runs /\ w \in Writes /\ w = m.todo[1]
      /\ w.file # "approvals" => w.run = m.run
      /\ WriteIndex(w) \/ WriteApprovals(w) \/ WriteJournal(w)
      /\ index' \in [Runs -> {NoRun} \cup RunRows] /\ torn' \in [Runs -> BOOLEAN]
      /\ \A r \in Runs : appended[r] \in Nat /\ appended'[r] \in Nat /\ appended[r] <= appended'[r]
      /\ \A r \in Runs \ {m.run} : index'[r] = index[r] /\ appended'[r] = appended[r]
  BY WriteEffect
<1>2. /\ m \in Mutators
      /\ \A q \in Procs \ {p} : proc'[q] = Idle
      /\ Len(m.todo) = 1 =>
           /\ proc'[p] = Idle
           /\ resumes' = IF m.op = "resume" THEN [resumes EXCEPT ![m.run] = Append(@, m.from)] ELSE resumes
      /\ Len(m.todo) # 1 => UNCHANGED resumes
  BY NextWrite
<1>3. Rows'
  <2>1. resumes[m.run] \in Seq(0..MaxAppends) /\ m.from \in 0..MaxAppends
    BY <1>1, <1>2 DEF FilesInv, Rows, Mutators
  <2>2. resumes' = resumes \/ resumes' = [resumes EXCEPT ![m.run] = Append(resumes[m.run], m.from)]
    BY <1>2
  <2>3. Append(resumes[m.run], m.from) \in Seq(0..MaxAppends)
    BY <2>1
  <2>4. resumes' \in [Runs -> Seq(0..MaxAppends)]
    BY <2>2, <2>3 DEF FilesInv, Rows
  <2> QED BY <1>1, <2>4 DEF Rows
<1>4. Planned'
  <2>1. CASE Len(m.todo) = 1
    BY <1>2, <2>1 DEF Planned
  <2>2. CASE Len(m.todo) # 1
    <3>1. ASSUME NEW n, n = proc'[p] PROVE Sound(n)'
      BY <2>2, <3>1, PlanShifts
    <3>2. Sound(proc[p])'
      BY <3>1
    <3> QED BY <1>2, <3>2 DEF Planned
  <2> QED BY <2>1, <2>2
<1>5. Known' /\ KeysKept' /\ HashesGrow'
  BY WriteKeepsKnown, WriteKeepsHashes
<1>6. StepsBounded'
  <2> SUFFICES ASSUME NEW r \in Runs, index'[r] # NoRun
               PROVE  index'[r].steps + Owed(r)' <= appended'[r]
    BY DEF StepsBounded
  <2>1. index[r] # NoRun => index[r] \in RunRows /\ index[r].steps \in Nat
                             /\ index[r].steps + Owed(r) <= appended[r]
    BY DEF FilesInv, StepsBounded, Rows, RunRows
  <2>2. CASE r # m.run
    BY <1>1, <2>1, <2>2, OwedMoves
  <2>3. CASE r = m.run /\ w.file = "index"
    <3>1. WriteIndex(w)
      BY <1>1, <2>3 DEF WriteApprovals, WriteJournal
    <3>2. index'[r].steps = 0
      BY <1>1, <2>3, <3>1, IndexWritten DEF FilesInv
    <3>3. Owed(r)' = 0
      BY <2>3, OwedMoves
    <3> QED BY <1>1, <3>2, <3>3
  <2>4. CASE r = m.run /\ w.file = "touch"
    <3>1. WriteIndex(w) /\ index[r] # NoRun
      BY <1>1, <2>4 DEF WriteApprovals, WriteJournal, Sound
    <3>2. index'[r].steps = index[r].steps + w.steps
      BY <1>1, <2>4, <3>1, IndexWritten DEF FilesInv
    <3>3. w.steps \in {0, 1} /\ Owed(r) = w.steps /\ Owed(r)' = 0
      BY <2>4, OwedMoves
    <3>4. appended'[r] = appended[r]
      BY <3>1 DEF WriteIndex
    <3> HIDE DEF w
    <3> QED BY <1>1, <2>1, <3>1, <3>2, <3>3, <3>4
  <2>5. CASE r = m.run /\ w.file = "approvals"
    <3>1. WriteApprovals(w)
      BY <1>1, <2>5 DEF WriteIndex, WriteJournal
    <3>2. index' = index /\ appended' = appended
      BY <3>1 DEF WriteApprovals
    <3>3. Owed(r) = 0 /\ Owed(r)' = 0
      BY <2>5, OwedMoves
    <3> QED BY <2>1, <3>2, <3>3
  <2>6. CASE r = m.run /\ w.file = "journal"
    <3>1. WriteJournal(w)
      BY <1>1, <2>6 DEF WriteIndex, WriteApprovals
    <3>2. index' = index /\ appended'[r] = appended[r] + 1
      <4> HIDE DEF w
      <4>1. w.run = r /\ UNCHANGED index
        BY <1>1, <2>6, <3>1 DEF WriteJournal
      <4> QED BY <1>1, <3>1, <4>1, LineWritten
    <3>3. Owed(r) = 0 /\ Owed(r)' = 1
      BY <2>6, OwedMoves
    <3> QED BY <1>1, <2>1, <3>2, <3>3
  <2> QED BY <1>1, <2>2, <2>3, <2>4, <2>5, <2>6, WritesByFile
<1> QED BY <1>3, <1>4, <1>5, <1>6 DEF FilesInv

(* Every step keeps the files in order. *)
LEMMA FilesInvNext ==
  ASSUME RunsInv, FilesInv, [Next]_vars
  PROVE  FilesInv'
<1>1. CASE UNCHANGED <<files, proc, resumes>>
  <2>1. UNCHANGED <<index, approvals, journal, torn, appended, proc, resumes>>
    BY <1>1 DEF files
  <2>2. Rows' /\ Known' /\ KeysKept' /\ HashesGrow'
    BY <2>1 DEF FilesInv, Rows, Known, KeysKept, HashesGrow, Recorded, LastHash
  <2>3. Planned' /\ StepsBounded'
    BY <2>1 DEF FilesInv, Planned, Sound, ToOwn, KeysBacked, After, StepsBounded, Owed
  <2> QED BY <2>2, <2>3 DEF FilesInv
<1> QED BY <1>1, StepKinds, EnterKeepsFiles, StopKeepsFiles, WriteKeepsFiles

LEMMA FilesInvAlways == Spec => []FilesInv
<1>1. RunsInv /\ FilesInv /\ [Next]_vars => FilesInv'
  BY FilesInvNext
<1> QED BY <1>1, FilesInvInit, RunsInvAlways, PTL DEF Spec

LEMMA HashesAreNaturals ==
  ASSUME NEW q \in Seq(0..MaxAppends)
  PROVE  /\ \A i \in DOMAIN q : q[i] \in 0..MaxAppends /\ q[i] \in Nat
         /\ q \in Seq(Nat)
<1>1. \A i \in DOMAIN q : q[i] \in 0..MaxAppends
  <2> DEFINE S == 0..MaxAppends
  <2>1. q \in Seq(S)
    OBVIOUS
  <2> HIDE DEF S
  <2>2. \A i \in DOMAIN q : q[i] \in S
    BY <2>1
  <2> QED BY <2>2 DEF S
<1>2. \A i \in DOMAIN q : q[i] \in Nat
  BY <1>1
<1>3. Len(q) \in Nat /\ DOMAIN q = 1..Len(q) /\ q = [i \in 1..Len(q) |-> q[i]]
  OBVIOUS
<1>4. q \in [1..Len(q) -> Nat]
  BY <1>2, <1>3
<1>5. q \in Seq(Nat)
  BY <1>3, <1>4, SeqDef
<1> QED BY <1>1, <1>2, <1>5

(* Every line of the store is well formed, and no count outgrows the appends. *)
THEOREM RunsTypeCorrect == Spec => []TypeOK
<1>1. RunsInv /\ FilesInv => TypeOK
  <2> SUFFICES ASSUME RunsInv, FilesInv PROVE TypeOK
    OBVIOUS
  <2>1. index \in [Runs -> {NoRun} \cup
                [status : Statuses, steps : 0..MaxAppends, waiting : 0..Cardinality(Checkpoints)]]
    <3>1. ASSUME NEW r \in Runs, index[r] # NoRun
          PROVE  index[r] \in [status : Statuses, steps : 0..MaxAppends,
                               waiting : 0..Cardinality(Checkpoints)]
      <4>1. index[r] \in RunRows /\ index[r].steps + Owed(r) <= appended[r]
        BY <3>1 DEF FilesInv, Rows, StepsBounded
      <4>2. Owed(r) \in {0, 1} /\ appended[r] \in 0..MaxAppends /\ MaxAppends \in Nat
        BY StoreAssumption DEF Owed, RunsInv, Shape
      <4>3. index[r].steps \in Nat
        BY <4>1 DEF RunRows
      <4>4. index[r].steps \in 0..MaxAppends
        BY <4>1, <4>2, <4>3
      <4> QED BY <4>1, <4>4 DEF RunRows
    <3> QED BY <3>1 DEF FilesInv, Rows
  <2>2. \A r \in Runs : /\ Len(journal[r]) <= appended[r]
                        /\ \A i \in DOMAIN journal[r] : journal[r][i] \in Records
    <3>1. \A r \in Runs : journal[r] \in Seq(Records)
      BY DEF RunsInv, Shape
    <3> QED BY <3>1 DEF FilesInv, HashesGrow
  <2>3. torn \in [Runs -> BOOLEAN]
        /\ \A r \in Runs : \A i \in DOMAIN resumes[r] : resumes[r][i] \in 0..MaxAppends
    <3>1. \A r \in Runs : resumes[r] \in Seq(0..MaxAppends)
      BY DEF FilesInv, Rows
    <3> QED BY <3>1, HashesAreNaturals DEF FilesInv, Rows
  <2>4. /\ approvals \in [Checkpoints -> {NoCheck} \cup [status : {"pending"}, run : Runs] \cup
                    [status : {"resolved"}, run : Runs, decision : Decisions, confirmed : BOOLEAN]]
        /\ authority \in [Linked -> {"NONE", "PENDING", "APPROVED", "DENIED", "EXPIRED", "USED"}]
        /\ said \in [Linked -> SUBSET {"APPROVED", "DENIED"}]
        /\ DOMAIN proc = Procs
        /\ appended \in [Runs -> 0..MaxAppends]
    BY DEF RunsInv, Shape, Checks, AuthorityStates, Verdicts
  <2> QED BY <2>1, <2>2, <2>3, <2>4 DEF TypeOK
<1> QED BY <1>1, RunsInvAlways, FilesInvAlways, PTL

-----------------------------------------------------------------------------
JournalLeft(m) == \E i \in DOMAIN m.todo : m.todo[i].file = "journal"

(* Where appends are whole: a resume starts at the last record, behind every record an
   earlier one started from, and appends another. *)
ResumeAhead(m) ==
  /\ \A i \in DOMAIN resumes[m.run] : resumes[m.run][i] < m.from
  /\ m.from <= LastHash(m.run)
  /\ m.from < LastHash(m.run) \/ JournalLeft(m)
Behind ==
  /\ \A r \in Runs : ~torn[r]
  /\ \A r \in Runs : \A i \in DOMAIN resumes[r] : resumes[r][i] < LastHash(r)
  /\ \A p \in Procs : proc[p].op = "resume" => ResumeAhead(proc[p])

(* What a write leaves of the journal records to come. *)
LEMMA JournalLeftMoves ==
  ASSUME RunsInv, FilesInv, NEW p \in Procs, Write(p), NEW m, m = proc[p]
  PROVE  /\ m.todo[1].file # "journal" /\ Len(m.todo) # 1 => (JournalLeft(proc[p])' <=> JournalLeft(m))
         /\ Len(m.todo) = 1 => ~JournalLeft(m) /\ m.todo[1].file = "touch"
<1>1. /\ Len(m.todo) \in Nat /\ Len(m.todo) >= 1 /\ DOMAIN m.todo = 1..Len(m.todo)
      /\ Len(m.todo) # 1 =>
           /\ DOMAIN proc'[p].todo = 1..Len(m.todo) - 1
           /\ \A i \in 1..Len(m.todo) - 1 : proc'[p].todo[i] = m.todo[i + 1]
  BY NextWrite
<1>2. CASE Len(m.todo) = 1
  <2>1. m.todo[1].file = "touch" /\ DOMAIN m.todo = {1}
    BY <1>1, <1>2, WriteEffect DEF Sound, Ordered
  <2> QED BY <1>2, <2>1 DEF JournalLeft
<1>3. CASE Len(m.todo) # 1 /\ m.todo[1].file # "journal"
  <2> DEFINE l == Len(m.todo)
             n == proc'[p]
  <2>1. /\ l \in Nat /\ l >= 1 /\ DOMAIN m.todo = 1..l
        /\ DOMAIN n.todo = 1..l - 1
        /\ \A i \in 1..l - 1 : n.todo[i] = m.todo[i + 1]
    BY <1>1, <1>3
  <2> HIDE DEF l, n
  <2>2. ASSUME NEW i \in DOMAIN n.todo, n.todo[i].file = "journal" PROVE JournalLeft(m)
    <3>1. i + 1 \in 1..l /\ n.todo[i] = m.todo[i + 1]
      BY <2>1
    <3> QED BY <2>1, <2>2, <3>1 DEF JournalLeft
  <2>3. ASSUME NEW i \in DOMAIN m.todo, m.todo[i].file = "journal" PROVE JournalLeft(n)
    <3>1. i # 1
      BY <1>3, <2>3
    <3>2. i - 1 \in 1..l - 1 /\ (i - 1) + 1 = i
      BY <2>1, <3>1
    <3>3. n.todo[i - 1] = m.todo[i]
      BY <2>1, <3>2
    <3> QED BY <2>1, <2>3, <3>2, <3>3 DEF JournalLeft
  <2>4. JournalLeft(n) <=> JournalLeft(m)
    BY <2>2, <2>3 DEF JournalLeft
  <2>5. JournalLeft(proc[p])' <=> JournalLeft(n)
    BY DEF JournalLeft, n
  <2> QED BY <1>3, <2>4, <2>5
<1> QED BY <1>2, <1>3

(* The last record moves on when a line is appended, and only then. *)
LEMMA LastMoves ==
  ASSUME RunsInv, FilesInv, Behind, NEW p \in Procs, Write(p), NEW m, m = proc[p]
  PROVE  /\ m.run \in Runs /\ \A r \in Runs : ~torn'[r]
         /\ \A r \in Runs : LastHash(r) \in Nat /\ LastHash(r)' \in Nat /\ LastHash(r) <= LastHash(r)'
         /\ m.todo[1].file = "journal" =>
              /\ LastHash(m.run) < LastHash(m.run)' /\ LastStatus(m.run)' = m.todo[1].status
              /\ Len(journal'[m.run]) = Len(journal[m.run]) + 1
              /\ \A r \in Runs \ {m.run} : journal'[r] = journal[r]
         /\ m.todo[1].file # "journal" => UNCHANGED journal
<1> DEFINE w == m.todo[1]
<1>1. /\ m.run \in Runs /\ w \in Writes
      /\ w.file # "approvals" => w.run = m.run
      /\ WriteIndex(w) \/ WriteApprovals(w) \/ WriteJournal(w)
  BY WriteEffect
<1>2. \A r \in Runs : LastHash(r) \in 0..MaxAppends
  BY LastHashType DEF RunsInv
<1>3. CASE ~WriteJournal(w)
  <2>1. UNCHANGED <<journal, torn>> /\ w.file # "journal"
    BY <1>1, <1>3 DEF WriteIndex, WriteApprovals
  <2>2. \A r \in Runs : LastHash(r)' = LastHash(r)
    BY <2>1 DEF LastHash
  <2> QED BY <1>1, <1>2, <2>1, <2>2 DEF Behind
<1>4. CASE WriteJournal(w)
  <2>1. w.file = "journal" /\ w.run = m.run /\ torn' = [torn EXCEPT ![w.run] = FALSE] /\ ~torn[m.run]
    BY <1>1, <1>4 DEF WriteJournal, Behind
  <2>2. \A r \in Runs : ~torn'[r]
    BY <1>1, <2>1 DEF Behind, FilesInv, Rows
  <2> HIDE DEF w
  <2>3. /\ LastHash(m.run)' = appended[m.run] + 1 /\ LastStatus(m.run)' = w.status
        /\ Len(journal'[m.run]) = Len(journal[m.run]) + 1
        /\ \A r \in Runs \ {m.run} : journal'[r] = journal[r]
    BY <1>1, <1>4, <2>1, LineWritten
  <2>4. LastHash(m.run) <= appended[m.run] /\ appended[m.run] \in 0..MaxAppends
    BY <1>1 DEF FilesInv, HashesGrow, RunsInv, Shape
  <2>5. \A r \in Runs \ {m.run} : LastHash(r)' = LastHash(r)
    BY <2>3 DEF LastHash
  <2>6. LastHash(m.run)' \in Nat /\ LastHash(m.run) < LastHash(m.run)'
        /\ LastHash(m.run) <= LastHash(m.run)'
    BY <1>1, <1>2, <2>3, <2>4
  <2>7. \A r \in Runs : LastHash(r) \in Nat /\ LastHash(r)' \in Nat /\ LastHash(r) <= LastHash(r)'
    BY <1>1, <1>2, <2>5, <2>6
  <2> QED BY <1>1, <2>1, <2>2, <2>3, <2>6, <2>7 DEF w
<1> QED BY <1>3, <1>4

(* No two numbers are the same in a sequence that ends with one greater than the others. *)
LEMMA OnceMore ==
  ASSUME NEW q \in Seq(Nat), NEW x \in Nat, NEW a, a = Append(q, x),
         \A i, j \in DOMAIN q : q[i] = q[j] => i = j,
         \A i \in DOMAIN q : q[i] < x
  PROVE  /\ \A i, j \in DOMAIN a : a[i] = a[j] => i = j
         /\ \A i \in DOMAIN a : a[i] \in Nat /\ a[i] <= x
<1>1. /\ \A i \in DOMAIN a : i \in DOMAIN q \/ i = Len(q) + 1
      /\ \A i \in DOMAIN q : a[i] = q[i] /\ q[i] \in Nat
      /\ a[Len(q) + 1] = x
  OBVIOUS
<1> QED BY <1>1

(* A write keeps resumes apart. *)
LEMMA WriteKeepsBehind ==
  ASSUME RunsInv, FilesInv, Behind, ResumesOnce, NEW p \in Procs, Write(p)
  PROVE  Behind' /\ ResumesOnce'
<1> SUFFICES ASSUME NEW m, m = proc[p] PROVE Behind' /\ ResumesOnce'
  OBVIOUS
<1>1. /\ m \in Mutators /\ m.run \in Runs
      /\ \A q \in Procs \ {p} : proc'[q] = Idle
      /\ Len(m.todo) = 1 =>
           /\ proc'[p] = Idle
           /\ resumes' = IF m.op = "resume" THEN [resumes EXCEPT ![m.run] = Append(@, m.from)] ELSE resumes
      /\ Len(m.todo) # 1 =>
           /\ UNCHANGED resumes
           /\ proc'[p].op = m.op /\ proc'[p].run = m.run /\ proc'[p].from = m.from
  BY NextWrite, WriteEffect
<1>2. /\ \A r \in Runs : ~torn'[r]
      /\ \A r \in Runs : LastHash(r) \in Nat /\ LastHash(r)' \in Nat /\ LastHash(r) <= LastHash(r)'
      /\ m.todo[1].file = "journal" => LastHash(m.run) < LastHash(m.run)'
  BY LastMoves
<1>3. /\ m.todo[1].file # "journal" /\ Len(m.todo) # 1 => (JournalLeft(proc[p])' <=> JournalLeft(m))
      /\ Len(m.todo) = 1 => ~JournalLeft(m) /\ m.todo[1].file = "touch"
  BY JournalLeftMoves
<1>4. m.op = "resume" => ResumeAhead(m)
  BY DEF Behind
<1>5. \A r \in Runs : resumes[r] \in Seq(0..MaxAppends) /\ resumes[r] \in Seq(Nat)
                      /\ \A i \in DOMAIN resumes[r] : resumes[r][i] \in Nat /\ resumes[r][i] < LastHash(r)
  <2>1. ASSUME NEW r \in Runs PROVE resumes[r] \in Seq(0..MaxAppends)
    BY DEF FilesInv, Rows
  <2> QED BY <2>1, HashesAreNaturals DEF Behind
<1>6. m.from \in Nat
  BY <1>1 DEF Mutators
<1>7. CASE Len(m.todo) # 1 \/ m.op # "resume"
  <2>1. UNCHANGED resumes
    BY <1>1, <1>7
  <2>2. ResumesOnce'
    BY <2>1 DEF ResumesOnce
  <2>3. ASSUME NEW r \in Runs, NEW i \in DOMAIN resumes'[r] PROVE resumes'[r][i] < LastHash(r)'
    BY <1>2, <1>5, <2>1
  <2>4. ASSUME NEW q \in Procs, proc'[q].op = "resume" PROVE ResumeAhead(proc[q])'
    <3>1. q = p /\ Len(m.todo) # 1 /\ m.op = "resume"
      BY <1>1, <2>4 DEF Idle
    <3>2. /\ \A i \in DOMAIN resumes[m.run] : resumes[m.run][i] < m.from
          /\ m.from <= LastHash(m.run)
          /\ m.from < LastHash(m.run) \/ JournalLeft(m)
      BY <1>4, <3>1 DEF ResumeAhead
    <3>3. /\ m.from <= LastHash(m.run)'
          /\ m.from < LastHash(m.run)' \/ JournalLeft(proc[p])'
      BY <1>1, <1>2, <1>3, <1>6, <3>1, <3>2
    <3>4. LastHash(proc[p].run)' = LastHash(m.run)'
      BY <1>1, <3>1 DEF LastHash
    <3> QED BY <1>1, <2>1, <3>1, <3>2, <3>3, <3>4 DEF ResumeAhead
  <2> QED BY <1>2, <2>2, <2>3, <2>4 DEF Behind
<1>8. CASE Len(m.todo) = 1 /\ m.op = "resume"
  <2>1. /\ resumes' = [resumes EXCEPT ![m.run] = Append(resumes[m.run], m.from)]
        /\ \A q \in Procs : proc'[q] = Idle
    BY <1>1, <1>8
  <2>2. /\ \A i \in DOMAIN resumes[m.run] : resumes[m.run][i] < m.from
        /\ m.from < LastHash(m.run)
    BY <1>3, <1>4, <1>8 DEF ResumeAhead
  <2>3. /\ resumes'[m.run] = Append(resumes[m.run], m.from)
        /\ \A r \in Runs \ {m.run} : resumes'[r] = resumes[r]
    BY <1>1, <2>1 DEF FilesInv, Rows
  <2>4. /\ \A i, j \in DOMAIN resumes'[m.run] : resumes'[m.run][i] = resumes'[m.run][j] => i = j
        /\ \A i \in DOMAIN resumes'[m.run] : resumes'[m.run][i] \in Nat /\ resumes'[m.run][i] <= m.from
    <3>1. \A i, j \in DOMAIN resumes[m.run] : resumes[m.run][i] = resumes[m.run][j] => i = j
      BY <1>1 DEF ResumesOnce
    <3>2. resumes[m.run] \in Seq(Nat)
      BY <1>1, <1>5
    <3> QED BY <1>6, <2>2, <2>3, <3>1, <3>2, OnceMore
  <2>5. ResumesOnce'
    BY <2>3, <2>4 DEF ResumesOnce
  <2>6. ASSUME NEW r \in Runs, NEW i \in DOMAIN resumes'[r] PROVE resumes'[r][i] < LastHash(r)'
    <3>1. CASE r = m.run
      BY <1>1, <1>2, <1>6, <2>2, <2>4, <2>6, <3>1
    <3>2. CASE r # m.run
      BY <1>2, <1>5, <2>3, <2>6, <3>2
    <3> QED BY <3>1, <3>2
  <2>7. \A q \in Procs : proc'[q].op # "resume"
    BY <2>1 DEF Idle
  <2> QED BY <1>2, <2>5, <2>6, <2>7 DEF Behind
<1> QED BY <1>7, <1>8

(* Every step keeps resumes apart, where appends are whole. *)
LEMMA BehindNext ==
  ASSUME ~TornAppends, RunsInv, FilesInv, Behind, ResumesOnce, [Next]_vars
  PROVE  Behind' /\ ResumesOnce'
<1>1. CASE UNCHANGED <<files, proc, resumes>>
  <2>1. UNCHANGED <<index, approvals, journal, torn, appended, proc, resumes>>
    BY <1>1 DEF files
  <2> QED BY <2>1 DEF Behind, ResumeAhead, LastHash, JournalLeft, ResumesOnce
<1>2. ASSUME NEW p \in Procs, NEW m, Enters(p, m) PROVE Behind' /\ ResumesOnce'
  <2>1. /\ proc' = [proc EXCEPT ![p] = m]
        /\ \A q \in Procs : proc[q] = Idle
        /\ UNCHANGED <<index, approvals, journal, torn, appended, resumes>>
        /\ Fresh(m)
    BY <1>2 DEF Enters, files
  <2>2. proc'[p] = m /\ \A q \in Procs \ {p} : proc'[q] = Idle
    BY <2>1 DEF RunsInv, Shape
  <2>3. \A r \in Runs : LastHash(r)' = LastHash(r) /\ LastHash(r) \in Nat
    BY <2>1, LastHashType DEF LastHash, RunsInv
  <2>4. m.run \in Runs
    <3>1. RunsInv'
      BY RunsInvStep
    <3>2. m # Idle
      BY <2>1 DEF Fresh, Idle
    <3> QED BY <2>2, <3>1, <3>2 DEF RunsInv, Shape, Mutators
  <2>5. m.op = "resume" => ResumeAhead(m)
    BY <2>1, <2>3, <2>4 DEF Fresh, Behind, ResumeAhead, JournalLeft
  <2>6. m.op = "resume" => ResumeAhead(m)'
    BY <2>1, <2>3, <2>4, <2>5 DEF ResumeAhead
  <2>7. \A q \in Procs : proc'[q].op = "resume" => ResumeAhead(proc[q])'
    <3>1. ASSUME NEW q \in Procs, proc'[q].op = "resume" PROVE q = p /\ m.op = "resume"
      BY <2>2, <3>1 DEF Idle
    <3>2. ASSUME NEW n, n = proc'[p], ResumeAhead(n)' PROVE ResumeAhead(proc[p])'
      BY <3>2 DEF ResumeAhead, JournalLeft, LastHash
    <3> QED BY <2>2, <2>6, <3>1, <3>2
  <2> QED BY <2>1, <2>3, <2>7 DEF Behind, ResumesOnce
<1>3. ASSUME NEW p \in Procs, Stop(p) PROVE Behind' /\ ResumesOnce'
  <2>1. /\ proc' = [proc EXCEPT ![p] = Idle]
        /\ UNCHANGED <<index, approvals, journal, torn, appended, resumes>>
    BY <1>3 DEF Stop, files
  <2>2. proc'[p] = Idle /\ \A q \in Procs \ {p} : proc'[q] = proc[q]
    BY <2>1 DEF RunsInv, Shape
  <2>3. \A q \in Procs : proc'[q].op = "resume" => proc'[q] = proc[q]
    BY <2>2 DEF Idle
  <2>4. \A q \in Procs : ResumeAhead(proc[q]) /\ proc'[q] = proc[q] => ResumeAhead(proc[q])'
    BY <2>1 DEF ResumeAhead, LastHash, JournalLeft
  <2>5. \A q \in Procs : proc'[q].op = "resume" => ResumeAhead(proc[q])'
    BY <2>3, <2>4 DEF Behind
  <2>6. \A r \in Runs : LastHash(r)' = LastHash(r)
    BY <2>1 DEF LastHash
  <2> QED BY <2>1, <2>5, <2>6 DEF Behind, ResumesOnce
<1>4. \A p \in Procs : ~Tear(p)
  BY DEF Tear
<1> QED BY <1>1, <1>2, <1>3, <1>4, StepKinds, WriteKeepsBehind

(* Nobody has resumed at the start. *)
LEMMA BehindInit == Init => Behind /\ ResumesOnce
BY DEF Init, Behind, ResumesOnce, Idle

(* Wherever appends are whole, whoever crashes: no two resumes start from one boundary,
   because each records a step behind the one it started from. *)
THEOREM RunsResumesOnce ==
  ASSUME ~TornAppends
  PROVE  Spec => []ResumesOnce
<1>1. RunsInv /\ FilesInv /\ (Behind /\ ResumesOnce) /\ [Next]_vars => (Behind /\ ResumesOnce)'
  BY BehindNext
<1> QED BY <1>1, BehindInit, RunsInvAlways, FilesInvAlways, PTL DEF Spec

-----------------------------------------------------------------------------
(* No mutator of the run is between two writes. *)
Resting(r) == \A p \in Procs : proc[p] # Idle => proc[p].run # r

(* Where mutators run to their end: a record not counted yet is the only difference
   between the journal and its count, and a run at rest has its asks counted. *)
Counted ==
  /\ \A r \in Runs : index[r] # NoRun => index[r].steps + Owed(r) = Len(journal[r])
  /\ \A r \in Runs : index[r] # NoRun /\ Resting(r) =>
       index[r].waiting = Cardinality(Pending(r))

(* Where mutators run to their end: a refused run at rest is at no boundary, and a mutator
   that leaves a run refused is no resume and takes it from every boundary. *)
Refusing(m) ==
  /\ m.op # "resume"
  /\ m.todo[Len(m.todo)].status \notin Boundary
  /\ \A i \in DOMAIN m.todo : m.todo[i].file = "journal" => m.todo[i].status \notin Boundary
  /\ JournalLeft(m) \/ LastStatus(m.run) \notin Resumable
Down ==
  /\ \A r \in Runs : Resting(r) /\ Refused(approvals, r) =>
       index[r].status \notin Boundary /\ LastStatus(r) \notin Resumable
  /\ \A p \in Procs : proc[p] # Idle /\ Refused(After(proc[p]), proc[p].run) => Refusing(proc[p])

(* A write leaves the asks of the other runs alone. *)
LEMMA OthersAsksKept ==
  ASSUME RunsInv, FilesInv, NEW p \in Procs, Write(p), NEW m, m = proc[p],
         NEW r \in Runs, r # m.run
  PROVE  Pending(r)' = Pending(r) /\ (Refused(approvals', r) <=> Refused(approvals, r))
<1>1. ToOwn(m) /\ approvals' = After(m)
  BY WriteEffect DEF Sound
<1>2. ASSUME NEW k \in Checkpoints
      PROVE  approvals'[k] = approvals[k]
             \/ (approvals'[k].run # r /\ (approvals[k] = NoCheck \/ approvals[k].run # r))
  BY <1>1 DEF ToOwn
<1>3. NoCheck.status # "pending" /\ NoCheck.status # "resolved"
  BY DEF NoCheck
<1>4. \A k \in Checkpoints :
        /\ approvals'[k].status = "pending" /\ approvals'[k].run = r
             <=> approvals[k].status = "pending" /\ approvals[k].run = r
        /\ \A d : approvals'[k].status = "resolved" /\ approvals'[k].run = r /\ approvals'[k].decision = d
             <=> approvals[k].status = "resolved" /\ approvals[k].run = r /\ approvals[k].decision = d
  BY <1>2, <1>3
<1>5. Pending(r)' = Pending(r)
  BY <1>4 DEF Pending
<1>6. \A d : DecidedIn(approvals', r, d) <=> DecidedIn(approvals, r, d)
  BY <1>4 DEF DecidedIn
<1>7. Refused(approvals', r) <=> Refused(approvals, r)
  BY <1>4, <1>6 DEF Refused
<1> QED BY <1>5, <1>7

(* Between its writes a mutator is in hand, and after the last its run is at rest. *)
LEMMA RestingMoves ==
  ASSUME RunsInv, FilesInv, NEW p \in Procs, Write(p), NEW m, m = proc[p]
  PROVE  /\ \A r : r # m.run => Resting(r) /\ Resting(r)'
         /\ ~Resting(m.run)
         /\ Len(m.todo) # 1 => ~Resting(m.run)'
         /\ Len(m.todo) = 1 => /\ proc'[p] = Idle /\ m.todo[1].file = "touch"
                               /\ WriteIndex(m.todo[1]) /\ UNCHANGED <<approvals, journal>>
                               /\ After(m) = approvals
<1>1. /\ m # Idle
      /\ \A q \in Procs \ {p} : proc[q] = Idle /\ proc'[q] = Idle
      /\ Len(m.todo) = 1 => proc'[p] = Idle
      /\ Len(m.todo) # 1 => proc'[p] # Idle /\ proc'[p].run = m.run
      /\ WriteIndex(m.todo[1]) \/ WriteApprovals(m.todo[1]) \/ WriteJournal(m.todo[1])
  BY NextWrite
<1>2. Len(m.todo) = 1 => m.todo[1].file = "touch"
  BY JournalLeftMoves
<1>3. m.todo[1].file = "touch" =>
        /\ WriteIndex(m.todo[1]) /\ UNCHANGED <<approvals, journal>>
        /\ After(m) = approvals
  BY <1>1 DEF WriteIndex, WriteApprovals, WriteJournal, After
<1>4. \A r : r # m.run => Resting(r) /\ Resting(r)'
  BY <1>1 DEF Resting
<1>5. ~Resting(m.run) /\ (Len(m.todo) # 1 => ~Resting(m.run)')
  BY <1>1 DEF Resting
<1> QED BY <1>1, <1>2, <1>3, <1>4, <1>5

(* A write keeps the counts. *)
LEMMA WriteKeepsCounted ==
  ASSUME RunsInv, FilesInv, Behind, Counted, NEW p \in Procs, Write(p)
  PROVE  Counted'
<1> SUFFICES ASSUME NEW m, m = proc[p] PROVE Counted'
  OBVIOUS
<1> SUFFICES ASSUME NEW w, w = m.todo[1] PROVE Counted'
  OBVIOUS
<1>1. /\ Sound(m) /\ m.run \in Runs /\ w \in Writes
      /\ w.file # "approvals" => w.run = m.run
      /\ WriteIndex(w) \/ WriteApprovals(w) \/ WriteJournal(w)
      /\ \A r \in Runs \ {m.run} : index'[r] = index[r] /\ journal'[r] = journal[r]
  BY WriteEffect
<1>2. /\ w.file = "journal" => Owed(m.run) = 0 /\ Owed(m.run)' = 1
      /\ w.file = "touch" => w.steps \in {0, 1} /\ Owed(m.run) = w.steps /\ Owed(m.run)' = 0
      /\ w.file \in {"index", "approvals"} => Owed(m.run) = 0 /\ Owed(m.run)' = 0
      /\ \A r \in Runs \ {m.run} : Owed(r) = 0 /\ Owed(r)' = 0
  BY OwedMoves
<1>3. /\ w.file = "journal" => Len(journal'[m.run]) = Len(journal[m.run]) + 1
      /\ w.file # "journal" => UNCHANGED journal
  BY LastMoves
<1>4. \A r \in Runs : /\ index[r] # NoRun => index[r].steps \in Nat
                      /\ Len(journal[r]) \in Nat
  <2>1. \A r \in Runs : journal[r] \in Seq(Records)
    BY DEF RunsInv, Shape
  <2> QED BY <2>1 DEF FilesInv, Rows, RunRows
<1>5. ASSUME NEW r \in Runs, index'[r] # NoRun
      PROVE  index'[r].steps + Owed(r)' = Len(journal'[r])
  <2>1. CASE r # m.run
    BY <1>1, <1>2, <1>5, <2>1 DEF Counted
  <2>2. CASE r = m.run /\ w.file = "index"
    <3>1. WriteIndex(w)
      BY <1>1, <2>2 DEF WriteApprovals, WriteJournal
    <3>2. index'[r].steps = 0
      BY <1>1, <2>2, <3>1, IndexWritten DEF FilesInv
    <3>3. journal[r] = <<>>
      BY <1>1, <2>2 DEF Sound, FilesInv, Known
    <3> QED BY <1>2, <1>3, <2>2, <3>2, <3>3
  <2>3. CASE r = m.run /\ w.file = "touch"
    <3>1. WriteIndex(w) /\ index[r] # NoRun
      BY <1>1, <2>3 DEF WriteApprovals, WriteJournal, Sound
    <3>2. index'[r].steps = index[r].steps + w.steps
      BY <1>1, <2>3, <3>1, IndexWritten DEF FilesInv
    <3> QED BY <1>2, <1>3, <1>4, <2>3, <3>1, <3>2 DEF Counted
  <2>4. CASE r = m.run /\ w.file \in {"approvals", "journal"}
    <3>1. index' = index
      BY <1>1, <2>4 DEF WriteIndex, WriteApprovals, WriteJournal
    <3>2. index[r].steps + Owed(r) = Len(journal[r]) /\ index[r].steps \in Nat
      BY <1>4, <1>5, <3>1 DEF Counted
    <3> QED BY <1>2, <1>3, <1>4, <2>4, <3>1, <3>2
  <2> QED BY <1>1, <2>1, <2>2, <2>3, <2>4, WritesByFile
<1>6. ASSUME NEW r \in Runs, index'[r] # NoRun, Resting(r)'
      PROVE  index'[r].waiting = Cardinality(Pending(r)')
  <2>1. CASE r # m.run
    <3>1. Pending(r)' = Pending(r) /\ Resting(r)
      BY <2>1, OthersAsksKept, RestingMoves
    <3> QED BY <1>1, <1>6, <2>1, <3>1 DEF Counted
  <2>2. CASE r = m.run
    <3>1. /\ w.file = "touch" /\ WriteIndex(w) /\ UNCHANGED approvals
      BY <1>6, <2>2, RestingMoves
    <3>2. index[r] # NoRun /\ w.run = r
      BY <1>1, <2>2, <3>1 DEF Sound
    <3>3. index'[r].waiting = Cardinality(Pending(r))
      BY <1>1, <3>1, <3>2, IndexWritten DEF FilesInv
    <3>4. Pending(r)' = Pending(r)
      BY <3>1 DEF Pending
    <3> QED BY <3>3, <3>4
  <2> QED BY <2>1, <2>2
<1> QED BY <1>5, <1>6 DEF Counted

(* Every step keeps the counts, where mutators run to their end. *)
LEMMA CountedNext ==
  ASSUME ~MayCrash, ~TornAppends, RunsInv, FilesInv, Behind, Counted, [Next]_vars
  PROVE  Counted'
<1>1. CASE UNCHANGED <<files, proc, resumes>>
  <2>1. UNCHANGED <<index, approvals, journal, proc>>
    BY <1>1 DEF files
  <2> QED BY <2>1 DEF Counted, Owed, Pending, Resting
<1>2. ASSUME NEW p \in Procs, NEW m, Enters(p, m) PROVE Counted'
  <2>1. /\ proc' = [proc EXCEPT ![p] = m]
        /\ \A q \in Procs : proc[q] = Idle
        /\ UNCHANGED <<index, approvals, journal>>
        /\ ~Uncounted(m)
    BY <1>2 DEF Enters, Fresh, files
  <2>2. proc'[p] = m /\ \A q \in Procs \ {p} : proc'[q] = Idle
    BY <2>1 DEF RunsInv, Shape
  <2>3. \A r \in Runs : Owed(r)' = 0 /\ Owed(r) = 0
    BY <2>1, <2>2, IdleOwesNothing DEF Owed
  <2>4. \A r \in Runs : Resting(r) /\ Pending(r)' = Pending(r)
    BY <2>1 DEF Resting, Pending
  <2> QED BY <2>1, <2>3, <2>4 DEF Counted
<1>3. \A p \in Procs : ~Stop(p) /\ ~Tear(p)
  BY DEF Stop, Tear
<1> QED BY <1>1, <1>2, <1>3, StepKinds, WriteKeepsCounted

(* Nothing is counted at the start. *)
LEMMA CountedInit == Init => Counted
BY DEF Init, Counted

(* Between mutators the index tells what the journal and the approvals hold: its count of
   steps is the journal's length and its count of asks is the asks that are open. *)
THEOREM RunsIndexAccurate ==
  ASSUME ~MayCrash, ~TornAppends
  PROVE  Spec => []IndexAccurate
<1>1. RunsInv /\ FilesInv /\ (Behind /\ ResumesOnce) /\ [Next]_vars => (Behind /\ ResumesOnce)'
  BY BehindNext
<1>2. RunsInv /\ FilesInv /\ (Behind /\ ResumesOnce) /\ Counted /\ [Next]_vars => Counted'
  BY CountedNext
<1>3. FilesInv /\ Counted => IndexAccurate
  <2> SUFFICES ASSUME FilesInv, Counted, Quiet, NEW r \in Runs, index[r] # NoRun
               PROVE  index[r].steps = Len(journal[r]) /\ index[r].waiting = Cardinality(Pending(r))
    BY DEF IndexAccurate
  <2>1. Owed(r) = 0 /\ Resting(r)
    BY IdleOwesNothing DEF Quiet, Owed, Resting
  <2>2. index[r].steps \in Nat
    BY DEF FilesInv, Rows, RunRows
  <2> QED BY <2>1, <2>2 DEF Counted
<1> QED BY <1>1, <1>2, <1>3, BehindInit, CountedInit, RunsInvAlways, FilesInvAlways, PTL DEF Spec

-----------------------------------------------------------------------------
(* A write keeps refused runs from every boundary. *)
LEMMA WriteKeepsDown ==
  ASSUME RunsInv, FilesInv, Behind, Down, NEW p \in Procs, Write(p)
  PROVE  Down'
<1> SUFFICES ASSUME NEW m, m = proc[p], NEW w, w = m.todo[1], NEW n, n = proc'[p] PROVE Down'
  OBVIOUS
<1>1. /\ Sound(m) /\ m.run \in Runs /\ w \in Writes
      /\ w.file # "approvals" => w.run = m.run
      /\ approvals' = After(m)
      /\ \A r \in Runs \ {m.run} : index'[r] = index[r] /\ journal'[r] = journal[r]
  BY WriteEffect
<1>2. /\ m # Idle /\ Len(m.todo) \in Nat /\ Len(m.todo) >= 1 /\ DOMAIN m.todo = 1..Len(m.todo)
      /\ \A q \in Procs \ {p} : proc[q] = Idle /\ proc'[q] = Idle
      /\ Len(m.todo) # 1 =>
           /\ n.op = m.op /\ n.run = m.run
           /\ Len(n.todo) = Len(m.todo) - 1 /\ DOMAIN n.todo = 1..Len(m.todo) - 1
           /\ \A i \in 1..Len(m.todo) - 1 : n.todo[i] = m.todo[i + 1]
  BY NextWrite
<1>3. /\ \A r : r # m.run => Resting(r) /\ Resting(r)'
      /\ Len(m.todo) # 1 => ~Resting(m.run)'
      /\ Len(m.todo) = 1 => /\ proc'[p] = Idle /\ w.file = "touch" /\ WriteIndex(w)
                            /\ UNCHANGED <<approvals, journal>> /\ After(m) = approvals
  BY RestingMoves
<1>4. Refused(After(m), m.run) => Refusing(m)
  BY <1>2 DEF Down
<1>5. ASSUME NEW r \in Runs, Resting(r)', Refused(approvals', r)
      PROVE  index'[r].status \notin Boundary /\ LastStatus(r)' \notin Resumable
  <2>1. CASE r # m.run
    <3>1. Refused(approvals, r) /\ Resting(r)
      BY <1>3, <1>5, <2>1, OthersAsksKept
    <3>2. LastStatus(r)' = LastStatus(r)
      BY <1>1, <2>1 DEF LastStatus
    <3> QED BY <1>1, <2>1, <3>1, <3>2 DEF Down
  <2>2. CASE r = m.run
    <3>1. Len(m.todo) = 1
      BY <1>3, <1>5, <2>2
    <3>2. Refusing(m)
      BY <1>1, <1>4, <1>5, <2>2
    <3>3. index[r] # NoRun
      BY <1>1, <1>3, <2>2, <3>1 DEF Sound
    <3>4. index'[r].status = w.status
      BY <1>1, <1>3, <2>2, <3>1, <3>3, IndexWritten DEF FilesInv
    <3>5. w.status \notin Boundary
      BY <3>1, <3>2 DEF Refusing
    <3>6. ~JournalLeft(m)
      BY <3>1, JournalLeftMoves
    <3>7. LastStatus(r)' = LastStatus(r) /\ LastStatus(r) \notin Resumable
      BY <1>3, <2>2, <3>1, <3>2, <3>6 DEF Refusing, LastStatus
    <3> QED BY <3>4, <3>5, <3>7
  <2> QED BY <2>1, <2>2
<1>6. ASSUME Len(m.todo) # 1, Refused(After(n)', n.run) PROVE Refusing(n)'
  <2>1. Refusing(m)
    BY <1>2, <1>4, <1>6, PlanShifts
  <2>2. n.op # "resume"
    BY <1>2, <1>6, <2>1 DEF Refusing
  <2> DEFINE l == Len(m.todo)
  <2>3. /\ l \in Nat /\ l >= 1 /\ l # 1 /\ DOMAIN m.todo = 1..l /\ Len(n.todo) = l - 1
        /\ DOMAIN n.todo = 1..l - 1 /\ \A i \in 1..l - 1 : n.todo[i] = m.todo[i + 1]
    BY <1>2, <1>6
  <2>4. m.todo[l].status \notin Boundary
    BY <2>1 DEF Refusing
  <2> HIDE DEF l
  <2>5. n.todo[Len(n.todo)].status \notin Boundary
    <3>1. l - 1 \in 1..l - 1 /\ (l - 1) + 1 = l
      BY <2>3
    <3>2. n.todo[l - 1] = m.todo[l]
      BY <2>3, <3>1
    <3> QED BY <2>3, <2>4, <3>2
  <2>6. ASSUME NEW i \in DOMAIN n.todo, n.todo[i].file = "journal"
        PROVE  n.todo[i].status \notin Boundary
    <3>1. i + 1 \in DOMAIN m.todo /\ n.todo[i] = m.todo[i + 1]
      BY <2>3
    <3> QED BY <2>1, <2>6, <3>1 DEF Refusing
  <2>7. JournalLeft(n) \/ LastStatus(n.run)' \notin Resumable
    <3>1. n.run = m.run
      BY <1>2, <1>6
    <3>2. CASE w.file = "journal"
      <4>1. LastStatus(m.run)' = w.status
        BY <3>2, LastMoves
      <4>2. 1 \in DOMAIN m.todo
        BY <2>3
      <4>3. w.status \notin Boundary
        BY <2>1, <3>2, <4>2 DEF Refusing
      <4> QED BY <3>1, <4>1, <4>3 DEF Boundary
    <3>3. CASE w.file # "journal"
      <4>1. LastStatus(m.run)' = LastStatus(m.run)
        BY <3>3, LastMoves DEF LastStatus
      <4>2. JournalLeft(m) => JournalLeft(proc[p])'
        BY <1>6, <3>3, JournalLeftMoves
      <4>3. JournalLeft(proc[p])' => JournalLeft(n)
        BY DEF JournalLeft
      <4> QED BY <2>1, <3>1, <4>1, <4>2, <4>3 DEF Refusing
    <3> QED BY <3>2, <3>3
  <2> QED BY <2>2, <2>5, <2>6, <2>7 DEF Refusing, JournalLeft
<1>7. ASSUME NEW q \in Procs, proc'[q] # Idle, Refused(After(proc[q])', proc'[q].run)
      PROVE  Refusing(proc[q])'
  <2>1. q = p /\ Len(m.todo) # 1
    BY <1>2, <1>3, <1>7
  <2>2. After(proc[p])' = After(n)'
    BY DEF After
  <2>3. Refusing(n)'
    BY <1>6, <1>7, <2>1, <2>2
  <2>4. Refusing(n)' => Refusing(proc[p])'
    BY DEF Refusing, JournalLeft, LastStatus
  <2> QED BY <2>1, <2>3, <2>4
<1> QED BY <1>5, <1>7 DEF Down

(* A mutator that enters keeps refused runs from every boundary. *)
LEMMA EnterKeepsDown ==
  ASSUME CallersEndNothing, RunsInv, FilesInv, Down, RunsInv',
         NEW p \in Procs, NEW m, Enters(p, m)
  PROVE  Down'
<1>1. /\ proc' = [proc EXCEPT ![p] = m]
      /\ \A q \in Procs : proc[q] = Idle
      /\ UNCHANGED <<index, approvals, journal>>
      /\ Fresh(m)
  BY DEF Enters, files
<1>2. proc'[p] = m /\ \A q \in Procs \ {p} : proc'[q] = Idle
  BY <1>1 DEF RunsInv, Shape
<1>3. m # Idle /\ m.run \in Runs /\ m.todo # <<>> /\ DOMAIN m.todo = 1..Len(m.todo) /\ 1 \in DOMAIN m.todo
  <2>1. m # Idle
    BY <1>1 DEF Fresh, Idle
  <2>2. m \in Mutators
    BY <1>2, <2>1 DEF RunsInv, Shape
  <2>3. m.todo \in Seq(Writes) /\ m.todo # <<>> /\ m.run \in Runs
    BY <1>1, <2>2 DEF Fresh, Sound, Ordered, Mutators
  <2> QED BY <2>1, <2>3
<1>4. \A r \in Runs : Resting(r)
  BY <1>1 DEF Resting
<1>5. \A r \in Runs : LastStatus(r)' = LastStatus(r)
  BY <1>1 DEF LastStatus
<1>6. ASSUME NEW r \in Runs, Refused(approvals', r)
      PROVE  index'[r].status \notin Boundary /\ LastStatus(r)' \notin Resumable
  BY <1>1, <1>4, <1>5, <1>6 DEF Down
<1>7. ASSUME Refused(After(m), m.run) PROVE Refusing(m)
  <2>1. m.op # "resume"
    <3> SUFFICES ASSUME m.op = "resume" PROVE FALSE
      OBVIOUS
    <3>1. AtBoundary(m.run)
      BY <1>1 DEF Fresh
    <3>2. m.todo[1].file # "approvals"
      <4>1. ApprovalsFresh(m.op, m.todo, authority, said)'
        BY <1>2 DEF RunsInv, WritesFresh
      <4> QED BY <1>3, <4>1 DEF ApprovalsFresh
    <3>3. Refused(approvals, m.run)
      BY <1>7, <3>2 DEF After
    <3>4. index[m.run].status \notin Boundary /\ LastStatus(m.run) \notin Resumable
      BY <1>3, <1>4, <3>3 DEF Down
    <3> QED BY <3>1, <3>4 DEF AtBoundary, Boundary
  <2>2. /\ m.todo[Len(m.todo)].status \notin Boundary
        /\ \A i \in DOMAIN m.todo : m.todo[i].file = "journal" => m.todo[i].status \notin Boundary
        /\ JournalLeft(m)
    BY <1>1, <1>7, <2>1 DEF Fresh, JournalLeft
  <2> QED BY <2>1, <2>2 DEF Refusing
<1>8. After(m)' = After(m) /\ (Refusing(m) => Refusing(m)')
  BY <1>1, <1>3, <1>5 DEF After, Refusing, JournalLeft
<1>9. ASSUME NEW q \in Procs, proc'[q] # Idle, Refused(After(proc[q])', proc'[q].run)
      PROVE  Refusing(proc[q])'
  <2>1. q = p
    BY <1>2, <1>9
  <2>2. After(proc[p])' = After(m)'
    BY <1>2 DEF After
  <2>3. Refusing(m)'
    BY <1>2, <1>7, <1>8, <1>9, <2>1, <2>2
  <2>4. Refusing(m)' => Refusing(proc[p])'
    BY <1>2 DEF Refusing, JournalLeft, LastStatus
  <2> QED BY <2>1, <2>3, <2>4
<1> QED BY <1>6, <1>9 DEF Down

(* Every step keeps refused runs from every boundary, where mutators run to their end. *)
LEMMA DownNext ==
  ASSUME ~MayCrash, ~TornAppends, CallersEndNothing, RunsInv, FilesInv, Behind, Down, [Next]_vars
  PROVE  Down'
<1>1. CASE UNCHANGED <<files, proc, resumes>>
  <2>1. UNCHANGED <<index, approvals, journal, proc>>
    BY <1>1 DEF files
  <2> QED BY <2>1 DEF Down, Resting, After, Refusing, LastStatus, JournalLeft
<1>2. \A p \in Procs : ~Stop(p) /\ ~Tear(p)
  BY DEF Stop, Tear
<1> QED BY <1>1, <1>2, StepKinds, RunsInvStep, WriteKeepsDown, EnterKeepsDown

(* No run is refused at the start. *)
LEMMA DownInit == Init => Down
BY DEF Init, Down, Refused, DecidedIn, NoCheck, Idle

(* A run whose asks are all decided, with a denial among them and no approval, is not
   resumed: resolve_approval() leaves it denied, and record_step() gives it no status that
   resume() accepts. *)
THEOREM RunsDeniedStaysDown ==
  ASSUME ~MayCrash, ~TornAppends, CallersEndNothing
  PROVE  Spec => []DeniedStaysDown
<1>1. RunsInv /\ FilesInv /\ (Behind /\ ResumesOnce) /\ [Next]_vars => (Behind /\ ResumesOnce)'
  BY BehindNext
<1>2. RunsInv /\ FilesInv /\ (Behind /\ ResumesOnce) /\ Down /\ [Next]_vars => Down'
  BY DownNext
<1>3. RunsInv /\ FilesInv /\ Down => DeniedStaysDown
  <2> SUFFICES ASSUME RunsInv, FilesInv, Down, NEW p \in Procs, proc[p].op = "resume",
                      Decided(proc[p].run, "denied"), ~Decided(proc[p].run, "approved")
               PROVE  FALSE
    BY DEF DeniedStaysDown
  <2> DEFINE m == proc[p]
  <2>1. m # Idle /\ m \in Mutators
    BY DEF RunsInv, Shape, Idle
  <2>2. Pending(m.run) = {}
    BY DEF RunsInv, PendingBlocksResume
  <2>3. Refused(approvals, m.run)
    BY <2>2 DEF Refused, DecidedIn, Decided, Pending
  <2>4. After(m) = approvals
    <3>1. ApprovalsFresh(m.op, m.todo, authority, said)
      BY DEF RunsInv, WritesFresh
    <3>2. m.todo \in Seq(Writes) /\ m.todo # <<>>
      BY <2>1 DEF Mutators, FilesInv, Planned, Sound, Ordered
    <3>3. 1 \in DOMAIN m.todo
      BY <3>2
    <3> QED BY <3>1, <3>3 DEF ApprovalsFresh, After
  <2> QED BY <2>1, <2>3, <2>4 DEF Down, Refusing
<1> QED BY <1>1, <1>2, <1>3, BehindInit, DownInit, RunsInvAlways, FilesInvAlways, PTL DEF Spec
=============================================================================
