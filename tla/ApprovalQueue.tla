---------------------------- MODULE ApprovalQueue ----------------------------
(***************************************************************************)
(* The stealth loop's queue of asks (stealth/approvals.py) attached to the *)
(* durable ledger (action_approvals.py).  request() inserts an item, files *)
(* a ledger record for it and links the two, with no lock around.  A human *)
(* decides through the queue, which settles the ledger first and the item  *)
(* afterwards, or on the record itself (the console's decide route, with a *)
(* store of its own); sync() carries the second kind over.  A restart      *)
(* loses the items and imports the pending records.                        *)
(*                                                                         *)
(* The ledger's decide() is a SELECT and an UPDATE: deciders on one store  *)
(* exclude each other by its lock, deciders on two stores do not, and the  *)
(* UPDATE of a verdict asks for no state.                                  *)
(***************************************************************************)
EXTENDS Integers, FiniteSets

CONSTANTS
  Asks,          \* asks the loop may file
  Callers,       \* threads that decide, on either surface
  Syncers,       \* threads that run sync()
  MaxPending,    \* ApprovalQueue.max_pending
  Ttl,           \* lifetime of an ask
  MaxTime,       \* bound on the clock
  MirrorMayFail, \* whether authority.request may raise
  ImportMayFail  \* whether authority.pending may raise on attach

ASSUME QueueAssumption ==
  /\ MaxPending \in Nat \ {0}
  /\ Ttl \in Nat \ {0}
  /\ MaxTime \in Nat
  /\ {MirrorMayFail, ImportMayFail} \subseteq BOOLEAN

VARIABLES
  item,     \* the queue: local items by ask
  record,   \* the durable ledger
  filing,   \* request() under way, by ask
  call,     \* decisions under way, by thread
  scan,     \* sync() under way, by thread
  early,    \* history: a decision went past the ledger, the item having no record yet
  verdicts, \* history: the verdicts the ledger committed, by ask
  attached, \* the queue of this process has its authority
  imported, \* the last attach could read the ledger
  now

vars == <<item, record, filing, call, scan, early, verdicts, attached, imported, now>>

Verdicts == {"approved", "denied"}
States   == Verdicts \cup {"pending", "expired"}
NoItem   == [state |-> "none"]
NoRecord == [state |-> "none"]
Items    == [state : States, expires : Nat, mirrored : BOOLEAN]
Records  == [state : States, expires : Nat]
NoFiling == [step |-> "none"]
Filings  == [step : {"asked"}, expires : Nat] \cup [step : {"inserted", "filed"}]
NoCall   == [pc |-> "idle"]
Calls    == [pc   : {"writing", "late", "lapsing", "settling"},
             via  : {"queue", "console"}, ask : Asks, want : Verdicts]
NoScan   == [pc |-> "idle"]
Scans    == [pc : {"looking"}, at : Nat, left : SUBSET Asks]
            \cup [pc : {"copying"}, at : Nat, left : SUBSET Asks, ask : Asks, seen : States]

TypeOK ==
  /\ item \in [Asks -> Items \cup {NoItem}]
  /\ record \in [Asks -> Records \cup {NoRecord}]
  /\ filing \in [Asks -> Filings \cup {NoFiling}]
  /\ call \in [Callers -> Calls \cup {NoCall}]
  /\ scan \in [Syncers -> Scans \cup {NoScan}]
  /\ early \in [Asks -> BOOLEAN]
  /\ verdicts \in [Asks -> SUBSET Verdicts]
  /\ attached \in BOOLEAN /\ imported \in BOOLEAN
  /\ now \in 0..MaxTime

Init ==
  /\ item = [a \in Asks |-> NoItem]
  /\ record = [a \in Asks |-> NoRecord]
  /\ filing = [a \in Asks |-> NoFiling]
  /\ call = [c \in Callers |-> NoCall]
  /\ scan = [s \in Syncers |-> NoScan]
  /\ early = [a \in Asks |-> FALSE]
  /\ verdicts = [a \in Asks |-> {}]
  /\ attached = TRUE /\ imported = TRUE
  /\ now = 0

-----------------------------------------------------------------------------
Open(i)      == i.state = "pending"
Overdue(i)   == now >= i.expires
Decidable(a) == Open(record[a]) /\ ~Overdue(record[a])
Unsettled    == {a \in Asks : Open(item[a])}
HasRoom      == Cardinality(Unsettled) < MaxPending

BornOverdue == now - Ttl                              \* mutant: past deadline
Deadline    == now + Ttl

\* request() up to the item: refused when full; the clock is read once.
Ask(a) ==
  /\ attached
  /\ item[a] = NoItem /\ record[a] = NoRecord /\ filing[a] = NoFiling
  /\ HasRoom
  /\ now + Ttl <= MaxTime
  /\ filing' = [filing EXCEPT ![a] = [step |-> "asked", expires |-> Deadline]]
  /\ UNCHANGED <<item, record, call, scan, early, verdicts, attached, imported, now>>

\* The item is in the queue, and can be decided, before it has a record.
Insert(a) ==
  /\ filing[a].step = "asked"
  /\ item' = [item EXCEPT ![a] =
                [state |-> "pending", expires |-> filing[a].expires, mirrored |-> FALSE]]
  /\ filing' = [filing EXCEPT ![a] = [step |-> "inserted"]]
  /\ UNCHANGED <<record, call, scan, early, verdicts, attached, imported, now>>

\* The ledger's request(): a clock of its own; a failure is swallowed.
File(a) ==
  /\ filing[a].step = "inserted"
  /\ \/ /\ now + Ttl <= MaxTime
        /\ record' = [record EXCEPT ![a] = [state |-> "pending", expires |-> now + Ttl]]
        /\ filing' = [filing EXCEPT ![a] = [step |-> "filed"]]
     \/ /\ MirrorMayFail
        /\ filing' = [filing EXCEPT ![a] = NoFiling]
        /\ UNCHANGED record
  /\ UNCHANGED <<item, call, scan, early, verdicts, attached, imported, now>>

\* The item learns the id of its record, whatever has become of either.
Link(a) ==
  /\ filing[a].step = "filed"
  /\ item' = [item EXCEPT ![a].mirrored = TRUE]
  /\ filing' = [filing EXCEPT ![a] = NoFiling]
  /\ UNCHANGED <<record, call, scan, early, verdicts, attached, imported, now>>

-----------------------------------------------------------------------------
\* decide() up to its SELECT.  A pending row may be taken even when overdue: the clock
\* was read before the wait for the lock.  Anything else comes too late.
Reading(c, a, v, via) ==
  \E pc \in {"writing", "late"} :
    /\ IF pc = "writing" THEN Open(record[a]) ELSE ~Decidable(a)
    /\ call' = [call EXCEPT ![c] = [pc |-> pc, via |-> via, ask |-> a, want |-> v]]

\* The queue's deciders share one store, and with it the lock that decide() holds.
StoreIsFree ==
  \A d \in Callers : call[d].pc \in {"writing", "late"} => call[d].via # "queue"

\* The console's decide route on the record itself.
DecideRecord(c, a, v) ==
  /\ call[c] = NoCall /\ record[a] # NoRecord
  /\ Reading(c, a, v, "console")
  /\ UNCHANGED <<item, record, filing, scan, early, verdicts, attached, imported, now>>

\* Mutant: the local item is settled while the ledger has still to answer.
DecideLocalFirst(c, a, v) ==
  /\ call[c] = NoCall /\ item[a] # NoItem /\ item[a].mirrored /\ StoreIsFree
  /\ Reading(c, a, v, "queue")
  /\ item' = IF Open(item[a]) /\ ~Overdue(item[a])
             THEN [item EXCEPT ![a].state = v] ELSE item
  /\ UNCHANGED <<record, filing, scan, early, verdicts, attached, imported, now>>

\* approve() and deny() of the queue: the ledger first, if the item has a record.
Decide(c, a, v) ==
  /\ call[c] = NoCall /\ item[a] # NoItem
  /\ IF item[a].mirrored
     THEN StoreIsFree /\ Reading(c, a, v, "queue") /\ UNCHANGED early
     ELSE /\ call' = [call EXCEPT ![c] =
                        [pc |-> "settling", via |-> "queue", ask |-> a, want |-> v]]
          /\ early' = [early EXCEPT ![a] = TRUE]
  /\ UNCHANGED <<item, record, filing, scan, verdicts, attached, imported, now>>

\* The UPDATE of a verdict: whatever the row says by now.
Take(c) ==
  /\ call[c].pc = "writing"
  /\ record' = [record EXCEPT ![call[c].ask].state = call[c].want]
  /\ verdicts' = [verdicts EXCEPT ![call[c].ask] = @ \cup {call[c].want}]
  /\ call' = [call EXCEPT ![c] = IF @.via = "queue" THEN [@ EXCEPT !.pc = "settling"] ELSE NoCall]
  /\ UNCHANGED <<item, filing, scan, early, attached, imported, now>>

\* The UPDATE of a late decision: a row still pending expires.
TakeLate(c) ==
  /\ call[c].pc = "late"
  /\ record' = [record EXCEPT ![call[c].ask].state = IF @ = "pending" THEN "expired" ELSE @]
  /\ call' = [call EXCEPT ![c] = IF @.via = "queue" THEN [@ EXCEPT !.pc = "lapsing"] ELSE NoCall]
  /\ UNCHANGED <<item, filing, scan, early, verdicts, attached, imported, now>>

\* The ledger raises: the decision is given up, with nothing changed.
Abort(c) ==
  /\ call[c].pc \in {"writing", "late"}
  /\ call' = [call EXCEPT ![c] = NoCall]
  /\ UNCHANGED <<item, record, filing, scan, early, verdicts, attached, imported, now>>

\* The ledger answered EXPIRED: the item follows it, whatever it says.
CloseItem(c) ==
  /\ call[c].pc = "lapsing"
  /\ item' = [item EXCEPT ![call[c].ask].state = "expired"]
  /\ call' = [call EXCEPT ![c] = NoCall]
  /\ UNCHANGED <<record, filing, scan, early, verdicts, attached, imported, now>>

\* _settle(): the item takes the verdict unless it is settled or overdue.
Settle(c) ==
  /\ call[c].pc = "settling"
  /\ LET a == call[c].ask IN
     item' = IF ~Open(item[a]) THEN item
             ELSE [item EXCEPT ![a].state = IF Overdue(item[a]) THEN "expired" ELSE call[c].want]
  /\ call' = [call EXCEPT ![c] = NoCall]
  /\ UNCHANGED <<record, filing, scan, early, verdicts, attached, imported, now>>

-----------------------------------------------------------------------------
\* sync(): the linked items as they are now, one after the other, then the sweep.
NewScan(linked) == [pc |-> "looking", at |-> now, left |-> linked]

Sync(s) ==
  /\ attached /\ scan[s] = NoScan
  /\ scan' = [scan EXCEPT ![s] = NewScan({a \in Asks : item[a] # NoItem /\ item[a].mirrored})]
  /\ UNCHANGED <<item, record, filing, call, early, verdicts, attached, imported, now>>

\* describe(); an item whose record cannot be read is passed over.
Look(s, a) ==
  /\ scan[s].pc = "looking" /\ a \in scan[s].left
  /\ LET rest == [scan[s] EXCEPT !.left = @ \ {a}] IN
     \/ scan' = [scan EXCEPT ![s] = rest]
     \/ scan' = [scan EXCEPT ![s] = [pc |-> "copying", at |-> rest.at, left |-> rest.left,
                                     ask |-> a, seen |-> record[a].state]]
  /\ UNCHANGED <<item, record, filing, call, early, verdicts, attached, imported, now>>

\* What the answer to describe() makes of the item, as both are by now.
Carried(a, seen, at) ==
  IF Open(item[a]) /\ seen \in Verdicts THEN seen
  ELSE IF seen = "expired" \/ (Open(item[a]) /\ at >= record[a].expires) THEN "expired"
  ELSE item[a].state

Copy(s) ==
  /\ scan[s].pc = "copying"
  /\ item' = [item EXCEPT ![scan[s].ask].state = Carried(scan[s].ask, scan[s].seen, scan[s].at)]
  /\ scan' = [scan EXCEPT ![s] = [pc |-> "looking", at |-> @.at, left |-> @.left]]
  /\ UNCHANGED <<record, filing, call, early, verdicts, attached, imported, now>>

Swept(a, at) ==
  IF Open(item[a]) /\ at >= item[a].expires
  THEN [item[a] EXCEPT !.state = "expired"] ELSE item[a]

Sweep(s) ==
  /\ scan[s].pc = "looking" /\ scan[s].left = {}
  /\ item' = [a \in Asks |-> Swept(a, scan[s].at)]
  /\ scan' = [scan EXCEPT ![s] = NoScan]
  /\ UNCHANGED <<record, filing, call, early, verdicts, attached, imported, now>>

\* authority.pending(): every overdue pending record expires, whoever asks.
NothingLapses == record                                 \* mutant: no lazy expiry
Lapsed == [a \in Asks |-> IF Open(record[a]) /\ Overdue(record[a])
                          THEN [record[a] EXCEPT !.state = "expired"] ELSE record[a]]

ListPending ==
  /\ record' = Lapsed
  /\ UNCHANGED <<item, filing, call, scan, early, verdicts, attached, imported, now>>

\* The process dies: items and calls are gone, the ledger stays.
Restart ==
  /\ item' = [a \in Asks |-> NoItem]
  /\ filing' = [a \in Asks |-> NoFiling]
  /\ call' = [c \in Callers |-> NoCall]
  /\ scan' = [s \in Syncers |-> NoScan]
  /\ early' = [a \in Asks |-> FALSE]
  /\ attached' = FALSE
  /\ UNCHANGED <<record, verdicts, imported, now>>

Later(x, y) == IF x >= y THEN x ELSE y

\* Mutant: a record in its last second is taken for expired and left out.
ImportLong(a) ==
  IF Open(Lapsed[a]) /\ Lapsed[a].expires - now > 1
  THEN [state |-> "pending", expires |-> Lapsed[a].expires, mirrored |-> TRUE] ELSE NoItem

\* _import_durable_pending(): a fresh item for each pending record.
Import(a) ==
  IF Open(Lapsed[a])
  THEN [state |-> "pending", expires |-> now + Later(1, Lapsed[a].expires - now),
        mirrored |-> TRUE]
  ELSE NoItem

\* get_service_loop() of the new process attaches once: it imports and starts a sync().
\* A ledger that cannot be read imports nothing and is not asked again.
Attach(s) ==
  /\ ~attached
  /\ attached' = TRUE
  /\ \E ok \in IF ImportMayFail THEN BOOLEAN ELSE {TRUE} :
       /\ imported' = ok
       /\ record' = IF ok THEN Lapsed ELSE record
       /\ item' = IF ok THEN [a \in Asks |-> Import(a)] ELSE item
  /\ scan' = [scan EXCEPT ![s] = NewScan({a \in Asks : item'[a] # NoItem})]
  /\ UNCHANGED <<filing, call, early, verdicts, now>>

Tick ==
  /\ now < MaxTime
  /\ now' = now + 1
  /\ UNCHANGED <<item, record, filing, call, scan, early, verdicts, attached, imported>>

Next ==
  \/ \E a \in Asks : Ask(a) \/ Insert(a) \/ File(a) \/ Link(a)
  \/ \E c \in Callers, a \in Asks, v \in Verdicts : DecideRecord(c, a, v) \/ Decide(c, a, v)
  \/ \E c \in Callers : Take(c) \/ TakeLate(c) \/ Abort(c) \/ CloseItem(c) \/ Settle(c)
  \/ \E s \in Syncers, a \in Asks : Look(s, a)
  \/ \E s \in Syncers : Sync(s) \/ Copy(s) \/ Sweep(s) \/ Attach(s)
  \/ ListPending \/ Restart \/ Tick

Spec == Init /\ [][Next]_vars

\* Expiry is lazy, so an ask closes only if somebody looks.  The console lists the
\* pending approvals when its page loads and after every decision: an operator who
\* keeps coming back is assumed, and that the clock goes on.
FairSpec == Spec /\ WF_vars(Tick) /\ WF_vars(ListPending)

-----------------------------------------------------------------------------
\* "Local state is never finalized ahead of the canonical record": an item that is
\* approved or denied shows a verdict the ledger had committed before, and the record
\* says the same unless the opposite verdict was committed too (a stale decision of
\* another store overwrites the first).  The one way past the ledger is a decision on
\* an item that has no record yet, or whose mirror failed.
NeverAhead ==
  \A a \in Asks :
    item[a].state \in Verdicts /\ ~early[a] =>
      /\ item[a].state \in verdicts[a]
      /\ record[a].state = item[a].state \/ verdicts[a] = Verdicts

\* No durable ask is out of the operator's sight, over restarts in the middle of a
\* request too: a record that can still be decided has an item that can still be
\* decided, except when the item was decided before its record was linked, or
\* reached its own deadline, which is the earlier one by the time the filing took.
PendingIsVisible ==
  attached /\ imported =>
    \A a \in Asks :
      Decidable(a) =>
        /\ item[a] # NoItem
        /\ Open(item[a]) \/ early[a] \/ Overdue(item[a])

\* No durable ask stays open for ever, if the operator keeps looking at the list:
\* what restarts, failed mirrors and half-made decisions leave behind lapses too.
EveryAskCloses == \A a \in Asks : record[a].state = "pending" ~> record[a].state # "pending"
=============================================================================
