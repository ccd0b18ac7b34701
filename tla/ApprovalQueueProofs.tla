------------------------- MODULE ApprovalQueueProofs -------------------------
(***************************************************************************)
(* What holds between the queue and the ledger for any number of asks,     *)
(* deciders and syncs, any limit, lifetime and clock bound, whichever      *)
(* mirrors and imports fail.                                               *)
(***************************************************************************)
EXTENDS ApprovalQueue, TLAPS

(* request() between its steps: the record comes after the item, and once. *)
FilingSound(a) ==
  /\ filing[a].step = "asked" => item[a] = NoItem
  /\ filing[a].step \in {"asked", "inserted"} => record[a] = NoRecord
  /\ filing[a].step = "filed" => record[a] # NoRecord
  /\ filing[a].step \in {"inserted", "filed"} => item[a] # NoItem

(* What the record says was committed by a decision, and a verdict stays one. *)
RecordSound(a) ==
  \/ verdicts[a] = {} /\ record[a].state \notin Verdicts
  \/ record[a].state \in verdicts[a]

(* Why an item may be linked, settled, and closed. *)
ItemSound(a) ==
  item[a] # NoItem =>
    /\ item[a].mirrored => record[a] # NoRecord
    /\ item[a].state \in Verdicts => early[a] \/ item[a].state \in verdicts[a]
    /\ ~Open(item[a]) =>
         early[a] \/ Overdue(item[a]) \/ (record[a] # NoRecord /\ ~Decidable(a))

(* What a decision under way has seen: a late one can count on the ledger having
   nothing to decide, a settling one has its verdict there, or went past it. *)
CallSound(c) ==
  call[c] # NoCall =>
    /\ call[c].via = "queue" => item[call[c].ask] # NoItem
    /\ call[c].pc \in {"lapsing", "settling"} => call[c].via = "queue"
    /\ call[c].pc # "settling" => record[call[c].ask] # NoRecord
    /\ call[c].pc \in {"late", "lapsing"} => ~Decidable(call[c].ask)
    /\ call[c].pc = "settling" => early[call[c].ask] \/ call[c].want \in verdicts[call[c].ask]

(* What a sync under way has seen, and that it visits linked items only. *)
ScanSound(s) ==
  scan[s] # NoScan =>
    /\ scan[s].at <= now
    /\ \A a \in scan[s].left : item[a] # NoItem /\ item[a].mirrored
    /\ scan[s].pc = "copying" =>
         /\ item[scan[s].ask] # NoItem /\ record[scan[s].ask] # NoRecord
         /\ scan[s].seen = "expired" => ~Open(record[scan[s].ask])
         /\ scan[s].seen \in Verdicts => scan[s].seen \in verdicts[scan[s].ask]

(* An attached queue that could read the ledger has an item for what can be decided. *)
Kept(a) == attached /\ imported /\ Decidable(a) => item[a] # NoItem

(* Until the queue of a new process is attached, it is empty and nothing uses it. *)
Detached ==
  ~attached => /\ \A a \in Asks : item[a] = NoItem /\ filing[a] = NoFiling
               /\ \A c \in Callers : call[c] # NoCall => call[c].via # "queue"
               /\ \A s \in Syncers : scan[s] = NoScan

QueueInv ==
  /\ TypeOK
  /\ \A a \in Asks : FilingSound(a) /\ RecordSound(a) /\ ItemSound(a) /\ Kept(a)
  /\ \A c \in Callers : CallSound(c)
  /\ \A s \in Syncers : ScanSound(s)
  /\ Detached

LEMMA QueueInvInit == Init => QueueInv
  BY QueueAssumption
     DEF Init, QueueInv, TypeOK, FilingSound, RecordSound, ItemSound, CallSound, ScanSound, Kept,
         Detached, NoItem, NoRecord, NoFiling, NoCall, NoScan, Verdicts, Decidable, Open

(* The records of the model are apart from the values that stand for none. *)
LEMMA Apart ==
  /\ NoItem \notin Items /\ NoRecord \notin Records /\ NoFiling \notin Filings
  /\ NoCall \notin Calls /\ NoScan \notin Scans
  /\ NoItem.state = "none" /\ NoRecord.state = "none" /\ NoFiling.step = "none"
  /\ NoCall.pc = "idle" /\ NoScan.pc = "idle"
  /\ "pending" \notin Verdicts /\ "expired" \notin Verdicts /\ "none" \notin Verdicts
  /\ "none" \notin States /\ Verdicts \subseteq States /\ "expired" \in States
<1>1. /\ NoItem.state = "none" /\ NoRecord.state = "none" /\ NoFiling.step = "none"
      /\ NoCall.pc = "idle" /\ NoScan.pc = "idle"
  BY DEF NoItem, NoRecord, NoFiling, NoCall, NoScan
<1>2. /\ "pending" \notin Verdicts /\ "expired" \notin Verdicts /\ "none" \notin Verdicts
      /\ "none" \notin States /\ Verdicts \subseteq States /\ "expired" \in States
  BY DEF Verdicts, States
<1>3. NoItem \notin Items /\ NoRecord \notin Records
  BY <1>1, <1>2 DEF Items, Records
<1>4. NoFiling \notin Filings /\ NoCall \notin Calls /\ NoScan \notin Scans
  BY <1>1 DEF Filings, Calls, Scans
<1> QED BY <1>1, <1>2, <1>3, <1>4

(* A new state for an item leaves the rest of it, and the other items, alone. *)
LEMMA ItemStateEffect ==
  ASSUME TypeOK, NEW a \in Asks, item[a] # NoItem, NEW s \in States,
         item' = [item EXCEPT ![a].state = s]
  PROVE  /\ item' \in [Asks -> Items \cup {NoItem}]
         /\ item'[a] # NoItem
         /\ item'[a].state = s
         /\ item'[a].expires = item[a].expires
         /\ item'[a].mirrored = item[a].mirrored
         /\ \A b \in Asks \ {a} : item'[b] = item[b]
<1>1. item[a] \in Items
  BY DEF TypeOK
<1>2. item'[a] = [item[a] EXCEPT !.state = s]
  BY DEF TypeOK
<1>3. /\ item'[a] \in Items /\ item'[a].state = s
      /\ item'[a].expires = item[a].expires /\ item'[a].mirrored = item[a].mirrored
  BY <1>1, <1>2 DEF Items
<1> QED BY <1>3, Apart DEF TypeOK

(* The same for a record. *)
LEMMA RecordStateEffect ==
  ASSUME TypeOK, NEW a \in Asks, record[a] # NoRecord, NEW s \in States,
         record' = [record EXCEPT ![a].state = s]
  PROVE  /\ record' \in [Asks -> Records \cup {NoRecord}]
         /\ record'[a] # NoRecord
         /\ record'[a].state = s
         /\ record'[a].expires = record[a].expires
         /\ \A b \in Asks \ {a} : record'[b] = record[b]
<1>1. record[a] \in Records
  BY DEF TypeOK
<1>2. record'[a] = [record[a] EXCEPT !.state = s]
  BY DEF TypeOK
<1>3. record'[a] \in Records /\ record'[a].state = s /\ record'[a].expires = record[a].expires
  BY <1>1, <1>2 DEF Records
<1> QED BY <1>3, Apart DEF TypeOK

(* Lazy expiry closes the overdue records, which nobody could decide any more. *)
LEMMA LapsedEffect ==
  ASSUME TypeOK, NEW a \in Asks
  PROVE  /\ Lapsed[a] \in Records \cup {NoRecord}
         /\ Lapsed[a] = NoRecord <=> record[a] = NoRecord
         /\ record[a] # NoRecord => Lapsed[a].expires = record[a].expires
         /\ Lapsed[a].state \in Verdicts <=> record[a].state \in Verdicts
         /\ Lapsed[a].state \in Verdicts => Lapsed[a].state = record[a].state
         /\ Open(Lapsed[a]) <=> Decidable(a)
<1>1. CASE record[a] = NoRecord
  BY <1>1 DEF Lapsed, Open, NoRecord, Verdicts, Decidable
<1>2. CASE record[a] \in Records /\ Open(record[a]) /\ Overdue(record[a])
  <2>1. Lapsed[a] = [record[a] EXCEPT !.state = "expired"]
    BY <1>2 DEF Lapsed
  <2>2. Lapsed[a] \in Records /\ Lapsed[a].state = "expired" /\ Lapsed[a].expires = record[a].expires
    BY <1>2, <2>1 DEF Records, States
  <2> QED BY <1>2, <2>2, Apart DEF Open, Verdicts, Decidable
<1>3. CASE record[a] \in Records /\ ~(Open(record[a]) /\ Overdue(record[a]))
  BY <1>3, Apart DEF Lapsed, Open, Verdicts, Decidable
<1> QED BY <1>1, <1>2, <1>3 DEF TypeOK

-----------------------------------------------------------------------------
(* What every step but a restart and an attach does: items and records stay, keep
   their deadlines, and a record once closed is not opened. *)
Onward ==
  /\ \A b \in Asks : item[b] # NoItem =>
       /\ item'[b] # NoItem /\ item'[b].expires = item[b].expires
       /\ item[b].mirrored => item'[b].mirrored
  /\ \A b \in Asks : record[b] # NoRecord =>
       /\ record'[b] # NoRecord /\ record'[b].expires = record[b].expires
       /\ Open(record[b])' => Open(record[b])
  /\ \A b \in Asks : (early[b] => early'[b]) /\ verdicts[b] \subseteq verdicts'[b]
  /\ now' >= now

(* What can be decided after such a step could be decided before. *)
LEMMA OnwardDecidable ==
  ASSUME TypeOK, TypeOK', Onward, NEW b \in Asks, record[b] # NoRecord
  PROVE  Decidable(b)' => Decidable(b)
  BY Apart DEF TypeOK, Onward, Decidable, Open, Overdue, Records

(* A deadline once reached stays behind. *)
LEMMA OnwardOverdue ==
  ASSUME TypeOK, TypeOK', Onward, NEW b \in Asks, item[b] # NoItem, Overdue(item[b])
  PROVE  Overdue(item[b])'
  BY DEF TypeOK, Onward, Overdue, Items

(* A decision that a step leaves alone stays sound. *)
LEMMA OnwardCall ==
  ASSUME TypeOK, TypeOK', Onward, NEW c \in Callers, CallSound(c), call'[c] = call[c]
  PROVE  CallSound(c)'
<1>1. CASE call[c] = NoCall
  BY <1>1 DEF CallSound
<1>2. CASE call[c] # NoCall
  <2>1. PICK k \in Calls : call[c] = k /\ call'[c] = k
    BY <1>2 DEF TypeOK
  <2>2. k.ask \in Asks
    BY <2>1 DEF Calls
  <2>3. record[k.ask] # NoRecord => (Decidable(k.ask)' => Decidable(k.ask))
    BY <2>2, OnwardDecidable
  <2> QED BY <1>2, <2>1, <2>2, <2>3 DEF CallSound, Onward, Decidable, Open, Overdue
<1> QED BY <1>1, <1>2

(* A sync that a step leaves alone stays sound. *)
LEMMA OnwardScan ==
  ASSUME TypeOK, TypeOK', Onward, NEW s \in Syncers, ScanSound(s), scan'[s] = scan[s]
  PROVE  ScanSound(s)'
<1>1. CASE scan[s] = NoScan
  BY <1>1 DEF ScanSound
<1>2. CASE scan[s] # NoScan
  <2>1. scan[s] \in Scans
    BY <1>2 DEF TypeOK
  <2>2. scan[s].left \subseteq Asks /\ scan[s].at \in Nat
        /\ (scan[s].pc = "copying" => scan[s].ask \in Asks)
    BY <2>1 DEF Scans
  <2>3. scan'[s].at <= now'
    BY <1>2, <2>2 DEF ScanSound, Onward, TypeOK
  <2>4. \A a \in scan'[s].left : item'[a] # NoItem /\ item'[a].mirrored
    BY <1>2, <2>2 DEF ScanSound, Onward
  <2>5. scan'[s].pc = "copying" =>
         /\ item'[scan'[s].ask] # NoItem /\ record'[scan'[s].ask] # NoRecord
         /\ scan'[s].seen = "expired" => ~Open(record[scan[s].ask])'
         /\ scan'[s].seen \in Verdicts => scan'[s].seen \in verdicts'[scan'[s].ask]
    BY <1>2, <2>2 DEF ScanSound, Onward
  <2> QED BY <2>3, <2>4, <2>5 DEF ScanSound
<1> QED BY <1>1, <1>2

(* An item whose state a step leaves alone stays sound. *)
LEMMA OnwardItem ==
  ASSUME TypeOK, TypeOK', Onward, NEW a \in Asks, ItemSound(a), item'[a] = item[a]
  PROVE  ItemSound(a)'
<1>1. item[a] # NoItem /\ Overdue(item[a]) => Overdue(item[a])'
  BY OnwardOverdue
<1>2. record[a] # NoRecord => (Decidable(a)' => Decidable(a))
  BY OnwardDecidable
<1>3. Open(item[a])' <=> Open(item[a])
  BY DEF Open
<1> QED BY <1>1, <1>2, <1>3 DEF ItemSound, Onward

(* So a step that only goes on has to account for what it changes. *)
LEMMA OnwardInv ==
  ASSUME QueueInv, TypeOK', Onward, attached' = attached, imported' = imported,
         \A a \in Asks : ItemSound(a)' \/ item'[a] = item[a],
         \A a \in Asks : FilingSound(a)' \/
           (/\ filing'[a] = filing[a]
            /\ record[a] = NoRecord => record'[a] = NoRecord
            /\ item[a] = NoItem => item'[a] = NoItem),
         \A a \in Asks : RecordSound(a)' \/
           (record'[a].state = record[a].state /\ verdicts'[a] = verdicts[a]),
         \A a \in Asks : record[a] # NoRecord \/ record'[a] = record[a] \/ item'[a] # NoItem,
         \A c \in Callers : CallSound(c)' \/ call'[c] = call[c],
         \A s \in Syncers : ScanSound(s)' \/ scan'[s] = scan[s],
         Detached'
  PROVE  QueueInv'
<1>0. TypeOK
  BY DEF QueueInv
<1>1. ASSUME NEW a \in Asks PROVE ItemSound(a)'
  BY <1>0, OnwardItem DEF QueueInv
<1>2. ASSUME NEW a \in Asks PROVE FilingSound(a)'
  <2>1. CASE /\ filing'[a] = filing[a]
             /\ record[a] = NoRecord => record'[a] = NoRecord
             /\ item[a] = NoItem => item'[a] = NoItem
    <3>1. FilingSound(a) /\ (record[a] # NoRecord => record'[a] # NoRecord)
          /\ (item[a] # NoItem => item'[a] # NoItem)
      BY DEF QueueInv, Onward
    <3> QED BY <2>1, <3>1 DEF FilingSound
  <2> QED BY <2>1
<1>3. ASSUME NEW a \in Asks PROVE RecordSound(a)'
  <2>1. RecordSound(a)
    BY DEF QueueInv
  <2> QED BY <2>1 DEF RecordSound
<1>4. ASSUME NEW a \in Asks PROVE Kept(a)'
  <2>0. Kept(a) /\ (item[a] # NoItem => item'[a] # NoItem)
    BY DEF QueueInv, Onward
  <2>1. CASE record[a] # NoRecord
    <3>1. Decidable(a)' => Decidable(a)
      BY <1>0, <2>1, OnwardDecidable
    <3> QED BY <2>0, <3>1 DEF Kept
  <2>2. CASE record'[a] = NoRecord
    <3>1. ~Decidable(a)'
      BY <2>2, Apart DEF Decidable, Open
    <3> QED BY <3>1 DEF Kept
  <2>3. CASE item'[a] # NoItem
    BY <2>3 DEF Kept
  <2> QED BY <2>1, <2>2, <2>3
<1>5. ASSUME NEW c \in Callers PROVE CallSound(c)'
  BY <1>0, OnwardCall DEF QueueInv
<1>6. ASSUME NEW s \in Syncers PROVE ScanSound(s)'
  BY <1>0, OnwardScan DEF QueueInv
<1> QED BY <1>1, <1>2, <1>3, <1>4, <1>5, <1>6 DEF QueueInv

-----------------------------------------------------------------------------
(* request() keeps the invariant: the item is there before the record, and the
   record before the link. *)
LEMMA RequestSteps ==
  ASSUME QueueInv, NEW a \in Asks, Ask(a) \/ Insert(a) \/ File(a) \/ Link(a)
  PROVE  QueueInv'
<1> USE QueueAssumption
<1>0. TypeOK /\ Detached /\ FilingSound(a) /\ RecordSound(a) /\ ItemSound(a)
  BY DEF QueueInv
<1>1. CASE Ask(a)
  <2>1. /\ filing' = [filing EXCEPT ![a] = [step |-> "asked", expires |-> Deadline]]
        /\ attached /\ item[a] = NoItem /\ record[a] = NoRecord
        /\ UNCHANGED <<item, record, call, scan, early, verdicts, attached, imported, now>>
    BY <1>1 DEF Ask
  <2>2. Deadline \in Nat
    BY <1>0 DEF TypeOK, Deadline
  <2>3. TypeOK'
    BY <1>0, <2>1, <2>2 DEF TypeOK, Filings
  <2>4. /\ FilingSound(a)'
        /\ \A b \in Asks \ {a} : filing'[b] = filing[b]
    BY <1>0, <2>1 DEF TypeOK, FilingSound
  <2>5. Detached'
    BY <2>1 DEF Detached
  <2> QED BY <1>0, <2>1, <2>3, <2>4, <2>5, OnwardInv DEF Onward, TypeOK
<1>2. CASE Insert(a)
  <2>1. /\ filing[a].step = "asked"
        /\ item' = [item EXCEPT ![a] =
                      [state |-> "pending", expires |-> filing[a].expires, mirrored |-> FALSE]]
        /\ filing' = [filing EXCEPT ![a] = [step |-> "inserted"]]
        /\ UNCHANGED <<record, call, scan, early, verdicts, attached, imported, now>>
    BY <1>2 DEF Insert
  <2>2. item[a] = NoItem /\ record[a] = NoRecord /\ filing[a].expires \in Nat
    <3>1. filing[a] \in [step : {"asked"}, expires : Nat]
      BY <1>0, <2>1, Apart DEF TypeOK, Filings
    <3> QED BY <1>0, <2>1, <3>1 DEF FilingSound
  <2>3. /\ item'[a] \in Items /\ item'[a] # NoItem /\ Open(item'[a]) /\ item'[a].mirrored = FALSE
        /\ \A b \in Asks \ {a} : item'[b] = item[b]
    BY <1>0, <2>1, <2>2, Apart DEF TypeOK, Items, States, Open
  <2>4. TypeOK'
    BY <1>0, <2>1, <2>3 DEF TypeOK, Filings
  <2>5. Onward
    BY <1>0, <2>1, <2>2, <2>3 DEF Onward, TypeOK
  <2>6. ItemSound(a)'
    BY <2>3, Apart DEF ItemSound, Open
  <2>7. /\ FilingSound(a)'
        /\ \A b \in Asks \ {a} : filing'[b] = filing[b]
    BY <1>0, <2>1, <2>2, <2>3 DEF TypeOK, FilingSound
  <2>8. Detached'
    BY <1>0, <2>1, Apart DEF Detached
  <2> QED BY <2>1, <2>3, <2>4, <2>5, <2>6, <2>7, <2>8, OnwardInv
<1>3. CASE File(a)
  <2>1. /\ filing[a].step = "inserted"
        /\ UNCHANGED <<item, call, scan, early, verdicts, attached, imported, now>>
    BY <1>3 DEF File
  <2>2. record[a] = NoRecord /\ item[a] # NoItem
    BY <1>0, <2>1 DEF FilingSound
  <2>3. attached
    BY <1>0, <2>1, Apart DEF Detached
  <2>4. CASE /\ record' = [record EXCEPT ![a] = [state |-> "pending", expires |-> now + Ttl]]
             /\ filing' = [filing EXCEPT ![a] = [step |-> "filed"]]
    <3>1. /\ record'[a] \in Records /\ Open(record'[a])
          /\ record'[a] # NoRecord
          /\ \A b \in Asks \ {a} : record'[b] = record[b]
      BY <1>0, <2>4, Apart DEF TypeOK, Records, States, Open
    <3>2. TypeOK'
      BY <1>0, <2>1, <2>4, <3>1 DEF TypeOK, Filings
    <3>3. Onward
      BY <1>0, <2>1, <2>2, <3>1 DEF Onward, TypeOK
    <3>4. FilingSound(a)' /\ \A b \in Asks \ {a} : filing'[b] = filing[b]
      BY <1>0, <2>1, <2>2, <2>4, <3>1 DEF TypeOK, FilingSound
    <3>5. RecordSound(a)'
      BY <1>0, <2>1, <2>2, <3>1, Apart DEF RecordSound, Open, TypeOK
    <3>6. ItemSound(a)'
      BY <1>0, <2>1, <2>2, <3>1 DEF ItemSound, Overdue, Open
    <3>7. Detached'
      BY <2>1, <2>3 DEF Detached
    <3> QED BY <2>1, <2>2, <3>1, <3>2, <3>3, <3>4, <3>5, <3>6, <3>7, OnwardInv
  <2>5. CASE filing' = [filing EXCEPT ![a] = NoFiling] /\ UNCHANGED record
    <3>1. TypeOK'
      BY <1>0, <2>1, <2>5 DEF TypeOK
    <3>2. FilingSound(a)' /\ \A b \in Asks \ {a} : filing'[b] = filing[b]
      BY <1>0, <2>5, Apart DEF TypeOK, FilingSound
    <3>3. Detached'
      BY <2>1, <2>3 DEF Detached
    <3>4. Onward
      BY <1>0, <2>1, <2>5 DEF Onward, TypeOK
    <3> QED BY <2>1, <2>5, <3>1, <3>2, <3>3, <3>4, OnwardInv
  <2> QED BY <1>3, <2>4, <2>5 DEF File
<1>4. CASE Link(a)
  <2>1. /\ filing[a].step = "filed"
        /\ item' = [item EXCEPT ![a].mirrored = TRUE]
        /\ filing' = [filing EXCEPT ![a] = NoFiling]
        /\ UNCHANGED <<record, call, scan, early, verdicts, attached, imported, now>>
    BY <1>4 DEF Link
  <2>2. record[a] # NoRecord /\ item[a] # NoItem /\ item[a] \in Items
    BY <1>0, <2>1 DEF FilingSound, TypeOK
  <2>3. /\ item'[a] \in Items /\ item'[a].mirrored
        /\ item'[a].state = item[a].state /\ item'[a].expires = item[a].expires
        /\ \A b \in Asks \ {a} : item'[b] = item[b]
    <3>1. item'[a] = [item[a] EXCEPT !.mirrored = TRUE]
      BY <1>0, <2>1 DEF TypeOK
    <3> QED BY <1>0, <2>1, <2>2, <3>1 DEF TypeOK, Items
  <2>4. TypeOK'
    BY <1>0, <2>1, <2>3 DEF TypeOK
  <2>9. item'[a] # NoItem
    BY <2>3, Apart
  <2>5. Onward
    <3>1. \A b \in Asks : item[b] # NoItem =>
            /\ item'[b] # NoItem /\ item'[b].expires = item[b].expires
            /\ item[b].mirrored => item'[b].mirrored
      BY <2>3, <2>9
    <3> QED BY <1>0, <2>1, <3>1 DEF Onward, TypeOK
  <2>6. ItemSound(a)'
    BY <1>0, <2>1, <2>2, <2>3 DEF ItemSound, Open, Overdue, Decidable
  <2>7. FilingSound(a)' /\ \A b \in Asks \ {a} : filing'[b] = filing[b]
    BY <1>0, <2>1, Apart DEF TypeOK, FilingSound
  <2>8. Detached'
    BY <1>0, <2>1, <2>2 DEF Detached
  <2> QED BY <2>1, <2>2, <2>3, <2>4, <2>5, <2>6, <2>7, <2>8, <2>9, OnwardInv
<1> QED BY <1>1, <1>2, <1>3, <1>4

(* A step that only starts or gives up a decision. *)
LEMMA CallStarts ==
  ASSUME QueueInv, NEW c \in Callers, NEW k \in Calls \cup {NoCall},
         call' = [call EXCEPT ![c] = k], CallSound(c)', early' \in [Asks -> BOOLEAN],
         \A b \in Asks : early[b] => early'[b],
         ~attached => k = NoCall \/ k.via # "queue",
         UNCHANGED <<item, record, filing, scan, verdicts, attached, imported, now>>
  PROVE  QueueInv'
<1>1. TypeOK'
  BY DEF QueueInv, TypeOK
<1>2. Onward
  BY DEF QueueInv, Onward, TypeOK
<1>3. \A d \in Callers : CallSound(d)' \/ call'[d] = call[d]
  BY DEF QueueInv, TypeOK
<1>4. Detached'
  BY DEF QueueInv, Detached, TypeOK
<1> QED BY <1>1, <1>2, <1>3, <1>4, OnwardInv

(* The SELECT of decide(): a pending row, or one that there is nothing to decide of. *)
LEMMA ReadingSteps ==
  ASSUME QueueInv, NEW c \in Callers, NEW a \in Asks, NEW v \in Verdicts,
         DecideRecord(c, a, v) \/ Decide(c, a, v)
  PROVE  QueueInv'
<1>0. TypeOK /\ Detached /\ ItemSound(a)
  BY DEF QueueInv
<1>1. ASSUME NEW via \in {"queue", "console"}, Reading(c, a, v, via), record[a] # NoRecord,
             via = "queue" => item[a] # NoItem,
             UNCHANGED <<item, record, filing, scan, early, verdicts, attached, imported, now>>
      PROVE  QueueInv'
  <2>1. PICK pc \in {"writing", "late"} :
          /\ pc = "late" => ~Decidable(a)
          /\ call' = [call EXCEPT ![c] = [pc |-> pc, via |-> via, ask |-> a, want |-> v]]
    BY <1>1 DEF Reading
  <2> DEFINE k == [pc |-> pc, via |-> via, ask |-> a, want |-> v]
  <2>2. k \in Calls /\ call'[c] = k
    BY <1>0, <2>1 DEF Calls, TypeOK
  <2>3. CallSound(c)'
    BY <1>1, <2>1, <2>2 DEF CallSound, Decidable, Open, Overdue
  <2>4. ~attached => k.via # "queue"
    BY <1>0, <1>1 DEF Detached
  <2> HIDE DEF k
  <2> QED BY <1>0, <1>1, <2>1, <2>2, <2>3, <2>4, CallStarts DEF TypeOK, k
<1>2. CASE DecideRecord(c, a, v)
  BY <1>1, <1>2 DEF DecideRecord
<1>3. CASE Decide(c, a, v)
  <2>1. CASE item[a].mirrored
    BY <1>0, <1>1, <1>3, <2>1 DEF Decide, ItemSound
  <2>2. CASE ~item[a].mirrored
    <3> DEFINE k == [pc |-> "settling", via |-> "queue", ask |-> a, want |-> v]
    <3>1. /\ item[a] # NoItem /\ call' = [call EXCEPT ![c] = k]
          /\ early' = [early EXCEPT ![a] = TRUE]
          /\ UNCHANGED <<item, record, filing, scan, verdicts, attached, imported, now>>
      BY <1>3, <2>2 DEF Decide
    <3>2. k \in Calls /\ call'[c] = k
      BY <1>0, <3>1 DEF Calls, TypeOK
    <3>3. early'[a] /\ early' \in [Asks -> BOOLEAN] /\ \A b \in Asks : early[b] => early'[b]
      BY <1>0, <3>1 DEF TypeOK
    <3>4. CallSound(c)'
      BY <3>1, <3>2, <3>3 DEF CallSound
    <3>5. attached
      BY <1>0, <3>1 DEF Detached
    <3> HIDE DEF k
    <3> QED BY <3>1, <3>2, <3>3, <3>4, <3>5, CallStarts
  <2> QED BY <2>1, <2>2
<1> QED BY <1>2, <1>3

(* A new state for an item, of which only the invariant's reasons have to be given. *)
LEMMA ItemCloses ==
  ASSUME QueueInv, NEW a \in Asks, item[a] # NoItem, NEW s \in States,
         item' = [item EXCEPT ![a].state = s],
         s = item[a].state \/ (s \in Verdicts /\ (early[a] \/ s \in verdicts[a]))
           \/ (s = "expired" /\ (Overdue(item[a]) \/ (record[a] # NoRecord /\ ~Decidable(a)))),
         call' \in [Callers -> Calls \cup {NoCall}], scan' \in [Syncers -> Scans \cup {NoScan}],
         \A c \in Callers : call'[c] = NoCall \/ call'[c] = call[c],
         \A q \in Syncers : ScanSound(q)' \/ scan'[q] = scan[q],
         UNCHANGED <<record, filing, early, verdicts, attached, imported, now>>
  PROVE  QueueInv'
<1>0. TypeOK /\ Detached /\ ItemSound(a) /\ RecordSound(a)
  BY DEF QueueInv
<1>1. /\ item' \in [Asks -> Items \cup {NoItem}]
      /\ item'[a] # NoItem
      /\ item'[a].state = s
      /\ item'[a].expires = item[a].expires
      /\ item'[a].mirrored = item[a].mirrored
      /\ \A b \in Asks \ {a} : item'[b] = item[b]
  BY <1>0, ItemStateEffect
<1>2. TypeOK'
  BY <1>0, <1>1 DEF TypeOK
<1>3. Onward
  BY <1>0, <1>1 DEF Onward, TypeOK
<1>4. record[a].state \in Verdicts => ~Decidable(a)
  BY Apart DEF Decidable, Open
<1>5. s \in verdicts[a] => record[a] # NoRecord /\ ~Decidable(a)
  BY <1>0, <1>4, Apart DEF RecordSound, TypeOK
<1>6. ItemSound(a)'
  <2>1. /\ item[a].mirrored => record[a] # NoRecord
        /\ s \in Verdicts => early[a] \/ s \in verdicts[a]
        /\ s # "pending" => early[a] \/ Overdue(item[a]) \/ (record[a] # NoRecord /\ ~Decidable(a))
    BY <1>0, <1>5, Apart DEF ItemSound, Open
  <2> QED BY <1>1, <2>1 DEF ItemSound, Open, Overdue, Decidable
<1>7. \A c \in Callers : CallSound(c)' \/ call'[c] = call[c]
  BY DEF CallSound
<1>8. Detached'
  <2>1. attached
    BY <1>0 DEF Detached
  <2> QED BY <2>1 DEF Detached
<1>9. \A b \in Asks : item[b] = NoItem => item'[b] = NoItem
  BY <1>1
<1> QED BY <1>1, <1>2, <1>3, <1>6, <1>7, <1>8, <1>9, OnwardInv

(* The UPDATEs of decide(), and what the queue makes of the answer. *)
LEMMA DecidingSteps ==
  ASSUME QueueInv, NEW c \in Callers, Take(c) \/ TakeLate(c) \/ Abort(c) \/ CloseItem(c) \/ Settle(c)
  PROVE  QueueInv'
<1>0. TypeOK /\ Detached /\ CallSound(c)
  BY DEF QueueInv
<1>1. call[c] \in Calls
  BY <1>0, Apart DEF Take, TakeLate, Abort, CloseItem, Settle, TypeOK
<1> DEFINE a == call[c].ask
<1>2. PICK k \in Calls : k = call[c]
  BY <1>1
<1>3. k.ask \in Asks /\ k.want \in Verdicts /\ k.via \in {"queue", "console"}
  BY <1>2 DEF Calls
<1>4. k # NoCall /\ ItemSound(k.ask) /\ RecordSound(k.ask)
  BY <1>2, <1>3, Apart DEF QueueInv
<1>5. ASSUME NEW s \in States \ {"pending"}, record[k.ask] # NoRecord,
             record' = [record EXCEPT ![k.ask].state = s],
             NEW V \in SUBSET Verdicts, verdicts' = [verdicts EXCEPT ![k.ask] = V],
             verdicts[k.ask] \subseteq V,
             s \in V \/ (V = {} /\ s \notin Verdicts),
             NEW pc \in {"settling", "lapsing"}, pc = "settling" => k.want \in V,
             call' = [call EXCEPT ![c] = IF k.via = "queue" THEN [k EXCEPT !.pc = pc] ELSE NoCall],
             UNCHANGED <<item, filing, scan, early, attached, imported, now>>
      PROVE  QueueInv'
  <2>1. /\ record' \in [Asks -> Records \cup {NoRecord}]
        /\ record'[k.ask] # NoRecord
        /\ record'[k.ask].state = s
        /\ record'[k.ask].expires = record[k.ask].expires
        /\ \A b \in Asks \ {k.ask} : record'[b] = record[b]
    BY <1>0, <1>3, <1>5, RecordStateEffect
  <2>2. /\ verdicts' \in [Asks -> SUBSET Verdicts] /\ verdicts'[k.ask] = V
        /\ \A b \in Asks \ {k.ask} : verdicts'[b] = verdicts[b]
    BY <1>0, <1>3, <1>5 DEF TypeOK
  <2>3. [k EXCEPT !.pc = pc] \in Calls
    BY <1>2, <1>5 DEF Calls
  <2>4. TypeOK'
    BY <1>0, <1>5, <2>1, <2>2, <2>3 DEF TypeOK
  <2>5. Onward
    BY <1>0, <1>5, <2>1, <2>2 DEF Onward, TypeOK, Open
  <2>6. RecordSound(k.ask)'
    BY <1>5, <2>1, <2>2 DEF RecordSound
  <2>7. CallSound(c)'
    <3>1. CASE k.via = "queue"
      <4>1. /\ call'[c] = [k EXCEPT !.pc = pc] /\ call'[c].ask = k.ask /\ call'[c].pc = pc
            /\ call'[c].want = k.want /\ call'[c].via = "queue"
        BY <1>0, <1>2, <1>5, <3>1 DEF TypeOK, Calls
      <4>2. item'[k.ask] # NoItem
        BY <1>0, <1>2, <1>4, <1>5, <3>1 DEF CallSound
      <4>3. ~Decidable(k.ask)'
        BY <1>5, <2>1 DEF Decidable, Open
      <4> QED BY <1>5, <2>1, <2>2, <4>1, <4>2, <4>3 DEF CallSound, Decidable, Open, Overdue
    <3>2. CASE k.via # "queue"
      BY <1>0, <1>5, <3>2 DEF TypeOK, CallSound
    <3> QED BY <3>1, <3>2
  <2>8. Detached'
    <3>1. ~attached => k.via # "queue"
      BY <1>0, <1>2, <1>4 DEF Detached
    <3> QED BY <1>0, <1>5, <3>1 DEF Detached, TypeOK
  <2>9. \A d \in Callers : d # c => call'[d] = call[d]
    BY <1>0, <1>5 DEF TypeOK
  <2>10. \A b \in Asks : record[b] = NoRecord => record'[b] = NoRecord
    BY <1>5, <2>1
  <2> QED BY <1>5, <2>1, <2>2, <2>4, <2>5, <2>6, <2>7, <2>8, <2>9, <2>10, OnwardInv
<1>6. CASE Take(c)
  <2>1. /\ k.pc = "writing"
        /\ record' = [record EXCEPT ![k.ask].state = k.want]
        /\ verdicts' = [verdicts EXCEPT ![k.ask] = @ \cup {k.want}]
        /\ call' = [call EXCEPT ![c] = IF k.via = "queue" THEN [k EXCEPT !.pc = "settling"] ELSE NoCall]
        /\ UNCHANGED <<item, filing, scan, early, attached, imported, now>>
    BY <1>0, <1>2, <1>6 DEF Take, TypeOK
  <2>2. record[k.ask] # NoRecord
    BY <1>0, <1>2, <1>4, <2>1 DEF CallSound
  <2>3. k.want \in States \ {"pending"}
    BY <1>3, Apart
  <2> DEFINE V == verdicts[k.ask] \cup {k.want}
  <2>4. V \in SUBSET Verdicts /\ k.want \in V /\ verdicts[k.ask] \subseteq V
        /\ verdicts' = [verdicts EXCEPT ![k.ask] = V]
    BY <1>0, <1>3, <2>1 DEF TypeOK
  <2> HIDE DEF V
  <2> QED BY <1>5, <2>1, <2>2, <2>3, <2>4
<1>7. CASE TakeLate(c)
  <2> DEFINE s == IF record[k.ask].state = "pending" THEN "expired" ELSE record[k.ask].state
  <2>1. /\ k.pc = "late"
        /\ record' = [record EXCEPT ![k.ask].state = s]
        /\ call' = [call EXCEPT ![c] = IF k.via = "queue" THEN [k EXCEPT !.pc = "lapsing"] ELSE NoCall]
        /\ UNCHANGED <<item, filing, scan, early, verdicts, attached, imported, now>>
    BY <1>0, <1>2, <1>7 DEF TakeLate, TypeOK
  <2>2. record[k.ask] # NoRecord /\ record[k.ask] \in Records
    BY <1>0, <1>2, <1>3, <1>4, <2>1 DEF CallSound, TypeOK
  <2>3. s \in States \ {"pending"}
    BY <2>2, Apart DEF Records
  <2>4. s \in verdicts[k.ask] \/ (verdicts[k.ask] = {} /\ s \notin Verdicts)
    BY <1>0, <1>3, <1>4, Apart DEF RecordSound, TypeOK
  <2>5. verdicts[k.ask] \in SUBSET Verdicts /\ verdicts' = [verdicts EXCEPT ![k.ask] = verdicts[k.ask]]
    BY <1>0, <1>3, <2>1 DEF TypeOK
  <2> HIDE DEF s
  <2> QED BY <1>5, <2>1, <2>2, <2>3, <2>4, <2>5
<1>8. CASE Abort(c)
  <2>1. CallSound(c)'
    BY <1>0, <1>8 DEF Abort, CallSound, TypeOK
  <2> QED BY <1>0, <1>8, <2>1, CallStarts DEF Abort, TypeOK
<1>9. CASE CloseItem(c)
  <2>1. /\ k.pc = "lapsing" /\ item' = [item EXCEPT ![k.ask].state = "expired"]
        /\ call' = [call EXCEPT ![c] = NoCall]
        /\ UNCHANGED <<record, filing, scan, early, verdicts, attached, imported, now>>
    BY <1>2, <1>9 DEF CloseItem
  <2>2. item[k.ask] # NoItem /\ record[k.ask] # NoRecord /\ ~Decidable(k.ask)
    BY <1>0, <1>2, <1>4, <2>1 DEF CallSound, Decidable, Open, Overdue
  <2>3. call' \in [Callers -> Calls \cup {NoCall}]
        /\ \A d \in Callers : call'[d] = NoCall \/ call'[d] = call[d]
    BY <1>0, <2>1 DEF TypeOK
  <2>4. scan' \in [Syncers -> Scans \cup {NoScan}] /\ \A q \in Syncers : scan'[q] = scan[q]
    BY <1>0, <2>1 DEF TypeOK
  <2> QED BY <1>3, <2>1, <2>2, <2>3, <2>4, Apart, ItemCloses
<1>10. CASE Settle(c)
  <2>1. /\ k.pc = "settling" /\ call' = [call EXCEPT ![c] = NoCall]
        /\ UNCHANGED <<record, filing, scan, early, verdicts, attached, imported, now>>
    BY <1>2, <1>10 DEF Settle
  <2>2. item[k.ask] # NoItem /\ (early[k.ask] \/ k.want \in verdicts[k.ask])
    BY <1>0, <1>2, <1>4, <2>1 DEF CallSound
  <2>3. call' \in [Callers -> Calls \cup {NoCall}]
        /\ \A d \in Callers : call'[d] = NoCall \/ call'[d] = call[d]
    BY <1>0, <2>1 DEF TypeOK
  <2>4. scan' \in [Syncers -> Scans \cup {NoScan}] /\ \A q \in Syncers : scan'[q] = scan[q]
    BY <1>0, <2>1 DEF TypeOK
  <2>5. CASE ~Open(item[k.ask])
    <3>1. item[k.ask] \in Items
      BY <1>0, <1>3, <2>2 DEF TypeOK
    <3>2. item[k.ask].state \in States /\ item' = [item EXCEPT ![k.ask].state = item[k.ask].state]
      BY <1>0, <1>2, <1>3, <1>10, <2>5, <3>1 DEF Settle, TypeOK, Items
    <3> QED BY <1>3, <2>1, <2>2, <2>3, <2>4, <3>2, ItemCloses
  <2>6. CASE Open(item[k.ask])
    <3>1. item' = [item EXCEPT ![k.ask].state = IF Overdue(item[k.ask]) THEN "expired" ELSE k.want]
      BY <1>2, <1>10, <2>6 DEF Settle
    <3> QED BY <1>3, <2>1, <2>2, <2>3, <2>4, <3>1, Apart, ItemCloses
  <2> QED BY <2>5, <2>6
<1> QED BY <1>6, <1>7, <1>8, <1>9, <1>10

-----------------------------------------------------------------------------
(* A step that only starts or moves a sync. *)
LEMMA ScanMoves ==
  ASSUME QueueInv, NEW s \in Syncers, NEW k \in Scans \cup {NoScan},
         scan' = [scan EXCEPT ![s] = k], ScanSound(s)', attached,
         UNCHANGED <<item, record, filing, call, early, verdicts, attached, imported, now>>
  PROVE  QueueInv'
<1>1. TypeOK'
  BY DEF QueueInv, TypeOK
<1>2. Onward
  BY DEF QueueInv, Onward, TypeOK
<1>3. \A q \in Syncers : ScanSound(q)' \/ scan'[q] = scan[q]
  BY DEF QueueInv, TypeOK
<1>4. Detached'
  BY DEF Detached
<1> QED BY <1>1, <1>2, <1>3, <1>4, OnwardInv

(* sync(): what was seen is true of the past, and that is enough. *)
LEMMA SyncSteps ==
  ASSUME QueueInv, NEW s \in Syncers,
         Sync(s) \/ (\E a \in Asks : Look(s, a)) \/ Copy(s) \/ Sweep(s)
  PROVE  QueueInv'
<1> USE QueueAssumption
<1>0. TypeOK /\ Detached /\ ScanSound(s)
  BY DEF QueueInv
<1>1. CASE Sync(s)
  <2> DEFINE k == NewScan({a \in Asks : item[a] # NoItem /\ item[a].mirrored})
  <2>1. /\ scan' = [scan EXCEPT ![s] = k] /\ attached
        /\ UNCHANGED <<item, record, filing, call, early, verdicts, attached, imported, now>>
    BY <1>1 DEF Sync
  <2>2. k \in Scans /\ k.pc = "looking" /\ k.at = now
        /\ \A a \in k.left : item[a] # NoItem /\ item[a].mirrored
    BY <1>0 DEF Scans, NewScan, TypeOK
  <2> HIDE DEF k
  <2>3. ScanSound(s)'
    BY <1>0, <2>1, <2>2 DEF ScanSound, TypeOK
  <2> QED BY <2>1, <2>2, <2>3, ScanMoves
<1>2. ASSUME NEW a \in Asks, Look(s, a) PROVE QueueInv'
  <2> DEFINE rest == [scan[s] EXCEPT !.left = @ \ {a}]
             found == [pc |-> "copying", at |-> rest.at, left |-> rest.left,
                       ask |-> a, seen |-> record[a].state]
  <2>1. /\ scan[s].pc = "looking" /\ a \in scan[s].left
        /\ \/ scan' = [scan EXCEPT ![s] = rest]
           \/ scan' = [scan EXCEPT ![s] = found]
        /\ UNCHANGED <<item, record, filing, call, early, verdicts, attached, imported, now>>
    BY <1>2 DEF Look
  <2>2. scan[s] \in [pc : {"looking"}, at : Nat, left : SUBSET Asks] /\ scan[s] # NoScan
    BY <1>0, <2>1, Apart DEF TypeOK, Scans
  <2>3. rest \in Scans /\ rest.pc = "looking" /\ rest.at = scan[s].at /\ rest.left = scan[s].left \ {a}
    BY <2>2 DEF Scans
  <2>4. attached
    BY <1>0, <2>2 DEF Detached
  <2>5. record[a] # NoRecord /\ item[a] # NoItem
    <3>1. ItemSound(a)
      BY DEF QueueInv
    <3> QED BY <1>0, <2>1, <2>2, <3>1 DEF ScanSound, ItemSound
  <2>6. record[a] \in Records /\ record[a].state \in States /\ RecordSound(a)
    BY <1>0, <2>5 DEF TypeOK, Records, QueueInv
  <2>7. found \in Scans /\ found.pc = "copying" /\ found.at = scan[s].at
        /\ found.left = scan[s].left \ {a} /\ found.ask = a /\ found.seen = record[a].state
    BY <2>3, <2>6 DEF Scans
  <2> HIDE DEF rest, found
  <2>8. CASE scan' = [scan EXCEPT ![s] = rest]
    <3>1. ScanSound(s)'
      BY <1>0, <2>1, <2>2, <2>3, <2>8 DEF ScanSound, TypeOK
    <3> QED BY <2>1, <2>3, <2>4, <2>8, <3>1, ScanMoves
  <2>9. CASE scan' = [scan EXCEPT ![s] = found]
    <3>1. scan'[s] = found
      BY <1>0, <2>9 DEF TypeOK
    <3>2. record[a].state = "expired" => ~Open(record[a])
      BY DEF Open
    <3>3. record[a].state \in Verdicts => record[a].state \in verdicts[a]
      BY <2>6 DEF RecordSound
    <3>4. ScanSound(s)'
      BY <1>0, <2>1, <2>2, <2>5, <2>7, <3>1, <3>2, <3>3 DEF ScanSound, Open
    <3> QED BY <2>1, <2>4, <2>7, <2>9, <3>4, ScanMoves
  <2> QED BY <2>1, <2>8, <2>9
<1>3. CASE Copy(s)
  <2>1. scan[s] \in [pc : {"copying"}, at : Nat, left : SUBSET Asks, ask : Asks, seen : States]
        /\ scan[s] # NoScan
    BY <1>0, <1>3, Apart DEF Copy, TypeOK, Scans
  <2>2. PICK k \in [pc : {"copying"}, at : Nat, left : SUBSET Asks, ask : Asks, seen : States] :
          k = scan[s]
    BY <2>1
  <2> DEFINE t == Carried(k.ask, k.seen, k.at)
             next == [pc |-> "looking", at |-> k.at, left |-> k.left]
  <2>3. /\ item' = [item EXCEPT ![k.ask].state = t]
        /\ scan' = [scan EXCEPT ![s] = next]
        /\ UNCHANGED <<record, filing, call, early, verdicts, attached, imported, now>>
    BY <1>0, <1>3, <2>2 DEF Copy, TypeOK
  <2>4. /\ k.ask \in Asks /\ k.at \in Nat /\ k.at <= now
        /\ item[k.ask] # NoItem /\ record[k.ask] # NoRecord
        /\ k.seen = "expired" => ~Open(record[k.ask])
        /\ k.seen \in Verdicts => k.seen \in verdicts[k.ask]
        /\ \A a \in k.left : item[a] # NoItem /\ item[a].mirrored
    BY <1>0, <2>1, <2>2 DEF ScanSound
  <2>5. item[k.ask] \in Items /\ record[k.ask] \in Records
    BY <1>0, <2>4 DEF TypeOK
  <2>6. k.at >= record[k.ask].expires => ~Decidable(k.ask)
    BY <1>0, <2>4, <2>5 DEF Decidable, Overdue, Records, TypeOK
  <2>7. /\ t \in States
        /\ \/ t = item[k.ask].state
           \/ t \in Verdicts /\ t \in verdicts[k.ask]
           \/ t = "expired" /\ ~Decidable(k.ask)
    BY <2>4, <2>5, <2>6, Apart DEF Carried, Items, Decidable
  <2>8. next \in Scans /\ next.pc = "looking" /\ next.at = k.at /\ next.left = k.left
    BY <2>2 DEF Scans
  <2> HIDE DEF t, next
  <2>9. /\ item' \in [Asks -> Items \cup {NoItem}] /\ item'[k.ask] # NoItem
        /\ item'[k.ask].mirrored = item[k.ask].mirrored
        /\ \A b \in Asks \ {k.ask} : item'[b] = item[b]
    BY <1>0, <2>3, <2>4, <2>7, ItemStateEffect
  <2>10. /\ scan'[s] = next /\ scan' \in [Syncers -> Scans \cup {NoScan}]
         /\ \A q \in Syncers \ {s} : scan'[q] = scan[q]
    BY <1>0, <2>3, <2>8 DEF TypeOK
  <2>11. ScanSound(s)'
    <3>1. \A a \in next.left : item'[a] # NoItem /\ item'[a].mirrored
      BY <2>2, <2>4, <2>8, <2>9
    <3> QED BY <2>3, <2>4, <2>8, <2>10, <3>1 DEF ScanSound
  <2>12. call' \in [Callers -> Calls \cup {NoCall}] /\ \A c \in Callers : call'[c] = call[c]
    BY <1>0, <2>3 DEF TypeOK
  <2> QED BY <2>3, <2>4, <2>7, <2>10, <2>11, <2>12, ItemCloses
<1>4. CASE Sweep(s)
  <2>1. /\ scan[s].pc = "looking"
        /\ item' = [a \in Asks |-> Swept(a, scan[s].at)]
        /\ scan' = [scan EXCEPT ![s] = NoScan]
        /\ UNCHANGED <<record, filing, call, early, verdicts, attached, imported, now>>
    BY <1>4 DEF Sweep
  <2>2. scan[s] \in Scans /\ scan[s] # NoScan
    BY <1>0, <2>1, Apart DEF TypeOK
  <2>3. scan[s].at \in Nat /\ scan[s].at <= now /\ attached
    BY <1>0, <2>2 DEF Scans, ScanSound, Detached
  <2>4. ASSUME NEW a \in Asks, item[a] # NoItem
        PROVE  /\ item'[a] \in Items /\ item'[a] # NoItem
               /\ item'[a].expires = item[a].expires /\ item'[a].mirrored = item[a].mirrored
               /\ \/ item'[a] = item[a]
                  \/ item'[a].state = "expired" /\ Overdue(item[a])
    <3>1. item[a] \in Items
      BY <1>0, <2>4 DEF TypeOK
    <3>2. CASE Open(item[a]) /\ scan[s].at >= item[a].expires
      <4>1. item'[a] = [item[a] EXCEPT !.state = "expired"]
        BY <2>1, <3>2 DEF Swept
      <4>2. Overdue(item[a])
        BY <1>0, <2>3, <3>1, <3>2 DEF Overdue, Items, TypeOK
      <4> QED BY <3>1, <4>1, <4>2, Apart DEF Items
    <3>3. CASE ~(Open(item[a]) /\ scan[s].at >= item[a].expires)
      BY <2>1, <2>4, <3>1, <3>3 DEF Swept
    <3> QED BY <3>2, <3>3
  <2>5. ASSUME NEW a \in Asks, item[a] = NoItem PROVE item'[a] = NoItem
    BY <2>1, <2>5, Apart DEF Swept, Open
  <2>6. TypeOK'
    <3>1. item' \in [Asks -> Items \cup {NoItem}]
      BY <2>1, <2>4, <2>5
    <3> QED BY <1>0, <2>1, <3>1 DEF TypeOK
  <2>7. Onward
    BY <1>0, <2>1, <2>4 DEF Onward, TypeOK
  <2>8. ASSUME NEW a \in Asks PROVE ItemSound(a)' \/ item'[a] = item[a]
    <3>1. CASE item[a] = NoItem
      BY <2>5, <3>1
    <3>2. CASE item[a] # NoItem
      <4>1. ItemSound(a)
        BY DEF QueueInv
      <4>2. CASE item'[a].state = "expired" /\ Overdue(item[a])
        BY <2>1, <2>4, <3>2, <4>1, <4>2, Apart DEF ItemSound, Overdue, Open
      <4> QED BY <2>4, <3>2, <4>2
    <3> QED BY <3>1, <3>2
  <2>9. \A q \in Syncers : ScanSound(q)' \/ scan'[q] = scan[q]
    BY <1>0, <2>1 DEF ScanSound, TypeOK
  <2>10. Detached'
    BY <2>1, <2>3 DEF Detached
  <2> QED BY <2>1, <2>5, <2>6, <2>7, <2>8, <2>9, <2>10, OnwardInv
<1> QED BY <1>1, <1>2, <1>3, <1>4

(* Lazy expiry, and time. *)
LEMMA ClockSteps == QueueInv /\ (ListPending \/ Tick) => QueueInv'
<1> SUFFICES ASSUME QueueInv, ListPending \/ Tick PROVE QueueInv'
  OBVIOUS
<1> USE QueueAssumption
<1>0. TypeOK /\ Detached
  BY DEF QueueInv
<1>1. CASE ListPending
  <2>1. record' = Lapsed
        /\ UNCHANGED <<item, filing, call, scan, early, verdicts, attached, imported, now>>
    BY <1>1 DEF ListPending
  <2>2. Lapsed = [a \in Asks |-> Lapsed[a]]
    BY DEF Lapsed
  <2>3. TypeOK'
    BY <1>0, <2>1, <2>2, LapsedEffect DEF TypeOK
  <2>4. Onward
    BY <1>0, <2>1, LapsedEffect DEF Onward, TypeOK, Decidable, Open
  <2>5. ASSUME NEW a \in Asks PROVE RecordSound(a)'
    <3>1. RecordSound(a) /\ verdicts[a] \subseteq Verdicts
      BY <1>0 DEF QueueInv, TypeOK
    <3> QED BY <1>0, <2>1, <3>1, LapsedEffect DEF RecordSound
  <2>6. \A a \in Asks : record[a] = NoRecord => record'[a] = record[a]
    BY <1>0, <2>1, LapsedEffect
  <2>7. Detached'
    BY <1>0, <2>1 DEF Detached
  <2> QED BY <2>1, <2>3, <2>4, <2>5, <2>6, <2>7, OnwardInv
<1>2. CASE Tick
  <2>1. now' = now + 1 /\ now < MaxTime
        /\ UNCHANGED <<item, record, filing, call, scan, early, verdicts, attached, imported>>
    BY <1>2 DEF Tick
  <2>2. TypeOK'
    BY <1>0, <2>1 DEF TypeOK
  <2>3. Onward
    BY <1>0, <2>1 DEF Onward, TypeOK, Open
  <2>4. Detached'
    BY <1>0, <2>1 DEF Detached
  <2> QED BY <2>1, <2>2, <2>3, <2>4, OnwardInv
<1> QED BY <1>1, <1>2

(* A restart forgets everything but the ledger. *)
LEMMA RestartStep == QueueInv /\ Restart => QueueInv'
<1> SUFFICES ASSUME QueueInv, Restart PROVE QueueInv'
  OBVIOUS
<1>1. /\ item' = [a \in Asks |-> NoItem] /\ filing' = [a \in Asks |-> NoFiling]
      /\ call' = [c \in Callers |-> NoCall] /\ scan' = [s \in Syncers |-> NoScan]
      /\ early' = [a \in Asks |-> FALSE] /\ attached' = FALSE
      /\ UNCHANGED <<record, verdicts, imported, now>>
  BY DEF Restart
<1>2. TypeOK'
  BY <1>1 DEF QueueInv, TypeOK
<1>3. \A a \in Asks : FilingSound(a)' /\ ItemSound(a)' /\ Kept(a)'
  BY <1>1, Apart DEF FilingSound, ItemSound, Kept
<1>4. \A a \in Asks : RecordSound(a)'
  BY <1>1 DEF QueueInv, RecordSound
<1>5. /\ \A c \in Callers : CallSound(c)'
      /\ \A s \in Syncers : ScanSound(s)'
  BY <1>1 DEF CallSound, ScanSound
<1>6. Detached'
  BY <1>1 DEF Detached
<1> QED BY <1>2, <1>3, <1>4, <1>5, <1>6 DEF QueueInv

(* An imported item is open, mirrored, and there for all that can be decided. *)
LEMMA ImportEffect ==
  ASSUME TypeOK, NEW a \in Asks
  PROVE  /\ Import(a) \in Items \cup {NoItem}
         /\ Import(a) # NoItem => /\ Open(Import(a)) /\ Import(a).mirrored
                                  /\ record[a] # NoRecord
         /\ Decidable(a) => Import(a) # NoItem
<1>1. CASE Open(Lapsed[a])
  <2>1. record[a] \in Records /\ Lapsed[a].expires = record[a].expires /\ record[a] # NoRecord
    BY <1>1, LapsedEffect, Apart DEF Decidable, Open, TypeOK
  <2>2. record[a].expires \in Nat /\ now \in Nat
    BY <2>1, QueueAssumption DEF TypeOK, Records
  <2>3. now + Later(1, record[a].expires - now) \in Nat
    BY <2>2 DEF Later
  <2>4. Import(a) = [state |-> "pending", expires |-> now + Later(1, record[a].expires - now),
                     mirrored |-> TRUE]
    BY <1>1, <2>1 DEF Import
  <2>5. Import(a) \in Items
    BY <2>3, <2>4 DEF Items, States
  <2> QED BY <2>1, <2>4, <2>5, Apart DEF Open
<1>2. CASE ~Open(Lapsed[a])
  BY <1>2, LapsedEffect DEF Import
<1> QED BY <1>1, <1>2

(* The queue of a new process begins with what the ledger can still decide. *)
LEMMA AttachStep ==
  ASSUME QueueInv, NEW s \in Syncers, Attach(s)
  PROVE  QueueInv'
<1> USE QueueAssumption
<1>0. TypeOK /\ Detached
  BY DEF QueueInv
<1> DEFINE k == NewScan({a \in Asks : item'[a] # NoItem})
<1>1. PICK ok \in BOOLEAN :
        /\ imported' = ok
        /\ record' = IF ok THEN Lapsed ELSE record
        /\ item' = IF ok THEN [a \in Asks |-> Import(a)] ELSE item
        /\ ~attached /\ attached' = TRUE
        /\ scan' = [scan EXCEPT ![s] = k]
        /\ UNCHANGED <<filing, call, early, verdicts, now>>
  BY DEF Attach
<1>2. /\ \A a \in Asks : item[a] = NoItem /\ filing[a] = NoFiling
      /\ \A c \in Callers : call[c] # NoCall => call[c].via # "queue"
      /\ \A q \in Syncers : scan[q] = NoScan
  BY <1>0, <1>1 DEF Detached
<1>3. Lapsed = [a \in Asks |-> Lapsed[a]]
  BY DEF Lapsed
<1>4. ASSUME NEW a \in Asks
      PROVE  /\ item'[a] \in Items \cup {NoItem}
             /\ item'[a] # NoItem => Open(item'[a]) /\ item'[a].mirrored /\ record'[a] # NoRecord
             /\ record'[a] \in Records \cup {NoRecord}
             /\ (record'[a] = NoRecord) <=> (record[a] = NoRecord)
             /\ record'[a].state \in Verdicts <=> record[a].state \in Verdicts
             /\ record'[a].state \in Verdicts => record'[a].state = record[a].state
             /\ Decidable(a)' => Decidable(a)
             /\ Decidable(a) /\ ok => item'[a] # NoItem
  <2>1. CASE ok
    BY <1>0, <1>1, <2>1, LapsedEffect, ImportEffect DEF Decidable
  <2>2. CASE ~ok
    BY <1>0, <1>1, <1>2, <2>2 DEF TypeOK, Decidable, Open, Overdue
  <2> QED BY <2>1, <2>2
<1>5. k \in Scans /\ k.pc = "looking" /\ k.at = now
      /\ \A a \in k.left : a \in Asks /\ item'[a] # NoItem
  BY <1>0 DEF Scans, NewScan, TypeOK
<1> HIDE DEF k
<1>6. TypeOK'
  <2>1. item' \in [Asks -> Items \cup {NoItem}]
    <3>1. item' = [a \in Asks |-> item'[a]]
      BY <1>0, <1>1 DEF TypeOK
    <3> QED BY <1>4, <3>1
  <2>2. record' \in [Asks -> Records \cup {NoRecord}]
    <3>1. record' = [a \in Asks |-> record'[a]]
      BY <1>0, <1>1, <1>3 DEF TypeOK
    <3> QED BY <1>4, <3>1
  <2> QED BY <1>0, <1>1, <1>5, <2>1, <2>2 DEF TypeOK
<1>7. ASSUME NEW a \in Asks PROVE FilingSound(a)' /\ ItemSound(a)' /\ Kept(a)' /\ RecordSound(a)'
  <2>1. FilingSound(a)'
    BY <1>1, <1>2, Apart DEF FilingSound
  <2>2. ItemSound(a)'
    BY <1>4, Apart DEF ItemSound, Open
  <2>3. Kept(a)'
    BY <1>1, <1>4 DEF Kept
  <2>4. RecordSound(a)'
    <3>1. RecordSound(a) /\ verdicts[a] \subseteq Verdicts
      BY <1>0 DEF QueueInv, TypeOK
    <3> QED BY <1>1, <1>4, <3>1 DEF RecordSound
  <2> QED BY <2>1, <2>2, <2>3, <2>4
<1>8. ASSUME NEW c \in Callers PROVE CallSound(c)'
  <2>1. CASE call[c] = NoCall
    BY <1>1, <2>1 DEF CallSound
  <2>2. CASE call[c] # NoCall
    <3>1. PICK j \in Calls : call[c] = j /\ call'[c] = j /\ j.ask \in Asks
      BY <1>0, <1>1, <2>2 DEF TypeOK, Calls
    <3>2. CallSound(c) /\ j.via # "queue" /\ j # NoCall
      BY <1>2, <2>2, <3>1 DEF QueueInv
    <3>3. /\ record'[j.ask] = NoRecord <=> record[j.ask] = NoRecord
          /\ Decidable(j.ask)' => Decidable(j.ask)
      BY <1>4, <3>1
    <3> QED BY <3>1, <3>2, <3>3 DEF CallSound, Decidable, Open, Overdue
  <2> QED BY <2>1, <2>2
<1>9. ASSUME NEW q \in Syncers PROVE ScanSound(q)'
  <2>1. CASE q = s
    <3>1. scan'[s] = k
      BY <1>0, <1>1 DEF TypeOK
    <3>2. \A a \in k.left : item'[a] # NoItem /\ item'[a].mirrored
      BY <1>4, <1>5
    <3>3. k.at <= now' /\ k.pc # "copying"
      BY <1>0, <1>1, <1>5 DEF TypeOK
    <3> QED BY <2>1, <3>1, <3>2, <3>3 DEF ScanSound
  <2>2. CASE q # s
    BY <1>0, <1>1, <1>2, <2>2 DEF ScanSound, TypeOK
  <2> QED BY <2>1, <2>2
<1>10. Detached'
  BY <1>1 DEF Detached
<1> QED BY <1>6, <1>7, <1>8, <1>9, <1>10 DEF QueueInv

(* The invariant survives every step. *)
LEMMA QueueInvStep == QueueInv /\ [Next]_vars => QueueInv'
<1> SUFFICES ASSUME QueueInv, [Next]_vars PROVE QueueInv'
  OBVIOUS
<1>1. CASE Next
  BY <1>1, RequestSteps, ReadingSteps, DecidingSteps, SyncSteps, ClockSteps, RestartStep, AttachStep
     DEF Next
<1>2. CASE UNCHANGED vars
  BY <1>2
     DEF QueueInv, vars, TypeOK, FilingSound, RecordSound, ItemSound, CallSound, ScanSound, Kept,
         Detached, Decidable, Open, Overdue
<1> QED BY <1>1, <1>2

(* The queue's and the ledger's states stay well typed. *)
THEOREM QueueTypeCorrect == Spec => []TypeOK
<1>1. QueueInv => TypeOK
  BY DEF QueueInv
<1> QED BY <1>1, QueueInvInit, QueueInvStep, PTL DEF Spec

(* "Local state is never finalized ahead of the canonical record", whoever decides on
   which surface, whichever decisions are late or stale, and over restarts: a verdict
   that an item shows was committed to the ledger before, where only the opposite
   verdict may have replaced it, or was given while the item had no record. *)
THEOREM QueueNeverAhead == Spec => []NeverAhead
<1>1. QueueInv => NeverAhead
  <2> SUFFICES ASSUME QueueInv, NEW a \in Asks, item[a].state \in Verdicts, ~early[a]
               PROVE  /\ item[a].state \in verdicts[a]
                      /\ record[a].state = item[a].state \/ verdicts[a] = Verdicts
    BY DEF NeverAhead
  <2>1. ItemSound(a) /\ RecordSound(a) /\ verdicts[a] \subseteq Verdicts /\ item[a] # NoItem
    BY Apart DEF QueueInv, TypeOK
  <2>2. item[a].state \in verdicts[a]
    BY <2>1 DEF ItemSound
  <2>3. record[a].state \in verdicts[a]
    BY <2>1, <2>2 DEF RecordSound
  <2> QED BY <2>1, <2>2, <2>3 DEF Verdicts
<1> QED BY <1>1, QueueInvInit, QueueInvStep, PTL DEF Spec

(* Every ask the ledger can still decide has an item in the attached queue, also after
   a restart between the steps of request(), and the item is open unless it was decided
   before its record was linked or has reached its own, earlier, deadline. *)
THEOREM QueueShowsPending == Spec => []PendingIsVisible
<1>1. QueueInv => PendingIsVisible
  BY DEF QueueInv, PendingIsVisible, Kept, ItemSound
<1> QED BY <1>1, QueueInvInit, QueueInvStep, PTL DEF Spec
=============================================================================
