----------------------------- MODULE ActionGrant -----------------------------
(***************************************************************************)
(* What an approval promises to the human who decides it and to the agent  *)
(* that spends it: every ask gets one verdict or lapses, only a granted    *)
(* one is spent, it is spent once, and the end is final.                   *)
(***************************************************************************)
CONSTANT Asks

VARIABLE status

Init == status = [a \in Asks |-> "NONE"]

Becomes(a, from, to) ==
  /\ status[a] = from
  /\ status' = [status EXCEPT ![a] = to]

Ask(a)    == Becomes(a, "NONE", "PENDING")
Grant(a)  == Becomes(a, "PENDING", "APPROVED")
Refuse(a) == Becomes(a, "PENDING", "DENIED")
Spend(a)  == Becomes(a, "APPROVED", "USED")

\* Unanswered asks lapse, several at a time when they are swept.
Lapse(S) ==
  /\ \A a \in S : status[a] = "PENDING"
  /\ status' = [a \in Asks |-> IF a \in S THEN "EXPIRED" ELSE status[a]]

Next ==
  \/ \E a \in Asks : Ask(a) \/ Grant(a) \/ Refuse(a) \/ Spend(a)
  \/ \E S \in SUBSET Asks : Lapse(S)

Spec == Init /\ [][Next]_status
=============================================================================
