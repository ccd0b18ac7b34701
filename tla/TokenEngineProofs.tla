-------------------------- MODULE TokenEngineProofs --------------------------
(***************************************************************************)
(* What a refused refresh, a connection that changes hands and a code that *)
(* is presented twice can be due to, for any engines, callers, logins,     *)
(* answers and restarts.                                                   *)
(***************************************************************************)
EXTENDS TokenEngine, TLAPS

-----------------------------------------------------------------------------
(* Types.                                                                   *)

(* Nothing is connected at first. *)
LEMMA TypeInit == Init => TypeOK
  BY EngineAssumption DEF Init, TypeOK, NoRow, Idle, NoToken, Logins, Tokens

(* Every step keeps the types: answers are numbered up to the last, which only grows. *)
LEMMA TypeStep == TypeOK /\ [Next]_vars => TypeOK'
<1> SUFFICES ASSUME TypeOK, [Next]_vars PROVE TypeOK'
  OBVIOUS
<1> USE EngineAssumption DEF TypeOK, Await, Return, New, Grants, Idle, NoRow, NoToken, Tokens, Logins,
                            provider, history
<1>1. ASSUME NEW c \in Callers, GetValidToken(c) PROVE TypeOK'
  BY <1>1 DEF GetValidToken, Refreshing
<1>2. ASSUME NEW c \in Callers, NEW rotates \in BOOLEAN, RefreshGranted(c, rotates) PROVE TypeOK'
  BY <1>2 DEF RefreshGranted
<1>3. ASSUME NEW c \in Callers, RefreshUnsent(c) PROVE TypeOK'
  BY <1>3 DEF RefreshUnsent
<1>4. ASSUME NEW c \in Callers, RefreshRefused(c) PROVE TypeOK'
  BY <1>4 DEF RefreshRefused
<1>5. ASSUME NEW c \in Callers, StoreRefreshed(c) PROVE TypeOK'
  BY <1>5 DEF StoreRefreshed, Upsert
<1>6. ASSUME NEW c \in Callers, Flag(c) PROVE TypeOK'
  BY <1>6 DEF Flag, Demoted
<1>7. ASSUME NEW c \in Callers, PopPkce(c) PROVE TypeOK'
  BY <1>7 DEF PopPkce
<1>8. ASSUME NEW c \in Callers, UnlinkPkce(c) PROVE TypeOK'
  BY <1>8 DEF UnlinkPkce, Unlinked
<1>9. ASSUME NEW c \in Callers, CodeGranted(c) PROVE TypeOK'
  BY <1>9 DEF CodeGranted
<1>10. ASSUME NEW c \in Callers, CodeNotGranted(c) PROVE TypeOK'
  BY <1>10 DEF CodeNotGranted
<1>11. ASSUME NEW c \in Callers, StoreLogin(c) PROVE TypeOK'
  BY <1>11 DEF StoreLogin, Upsert, Says
<1>12. ASSUME NEW c \in Callers, ImportGhCli(c) PROVE TypeOK'
  BY <1>12 DEF ImportGhCli, Upsert, Says
<1>13. ASSUME NEW c \in Callers, Revoke(c) PROVE TypeOK'
  BY <1>13 DEF Revoke, Says
<1>14. ASSUME NEW c \in Callers, NEW l \in Logins, Callback(c, l) PROVE TypeOK'
  BY <1>14 DEF Callback
<1>15. ASSUME NEW c \in Callers, NEW l \in Logins, Poll(c, l) PROVE TypeOK'
  BY <1>15 DEF Poll
<1>16. ASSUME NEW l \in Logins, Start(l) PROVE TypeOK'
  BY <1>16 DEF Start
<1>17. ASSUME NEW l \in Logins, NEW a \in {"granted", "denied"}, UserAnswers(l, a) PROVE TypeOK'
  BY <1>17 DEF UserAnswers
<1>18. CASE FallDue
  BY <1>18 DEF FallDue
<1>19. CASE Restart
  BY <1>19 DEF Restart
<1>20. CASE UNCHANGED vars
  BY <1>20 DEF vars
<1> QED BY <1>1, <1>2, <1>3, <1>4, <1>5, <1>6, <1>7, <1>8, <1>9, <1>10, <1>11, <1>12, <1>13,
           <1>14, <1>15, <1>16, <1>17, <1>18, <1>19, <1>20 DEF Next

(* The tokens of every state are tokens the provider has granted. *)
THEOREM EngineTypeCorrect == Spec => []TypeOK
<1> QED BY TypeInit, TypeStep, PTL DEF Spec

-----------------------------------------------------------------------------
(* Two kinds of threads: those with tokens in hand, and those with a login. *)

InHand(c)   == thread[c].pc \in {"refreshing", "refreshed"}
Answered(c) == thread[c].pc \in {"refreshed", "storing"}
Busy(c)     == InHand(c) \/ Answered(c) \/ thread[c].pc = "flagging"
Coming(c)   == thread[c].pc \in {"popping", "unlinking", "presenting"}

(* The rest of a login does not touch tokens, nor what threads have in hand. *)
TokensAside ==
  /\ UNCHANGED <<row, issued, live, lost, shared, refused, origin, word>>
  /\ \A c \in Callers : Busy(c) \/ Busy(c)' => thread'[c] = thread[c]

LoginStep == \/ \E l \in Logins : Start(l) \/ UserAnswers(l, "granted") \/ UserAnswers(l, "denied")
             \/ \E c \in Callers : PopPkce(c) \/ UnlinkPkce(c) \/ CodeNotGranted(c)
             \/ \E c \in Callers, l \in Logins : Callback(c, l) \/ Poll(c, l)
             \/ FallDue

LEMMA LoginsLeaveTokens == TypeOK /\ (LoginStep \/ UNCHANGED vars) => TokensAside
<1> SUFFICES ASSUME TypeOK, LoginStep \/ UNCHANGED vars PROVE TokensAside
  OBVIOUS
<1> USE DEF TokensAside, Busy, InHand, Answered, TypeOK, Await, Return, Idle, provider, history
<1>1. ASSUME NEW l \in Logins, Start(l) PROVE TokensAside
  BY <1>1 DEF Start
<1>2. ASSUME NEW l \in Logins, NEW a, UserAnswers(l, a) PROVE TokensAside
  BY <1>2 DEF UserAnswers
<1>3. ASSUME NEW c \in Callers, PopPkce(c) PROVE TokensAside
  BY <1>3 DEF PopPkce
<1>4. ASSUME NEW c \in Callers, UnlinkPkce(c) PROVE TokensAside
  BY <1>4 DEF UnlinkPkce
<1>5. ASSUME NEW c \in Callers, CodeNotGranted(c) PROVE TokensAside
  BY <1>5 DEF CodeNotGranted
<1>6. ASSUME NEW c \in Callers, NEW l \in Logins, Callback(c, l) \/ Poll(c, l) PROVE TokensAside
  BY <1>6 DEF Callback, Poll
<1>7. CASE FallDue \/ UNCHANGED vars
  BY <1>7 DEF FallDue, vars
<1> QED BY <1>1, <1>2, <1>3, <1>4, <1>5, <1>6, <1>7 DEF LoginStep

-----------------------------------------------------------------------------
(* Refresh tokens.                                                          *)

Accounted == live \cup lost \cup shared

(* An engine's lock lets one of its callers refresh at a time. *)
OnePerEngine == \A c, d \in Refreshing : c # d => EngineOf[c] # EngineOf[d]

(* A token that two callers have in hand is noted as shared. *)
HeldTwice ==
  \A c, d \in Callers :
    InHand(c) /\ InHand(d) /\ c # d /\ thread[c].held = thread[d].held => thread[c].held \in shared

(* An answer that is not stored yet is known to one caller only. *)
Unstored ==
  \A c \in Callers : Answered(c) =>
    /\ row # NoRow => row.refresh # thread[c].got
    /\ \A d \in Callers : InHand(d) => thread[d].held # thread[c].got
    /\ \A d \in Callers : Answered(d) /\ c # d => thread[d].got # thread[c].got

(* The provider honours what a caller is about to present or to store, or it is accounted for. *)
HandsAccounted ==
  \A c \in Callers :
    /\ thread[c].pc = "refreshing" => thread[c].held \in Accounted
    /\ thread[c].pc = "refreshed" => /\ thread[c].refresh \in {thread[c].held, thread[c].got}
                                     /\ thread[c].refresh \in Accounted
    /\ thread[c].pc = "storing" => thread[c].got \in live

(* So it does with the row's, unless its successor is on the way to the row. *)
Replaced == \E c \in Callers : thread[c].pc = "refreshed" /\ thread[c].held = row.refresh
RowAccounted == row # NoRow /\ row.refresh # NoToken => row.refresh \in Accounted \/ Replaced

RefreshInv ==
  OnePerEngine /\ HeldTwice /\ Unstored /\ HandsAccounted /\ RowAccounted /\ RefusalsExplained

LEMMA RefreshInvInit == Init => RefreshInv
  BY DEF Init, RefreshInv, OnePerEngine, HeldTwice, Unstored, HandsAccounted, RowAccounted,
         RefusalsExplained, Refreshing, InHand, Answered, Idle, NoRow

LEMMA RefreshAside == TypeOK /\ RefreshInv /\ TokensAside => RefreshInv'
<1> SUFFICES ASSUME TypeOK, RefreshInv, TokensAside PROVE RefreshInv'
  OBVIOUS
<1> USE DEF RefreshInv, TokensAside
<1>1. \A c \in Callers : /\ InHand(c)' <=> InHand(c)
                         /\ Answered(c)' <=> Answered(c)
                         /\ c \in Refreshing' <=> c \in Refreshing
                         /\ thread[c].pc = "refreshed" <=> thread'[c].pc = "refreshed"
  BY DEF Busy, InHand, Answered, Refreshing
<1>2. OnePerEngine'
  BY <1>1 DEF OnePerEngine, Refreshing
<1>3. HeldTwice'
  BY <1>1 DEF HeldTwice, Busy
<1>4. Unstored'
  BY <1>1 DEF Unstored, Busy, NoRow
<1>5. HandsAccounted'
  BY DEF HandsAccounted, Busy, InHand, Answered, Accounted
<1>6. RowAccounted'
  BY <1>1 DEF RowAccounted, Replaced, Busy, InHand, Accounted, NoRow
<1>7. RefusalsExplained'
  BY DEF RefusalsExplained
<1> QED BY <1>2, <1>3, <1>4, <1>5, <1>6, <1>7

LEMMA RefreshInvStep == TypeOK /\ RefreshInv /\ [Next]_vars => RefreshInv'
<1> SUFFICES ASSUME TypeOK, RefreshInv, [Next]_vars PROVE RefreshInv'
  OBVIOUS
<1>a. CASE LoginStep \/ UNCHANGED vars
  BY <1>a, LoginsLeaveTokens, RefreshAside
<1> USE EngineAssumption DEF RefreshInv, InHand, Answered, Accounted, OnePerEngine, HeldTwice, Unstored,
        HandsAccounted, RowAccounted, Replaced, RefusalsExplained, Refreshing,
        TypeOK, Await, Return, New, Grants, Idle, NoRow, NoToken, Tokens, provider, history
<1>1. ASSUME NEW c \in Callers, GetValidToken(c) PROVE RefreshInv'
  BY <1>1 DEF GetValidToken, LockFree
<1>2. ASSUME NEW c \in Callers, NEW rotates \in BOOLEAN, RefreshGranted(c, rotates)
      PROVE  RefreshInv'
  <2> DEFINE r == thread[c].held
  <2>1. thread[c].pc = "refreshing" /\ r \in 1 .. issued /\ r \in live /\ New \notin 1 .. issued
    BY <1>2 DEF RefreshGranted, Honoured
  <2>2. \A d \in Callers \ {c} : thread'[d] = thread[d]
    BY <1>2 DEF RefreshGranted
  <2>3. \/ /\ thread'[c].pc = "refreshed" /\ thread'[c].held = r /\ thread'[c].got = New
           /\ thread'[c].refresh \in {r, New}
           /\ thread'[c].refresh = r => rotates = FALSE
        \/ thread'[c].pc = "idle"
    BY <1>2 DEF RefreshGranted
  <2>4. \/ live' = live
        \/ live' = (live \ {r}) \cup {New} /\ (r \in lost' \/ thread'[c].pc = "refreshed")
    BY <1>2 DEF RefreshGranted
  <2>5. UNCHANGED <<row, shared, refused>> /\ lost \subseteq lost'
    BY <1>2 DEF RefreshGranted
  <2>6. OnePerEngine' /\ HeldTwice'
    BY <2>1, <2>2, <2>3, <2>5
  <2>7. Unstored'
    BY <2>1, <2>2, <2>3, <2>5
  <2>8. HandsAccounted'
    BY <1>2, <2>1, <2>2, <2>5 DEF RefreshGranted
  <2>9. RowAccounted' /\ RefusalsExplained'
    BY <2>1, <2>2, <2>3, <2>4, <2>5
  <2> QED BY <2>6, <2>7, <2>8, <2>9
<1>3. ASSUME NEW c \in Callers, RefreshUnsent(c) PROVE RefreshInv'
  BY <1>3 DEF RefreshUnsent
<1>4. ASSUME NEW c \in Callers, RefreshRefused(c) PROVE RefreshInv'
  BY <1>4 DEF RefreshRefused, Honoured
<1>5. ASSUME NEW c \in Callers, StoreRefreshed(c) PROVE RefreshInv'
  BY <1>5 DEF StoreRefreshed, Upsert
<1>6. ASSUME NEW c \in Callers, Flag(c) PROVE RefreshInv'
  BY <1>6 DEF Flag, Demoted
<1>7. ASSUME NEW c \in Callers, CodeGranted(c) PROVE RefreshInv'
  <2>1. \A d \in Callers \ {c} : thread'[d] = thread[d]
    BY <1>7 DEF CodeGranted
  <2>2. thread[c].pc = "presenting"
    BY <1>7 DEF CodeGranted
  <2>3. \/ thread'[c].pc = "idle"
        \/ thread'[c].pc = "storing" /\ thread'[c].got = New
    BY <1>7 DEF CodeGranted
  <2>4. live' = live \cup {New} /\ UNCHANGED <<row, lost, shared, refused>> /\ New \notin 1 .. issued
    BY <1>7 DEF CodeGranted
  <2>5. OnePerEngine' /\ HeldTwice' /\ Unstored'
    BY <2>1, <2>2, <2>3, <2>4
  <2>6. HandsAccounted' /\ RowAccounted' /\ RefusalsExplained'
    BY <2>1, <2>2, <2>3, <2>4
  <2> QED BY <2>5, <2>6
<1>8. ASSUME NEW c \in Callers, StoreLogin(c) PROVE RefreshInv'
  BY <1>8 DEF StoreLogin, Upsert
<1>9. ASSUME NEW c \in Callers, ImportGhCli(c) PROVE RefreshInv'
  BY <1>9 DEF ImportGhCli, Upsert
<1>10. ASSUME NEW c \in Callers, Revoke(c) PROVE RefreshInv'
  BY <1>10 DEF Revoke
<1>11. CASE Restart
  BY <1>11 DEF Restart
<1> QED BY <1>a, <1>1, <1>2, <1>3, <1>4, <1>5, <1>6, <1>7, <1>8, <1>9, <1>10, <1>11
        DEF Next, LoginStep

(* The provider refuses a refresh token only if the answer that replaced it was lost or
   two engines had it in hand together. *)
THEOREM EngineRefusalsExplained == Spec => []RefusalsExplained
<1>1. Init => TypeOK /\ RefreshInv
  BY TypeInit, RefreshInvInit
<1>2. (TypeOK /\ RefreshInv) /\ [Next]_vars => (TypeOK /\ RefreshInv)'
  BY TypeStep, RefreshInvStep
<1>3. RefreshInv => RefusalsExplained
  BY DEF RefreshInv
<1> QED BY <1>1, <1>2, <1>3, PTL DEF Spec

-----------------------------------------------------------------------------
(* Whose connection it is.                                                  *)

(* Tokens that belong together descend from one login or import. *)
Lineage ==
  /\ origin \in [Tokens -> Tokens]
  /\ row # NoRow /\ row.refresh # NoToken => origin[row.refresh] = origin[row.access]
  /\ \A c \in Callers :
       /\ thread[c].pc = "refreshed" => origin[thread[c].got] = origin[thread[c].held]
       /\ thread[c].pc = "storing" => origin[thread[c].got] = thread[c].got

(* If nobody was refreshing when the last word was said, who refreshes now found it. *)
RefreshesWhatStands ==
  ~word.straddled => \A c \in Refreshing : /\ word.left # NoToken /\ row # NoRow
                                           /\ InHand(c) => origin[thread[c].held] = word.left

WordInv == Lineage /\ RefreshesWhatStands /\ LastWordStands

LEMMA WordInvInit == Init => WordInv
  BY EngineAssumption
     DEF Init, WordInv, Lineage, RefreshesWhatStands, LastWordStands, Refreshing, Idle, Tokens, NoToken

LEMMA WordAside == TypeOK /\ WordInv /\ TokensAside => WordInv'
<1> SUFFICES ASSUME TypeOK, WordInv, TokensAside PROVE WordInv'
  OBVIOUS
<1> USE DEF WordInv, TokensAside
<1>1. Lineage'
  BY DEF Lineage, Busy, InHand, Answered, NoRow
<1>2. RefreshesWhatStands'
  BY DEF RefreshesWhatStands, Refreshing, Busy, InHand, NoRow
<1>3. LastWordStands'
  BY DEF LastWordStands, NoRow
<1> QED BY <1>1, <1>2, <1>3

(* The provider's answer has a new number: what was granted before keeps its origin. *)
LEMMA OriginsKept ==
  ASSUME TypeOK, origin \in [Tokens -> Tokens], NEW root \in Tokens, NEW honoured, Grants(root, honoured)
  PROVE  /\ origin' \in [Tokens -> Tokens] /\ New \in Tokens /\ origin'[New] = root
         /\ \A n \in 1 .. issued : n \in Tokens /\ origin'[n] = origin[n]
  BY EngineAssumption DEF TypeOK, Grants, New, Tokens

LEMMA WordInvStep == TypeOK /\ RefreshInv /\ WordInv /\ [Next]_vars => WordInv'
<1> SUFFICES ASSUME TypeOK, RefreshInv, WordInv, [Next]_vars PROVE WordInv'
  OBVIOUS
<1>a. CASE LoginStep \/ UNCHANGED vars
  BY <1>a, LoginsLeaveTokens, WordAside
<1> USE EngineAssumption DEF WordInv, Lineage, RefreshesWhatStands, LastWordStands, Refreshing, InHand,
        TypeOK, Await, Return, Idle, NoRow, NoToken, provider, history
<1>1. ASSUME NEW c \in Callers, GetValidToken(c) PROVE WordInv'
  BY <1>1 DEF GetValidToken
<1>2. ASSUME NEW c \in Callers, NEW rotates \in BOOLEAN, RefreshGranted(c, rotates)
      PROVE  WordInv'
  <2>1. thread[c].pc = "refreshing" /\ thread[c].held \in Tokens
    BY <1>2 DEF RefreshGranted, Tokens
  <2>2. /\ origin' \in [Tokens -> Tokens] /\ New \in Tokens /\ origin'[New] = origin[thread[c].held]
        /\ \A n \in 1 .. issued : n \in Tokens /\ origin'[n] = origin[n]
    BY <1>2, <2>1, OriginsKept DEF RefreshGranted
  <2>3. \A d \in Callers \ {c} : thread'[d] = thread[d]
    BY <1>2 DEF RefreshGranted
  <2>4. \/ thread'[c].pc = "idle"
        \/ thread'[c].pc = "refreshed" /\ thread'[c].held = thread[c].held /\ thread'[c].got = New
    BY <1>2 DEF RefreshGranted
  <2>5. UNCHANGED <<row, word>>
    BY <1>2 DEF RefreshGranted
  <2>6. Lineage'
    BY <2>1, <2>2, <2>3, <2>4, <2>5
  <2>7. RefreshesWhatStands' /\ LastWordStands'
    BY <2>1, <2>2, <2>3, <2>4, <2>5
  <2> QED BY <2>6, <2>7
<1>3. ASSUME NEW c \in Callers, RefreshUnsent(c) PROVE WordInv'
  BY <1>3 DEF RefreshUnsent
<1>4. ASSUME NEW c \in Callers, RefreshRefused(c) PROVE WordInv'
  BY <1>4 DEF RefreshRefused
<1>5. ASSUME NEW c \in Callers, StoreRefreshed(c) PROVE WordInv'
  BY <1>5 DEF StoreRefreshed, Upsert, RefreshInv, HandsAccounted
<1>6. ASSUME NEW c \in Callers, Flag(c) PROVE WordInv'
  BY <1>6 DEF Flag, Demoted
<1>7. ASSUME NEW c \in Callers, CodeGranted(c) PROVE WordInv'
  <2>1. thread[c].pc = "presenting" /\ New \in Tokens
    BY <1>7 DEF CodeGranted, Grants, New, Tokens
  <2>2. /\ origin' \in [Tokens -> Tokens] /\ origin'[New] = New
        /\ \A n \in 1 .. issued : n \in Tokens /\ origin'[n] = origin[n]
    BY <1>7, <2>1, OriginsKept DEF CodeGranted
  <2>3. \A d \in Callers \ {c} : thread'[d] = thread[d]
    BY <1>7 DEF CodeGranted
  <2>4. \/ thread'[c].pc = "idle"
        \/ thread'[c].pc = "storing" /\ thread'[c].got = New
    BY <1>7 DEF CodeGranted
  <2>5. UNCHANGED <<row, word>>
    BY <1>7 DEF CodeGranted
  <2>6. Lineage'
    BY <2>1, <2>2, <2>3, <2>4, <2>5
  <2>7. RefreshesWhatStands' /\ LastWordStands'
    BY <2>1, <2>2, <2>3, <2>4, <2>5
  <2> QED BY <2>6, <2>7
<1>8. ASSUME NEW c \in Callers, StoreLogin(c) PROVE WordInv'
  <2>1. Lineage'
    BY <1>8 DEF StoreLogin, Upsert
  <2>2. RefreshesWhatStands'
    BY <1>8 DEF StoreLogin, Upsert, Says
  <2>3. LastWordStands'
    BY <1>8 DEF StoreLogin, Upsert, Says
  <2> QED BY <2>1, <2>2, <2>3
<1>9. ASSUME NEW c \in Callers, ImportGhCli(c) PROVE WordInv'
  <2>1. New \in Tokens
    BY <1>9 DEF ImportGhCli, Grants, New, Tokens
  <2>2. /\ origin' \in [Tokens -> Tokens] /\ origin'[New] = New
        /\ \A n \in 1 .. issued : n \in Tokens /\ origin'[n] = origin[n]
    BY <1>9, <2>1, OriginsKept DEF ImportGhCli
  <2>3. UNCHANGED thread /\ row' = [status |-> "ACTIVE", access |-> New, refresh |-> 0]
    BY <1>9 DEF ImportGhCli, Upsert
  <2>4. word' = [left |-> New, straddled |-> Refreshing # {}] /\ New # 0
    BY <1>9, <2>1 DEF ImportGhCli, Says, Tokens
  <2>5. Lineage'
    BY <2>2, <2>3
  <2>6. RefreshesWhatStands' /\ LastWordStands'
    BY <2>2, <2>3, <2>4
  <2> QED BY <2>5, <2>6
<1>10. ASSUME NEW c \in Callers, Revoke(c) PROVE WordInv'
  BY <1>10 DEF Revoke, Says
<1>11. CASE Restart
  BY <1>11 DEF Restart
<1> QED BY <1>a, <1>1, <1>2, <1>3, <1>4, <1>5, <1>6, <1>7, <1>8, <1>9, <1>10, <1>11
        DEF Next, LoginStep

(* The row belongs to the last login or import, and after a revocation there is none,
   unless a refresh was under way when it came. *)
THEOREM EngineLastWordStands == Spec => []LastWordStands
<1> DEFINE Inv == TypeOK /\ RefreshInv /\ WordInv
<1>1. Init => Inv
  BY TypeInit, RefreshInvInit, WordInvInit
<1>2. Inv /\ [Next]_vars => Inv'
  BY TypeStep, RefreshInvStep, WordInvStep
<1>3. Inv => LastWordStands
  BY DEF WordInv
<1> QED BY <1>1, <1>2, <1>3, PTL DEF Spec

-----------------------------------------------------------------------------
(* Callbacks.                                                               *)

Returning(c, l) == Coming(c) /\ thread[c].login = l
Carries(c, l)   == thread[c].pc \in {"unlinking", "presenting"} /\ thread[c].login = l

(* An engine handles the callback of a login once; two callers that have read one file belong
   to different engines and are noted; a code that was presented, or is about to be, has no
   file any more, and its login cannot start again. *)
CallbackInv ==
  /\ presented \in [Logins -> Nat]
  /\ \A l \in Browser :
       /\ \A c \in Callers :
            Returning(c, l) => l \in used[EngineOf[c]] /\ code[l] \in {"granted", "spent"}
       /\ \A c, d \in Callers : Returning(c, l) /\ Returning(d, l) /\ c # d => EngineOf[c] # EngineOf[d]
       /\ \A c, d \in Callers : Carries(c, l) /\ Carries(d, l) /\ c # d => l \in raced
       /\ \A c \in Callers : Carries(c, l) /\ thread[c].pc = "presenting" => l \notin pending
       /\ presented[l] > 0 => l \notin pending /\ code[l] \in {"granted", "spent"}
       /\ \A c \in Callers : Carries(c, l) /\ presented[l] > 0 => l \in raced
       /\ presented[l] > 1 => l \in raced

(* Tokens are refreshed, stored and revoked beside the logins. *)
LoginsAside ==
  /\ UNCHANGED <<pending, used, code, presented, raced>>
  /\ \A c \in Callers : Coming(c) \/ Coming(c)' => thread'[c] = thread[c]

TokenStep == \/ \E c \in Callers : \/ GetValidToken(c) \/ RefreshUnsent(c) \/ RefreshRefused(c)
                                   \/ StoreRefreshed(c) \/ Flag(c)
                                   \/ StoreLogin(c) \/ ImportGhCli(c) \/ Revoke(c)
             \/ \E c \in Callers, rotates \in BOOLEAN : RefreshGranted(c, rotates)
             \/ FallDue

LEMMA TokensLeaveLogins == TypeOK /\ (TokenStep \/ UNCHANGED vars) => LoginsAside
<1> SUFFICES ASSUME TypeOK, TokenStep \/ UNCHANGED vars PROVE LoginsAside
  OBVIOUS
<1> USE DEF LoginsAside, Coming, TypeOK, Await, Return, Idle, provider, history
<1>1. ASSUME NEW c \in Callers, GetValidToken(c) PROVE LoginsAside
  BY <1>1 DEF GetValidToken
<1>2. ASSUME NEW c \in Callers, RefreshUnsent(c) \/ RefreshRefused(c) PROVE LoginsAside
  BY <1>2 DEF RefreshUnsent, RefreshRefused
<1>3. ASSUME NEW c \in Callers, StoreRefreshed(c) \/ Flag(c) \/ StoreLogin(c) PROVE LoginsAside
  BY <1>3 DEF StoreRefreshed, Flag, StoreLogin
<1>4. ASSUME NEW c \in Callers, ImportGhCli(c) \/ Revoke(c) PROVE LoginsAside
  BY <1>4 DEF ImportGhCli, Revoke
<1>5. ASSUME NEW c \in Callers, NEW rotates \in BOOLEAN, RefreshGranted(c, rotates) PROVE LoginsAside
  BY <1>5 DEF RefreshGranted
<1>6. CASE FallDue \/ UNCHANGED vars
  BY <1>6 DEF FallDue, vars
<1> QED BY <1>1, <1>2, <1>3, <1>4, <1>5, <1>6 DEF TokenStep

LEMMA CallbackAside == TypeOK /\ CallbackInv /\ LoginsAside => CallbackInv'
<1> SUFFICES ASSUME TypeOK, CallbackInv, LoginsAside PROVE CallbackInv'
  OBVIOUS
<1>1. \A c \in Callers, l \in Browser : /\ Returning(c, l)' <=> Returning(c, l)
                                        /\ Carries(c, l)' <=> Carries(c, l)
                                        /\ Carries(c, l) => thread'[c] = thread[c]
  BY DEF LoginsAside, Returning, Carries, Coming
<1> QED BY <1>1 DEF CallbackInv, LoginsAside

LEMMA CallbackInvStep == TypeOK /\ CallbackInv /\ [Next]_vars => CallbackInv'
<1> SUFFICES ASSUME TypeOK, CallbackInv, [Next]_vars PROVE CallbackInv'
  OBVIOUS
<1>a. CASE TokenStep \/ UNCHANGED vars
  BY <1>a, TokensLeaveLogins, CallbackAside
<1> USE EngineAssumption DEF CallbackInv, Carries, Returning, Coming, TypeOK, Await, Return, Idle, Logins,
        provider, history
<1>1. ASSUME NEW l \in Logins, Start(l) PROVE CallbackInv'
  BY <1>1 DEF Start
<1>2. ASSUME NEW l \in Logins, NEW a \in {"granted", "denied"}, UserAnswers(l, a) PROVE CallbackInv'
  BY <1>2 DEF UserAnswers
<1>3. ASSUME NEW c \in Callers, PopPkce(c) PROVE CallbackInv'
  <2>1. \A d \in Callers \ {c} : thread'[d] = thread[d]
    BY <1>3 DEF PopPkce
  <2>2. thread[c].pc = "popping" /\ UNCHANGED <<used, pending, code, presented>>
    BY <1>3 DEF PopPkce
  <2>3. \/ thread'[c].pc = "idle" /\ UNCHANGED raced
        \/ /\ thread'[c].pc = "unlinking" /\ thread'[c].login = thread[c].login
           /\ thread[c].login \in pending
           /\ raced \subseteq raced'
           /\ HeldElsewhere(c, thread[c].login) => thread[c].login \in raced'
    BY <1>3 DEF PopPkce
  <2> QED BY <2>1, <2>2, <2>3 DEF HeldElsewhere
<1>4. ASSUME NEW c \in Callers, UnlinkPkce(c) PROVE CallbackInv'
  BY <1>4 DEF UnlinkPkce, Unlinked
<1>5. ASSUME NEW c \in Callers, CodeGranted(c) PROVE CallbackInv'
  <2> DEFINE l == thread[c].login
  <2>1. \A d \in Callers \ {c} : thread'[d] = thread[d]
    BY <1>5 DEF CodeGranted
  <2>2. thread[c].pc = "presenting" /\ l \in Logins /\ ~Coming(c)'
    BY <1>5 DEF CodeGranted
  <2>3. /\ code' = [code EXCEPT ![l] = "spent"] /\ presented' = [presented EXCEPT ![l] = @ + 1]
        /\ pending' \subseteq pending /\ UNCHANGED <<used, raced>>
    BY <1>5 DEF CodeGranted
  <2> QED BY <2>1, <2>2, <2>3
<1>6. ASSUME NEW c \in Callers, CodeNotGranted(c) PROVE CallbackInv'
  BY <1>6 DEF CodeNotGranted
<1>7. ASSUME NEW c \in Callers, NEW l \in Logins, Callback(c, l) PROVE CallbackInv'
  BY <1>7 DEF Callback, Fresh
<1>8. ASSUME NEW c \in Callers, NEW l \in Logins, Poll(c, l) PROVE CallbackInv'
  BY <1>8 DEF Poll
<1>9. CASE Restart
  BY <1>9 DEF Restart
<1> QED BY <1>a, <1>1, <1>2, <1>3, <1>4, <1>5, <1>6, <1>7, <1>8, <1>9 DEF Next, TokenStep

(* A callback that arrives again, after a restart too, has its code presented again only if two
   engines had read the login's file before either removed it. *)
THEOREM EngineCodePresentedOnce == Spec => []CodePresentedOnce
<1>1. Init => TypeOK /\ CallbackInv
  <2>1. Init => CallbackInv
    BY DEF Init, CallbackInv, Carries, Returning, Coming, Idle, Logins
  <2> QED BY <2>1, TypeInit
<1>2. (TypeOK /\ CallbackInv) /\ [Next]_vars => (TypeOK /\ CallbackInv)'
  BY TypeStep, CallbackInvStep
<1>3. CallbackInv => CodePresentedOnce
  BY DEF CallbackInv, CodePresentedOnce
<1> QED BY <1>1, <1>2, <1>3, PTL DEF Spec
=============================================================================
