----------------------------- MODULE TokenEngine -----------------------------
(***************************************************************************)
(* The OAuth token engine (connectors/auth_engine.py): logins that store a *)
(* connection's tokens, and get_valid_token(), which refreshes them before *)
(* they expire.  Every console request makes an engine of its own on one   *)
(* database and one directory of pending logins.  An engine's lock covers  *)
(* a refresh from the read of the row to its write; logins, imports and    *)
(* revocations take no lock at all.                                        *)
(*                                                                         *)
(* Locks and rows are per connection (an entity at a provider), so the     *)
(* module follows one.  Token n is what the provider's n-th answer grants: *)
(* an access token and, unless it keeps the old one, a refresh token.      *)
(***************************************************************************)
EXTENDS Naturals, FiniteSets

CONSTANTS
  Engines,     \* engine objects: one per console request, or one shared
  Callers,     \* threads that call into an engine
  EngineOf,    \* the engine a caller uses
  Browser,     \* logins that come back through the callback
  Device,      \* device logins, polled
  MaxTokens,   \* bound on the provider's answers
  MaxCrashes   \* bound on restarts

ASSUME EngineAssumption ==
  /\ EngineOf \in [Callers -> Engines]
  /\ Browser \cap Device = {}
  /\ {MaxTokens, MaxCrashes} \subseteq Nat

Logins  == Browser \cup Device
Tokens  == 1 .. MaxTokens
NoToken == 0

VARIABLES
  row,        \* the connection's row of integration_auth_tokens
  pending,    \* logins whose file is in connector_oauth
  used,       \* each engine's _used_nonces
  thread,     \* what each caller is in the middle of
  issued,     \* provider: answers so far
  live,       \* provider: refresh tokens it honours
  code,       \* provider: each login's code
  due,        \* access tokens within REFRESH_SKEW_SECONDS of their expiry
  origin,     \* history: the login or import a token descends from, by its token
  word,       \* history: what the last login, import or revocation left, and whether a
              \* refresh was under way then
  shared,     \* history: refresh tokens two engines had in hand together
  lost,       \* history: spent refresh tokens whose answer never reached the row
  refused,    \* history: refresh tokens the provider refused
  presented,  \* history: times each code was presented
  raced,      \* history: logins two engines picked up together
  crashes

provider == <<issued, live, code, origin>>
history  == <<word, shared, lost, refused, presented, raced>>
vars     == <<row, pending, used, thread, due, provider, history, crashes>>

NoRow == [status |-> "none"]
Idle  == [pc |-> "idle"]

TypeOK ==
  /\ row \in {NoRow} \cup [status : {"ACTIVE", "NEEDS_REAUTH"}, access : 1 .. issued,
                           refresh : {NoToken} \cup 1 .. issued]
  /\ pending \subseteq Logins /\ used \in [Engines -> SUBSET Browser]
  /\ thread \in [Callers ->
       {Idle} \cup [pc : {"refreshing"}, held : 1 .. issued]
              \cup [pc : {"flagging"}]
              \cup [pc : {"refreshed"}, held : 1 .. issued, got : 1 .. issued,
                    refresh : 1 .. issued]
              \cup [pc : {"popping", "unlinking", "presenting"}, login : Logins]
              \cup [pc : {"storing"}, login : Logins, got : 1 .. issued]]
  /\ issued \in 0 .. MaxTokens
  /\ live \cup due \cup shared \cup lost \cup refused \subseteq 1 .. issued
  /\ code \in [Logins -> {"none", "granted", "denied", "spent"}]
  /\ word \in [left : 0 .. issued, straddled : BOOLEAN]

Init ==
  /\ row = NoRow /\ pending = {} /\ used = [e \in Engines |-> {}]
  /\ thread = [c \in Callers |-> Idle]
  /\ issued = 0 /\ live = {} /\ code = [l \in Logins |-> "none"]
  /\ due = {} /\ origin = [n \in Tokens |-> n]
  /\ word = [left |-> NoToken, straddled |-> FALSE]
  /\ shared = {} /\ lost = {} /\ refused = {} /\ raced = {}
  /\ presented = [l \in Logins |-> 0]
  /\ crashes = 0

-----------------------------------------------------------------------------
(* The provider and the clock.                                              *)

Await(c, step) == thread' = [thread EXCEPT ![c] = step]
Return(c)      == Await(c, Idle)
New            == issued + 1

\* The provider answers with a new access token that descends from `root`.
Grants(root, honoured) ==
  /\ issued < MaxTokens
  /\ issued' = New
  /\ origin' = [origin EXCEPT ![New] = root]
  /\ live' = honoured

\* The user follows the authorize URL or enters the device code; "denied" is also a
\* login that has expired.
UserAnswers(l, answer) ==
  /\ l \in pending /\ code[l] = "none"
  /\ code' = [code EXCEPT ![l] = answer]
  /\ UNCHANGED <<row, pending, used, thread, due, issued, live, origin, history, crashes>>

\* expires_at comes within the skew.
FallDue ==
  /\ row # NoRow /\ row.access \notin due
  /\ due' = due \cup {row.access}
  /\ UNCHANGED <<row, pending, used, thread, provider, history, crashes>>

-----------------------------------------------------------------------------
(* AuthStore: each operation is one committed statement.                    *)

Refreshing == {c \in Callers : thread[c].pc \in {"refreshing", "refreshed", "flagging"}}

Kept(n, refresh)   ==                                 \* mutant: ON CONFLICT DO NOTHING
  row' = IF row = NoRow THEN [status |-> "ACTIVE", access |-> n, refresh |-> refresh] ELSE row
Upsert(n, refresh) == row' = [status |-> "ACTIVE", access |-> n, refresh |-> refresh]

\* A login, an import or a revocation has the last word, whoever is refreshing.
Says(n) == word' = [left |-> n, straddled |-> Refreshing # {}]

\* UPDATE ... SET status: whatever tokens the row holds by now.
Inserted == IF row = NoRow THEN [status |-> "NEEDS_REAUTH"]
            ELSE [row EXCEPT !.status = "NEEDS_REAUTH"]   \* mutant: an upsert
Demoted  == IF row = NoRow THEN NoRow ELSE [row EXCEPT !.status = "NEEDS_REAUTH"]

-----------------------------------------------------------------------------
(* get_valid_token().                                                       *)

NoLock(c)   == TRUE                                   \* mutant: refreshes of an engine overlap
LockFree(c) == \A d \in Refreshing : EngineOf[d] # EngineOf[c]

\* The row is read under the lock.  A fresh token is returned, a demoted or missing
\* connection raises; neither changes anything.
GetValidToken(c) ==
  /\ thread[c] = Idle /\ LockFree(c)
  /\ row # NoRow /\ row.status = "ACTIVE" /\ row.access \in due
  /\ Await(c, IF row.refresh = NoToken THEN [pc |-> "flagging"]
              ELSE [pc |-> "refreshing", held |-> row.refresh])
  /\ shared' = IF \E d \in Refreshing : /\ EngineOf[d] # EngineOf[c]
                                       /\ thread[d].pc # "flagging" /\ thread[d].held = row.refresh
               THEN shared \cup {row.refresh} ELSE shared
  /\ UNCHANGED <<row, pending, used, due, provider, word, lost, refused, presented, raced,
                 crashes>>

Honoured(r) == r \in live

\* The provider spends the old refresh token or keeps it, as it likes.
RefreshGranted(c, rotates) ==
  LET r == thread[c].held IN
  /\ thread[c].pc = "refreshing" /\ Honoured(r)
  /\ Grants(origin[r], IF rotates THEN (live \ {r}) \cup {New} ELSE live)
  /\ \/ /\ Await(c, [pc |-> "refreshed", held |-> r, got |-> New,
                     refresh |-> IF rotates THEN New ELSE r])
        /\ UNCHANGED lost
     \/ /\ Return(c)                          \* the answer is lost: unreachable, raises
        /\ lost' = IF rotates THEN lost \cup {r} ELSE lost
  /\ UNCHANGED <<row, pending, used, due, code, word, shared, refused, presented, raced,
                 crashes>>

\* The request itself is lost.
RefreshUnsent(c) ==
  /\ thread[c].pc = "refreshing"
  /\ Return(c)
  /\ UNCHANGED <<row, pending, used, due, provider, history, crashes>>

\* invalid_grant, which the provider does not give of its own accord.
RefreshRefused(c) ==
  /\ thread[c].pc = "refreshing" /\ ~Honoured(thread[c].held)
  /\ Await(c, [pc |-> "flagging"])
  /\ refused' = refused \cup {thread[c].held}
  /\ UNCHANGED <<row, pending, used, due, provider, word, shared, lost, presented, raced,
                 crashes>>

\* The row it read is not compared with the row it writes; a revoked one is inserted anew.
StoreRefreshed(c) ==
  /\ thread[c].pc = "refreshed"
  /\ Upsert(thread[c].got, thread[c].refresh)
  /\ Return(c)
  /\ UNCHANGED <<pending, used, due, provider, word, shared, lost, refused, presented, raced, crashes>>

Flag(c) ==
  /\ thread[c].pc = "flagging"
  /\ row' = Demoted
  /\ Return(c)
  /\ UNCHANGED <<pending, used, due, provider, history, crashes>>

-----------------------------------------------------------------------------
(* Logins.                                                                  *)

\* authorize_url() and start_device_login() leave a file behind.
Start(l) ==
  /\ l \notin pending /\ code[l] = "none"
  /\ pending' = pending \cup {l}
  /\ UNCHANGED <<row, used, thread, due, provider, history, crashes>>

Replayed(c, l) == TRUE                                \* mutant: nonces are not compared
Fresh(c, l)    == l \notin used[EngineOf[c]]

\* handle_callback(): the nonce is marked, then the file is read and removed.
Callback(c, l) ==
  /\ thread[c] = Idle /\ l \in Browser /\ code[l] \in {"granted", "spent"}
  /\ Fresh(c, l)
  /\ used' = [used EXCEPT ![EngineOf[c]] = @ \cup {l}]
  /\ Await(c, [pc |-> "popping", login |-> l])
  /\ UNCHANGED <<row, pending, due, provider, history, crashes>>

\* Some other engine has read the file of l and not yet presented its code.
HeldElsewhere(c, l) == \E d \in Callers : /\ EngineOf[d] # EngineOf[c]
                                          /\ thread[d].pc \in {"unlinking", "presenting"}
                                          /\ thread[d].login = l

PopPkce(c) ==
  /\ thread[c].pc = "popping"
  /\ LET l == thread[c].login IN
     IF l \in pending
     THEN /\ Await(c, [pc |-> "unlinking", login |-> l])
          /\ raced' = IF HeldElsewhere(c, l) THEN raced \cup {l} ELSE raced
     ELSE Return(c) /\ UNCHANGED raced
  /\ UNCHANGED <<row, pending, used, due, provider, word, shared, lost, refused, presented,
                 crashes>>

NotUnlinked(l) == pending                             \* mutant: the file stays
Unlinked(l) == pending \ {l}

UnlinkPkce(c) ==
  /\ thread[c].pc = "unlinking"
  /\ pending' = Unlinked(thread[c].login)
  /\ Await(c, [pc |-> "presenting", login |-> thread[c].login])
  /\ UNCHANGED <<row, used, due, provider, history, crashes>>

\* poll_device_login(): the file stays until the provider has answered.
Poll(c, l) ==
  /\ thread[c] = Idle /\ l \in Device \cap pending
  /\ Await(c, [pc |-> "presenting", login |-> l])
  /\ UNCHANGED <<row, pending, used, due, provider, history, crashes>>

\* A code is honoured once; the answer may be lost on the way.
CodeGranted(c) ==
  LET l == thread[c].login IN
  /\ thread[c].pc = "presenting" /\ code[l] = "granted"
  /\ Grants(New, live \cup {New})
  /\ code' = [code EXCEPT ![l] = "spent"]
  /\ presented' = [presented EXCEPT ![l] = @ + 1]
  /\ \/ Return(c) /\ UNCHANGED pending
     \/ /\ pending' = pending \ ({l} \cap Device)
        /\ Await(c, [pc |-> "storing", login |-> l, got |-> New])
  /\ UNCHANGED <<row, used, due, word, shared, lost, refused, raced, crashes>>

\* Not granted: still pending, or refused.  A denied device login loses its file.
CodeNotGranted(c) ==
  LET l == thread[c].login IN
  /\ thread[c].pc = "presenting" /\ code[l] # "granted"
  /\ pending' = IF l \in Device /\ code[l] = "denied" THEN pending \ {l} ELSE pending
  /\ presented' = [presented EXCEPT ![l] = IF l \in Browser THEN @ + 1 ELSE @]
  /\ Return(c)
  /\ UNCHANGED <<row, used, due, provider, word, shared, lost, refused, raced, crashes>>

\* _store_token(); the answer may have brought no refresh token.
StoreLogin(c) ==
  LET n == thread[c].got IN
  /\ thread[c].pc = "storing"
  /\ Says(n) /\ (Upsert(n, n) \/ Upsert(n, NoToken))
  /\ Return(c)
  /\ UNCHANGED <<pending, used, due, provider, shared, lost, refused, presented, raced,
                 crashes>>

\* import_gh_cli(): a token without a refresh token.
ImportGhCli(c) ==
  /\ thread[c] = Idle
  /\ Grants(New, live)
  /\ Upsert(New, NoToken) /\ Says(New)
  /\ UNCHANGED <<pending, used, thread, due, code, shared, lost, refused, presented, raced, crashes>>

Revoke(c) ==
  /\ thread[c] = Idle /\ row # NoRow
  /\ row' = NoRow /\ Says(NoToken)
  /\ UNCHANGED <<pending, used, thread, due, provider, shared, lost, refused, presented,
                 raced, crashes>>

\* A restart: locks, nonces and calls are gone, the row and the files stay.
Restart ==
  /\ crashes < MaxCrashes /\ crashes' = crashes + 1
  /\ thread' = [c \in Callers |-> Idle]
  /\ used' = [e \in Engines |-> {}]
  /\ lost' = lost \cup {thread[c].held : c \in {d \in Callers : thread[d].pc = "refreshed"}}
  /\ UNCHANGED <<row, pending, due, provider, word, shared, refused, presented, raced>>

Next ==
  \/ \E l \in Logins : Start(l) \/ UserAnswers(l, "granted") \/ UserAnswers(l, "denied")
  \/ \E c \in Callers : \/ GetValidToken(c) \/ RefreshUnsent(c) \/ RefreshRefused(c)
                        \/ StoreRefreshed(c) \/ Flag(c)
                        \/ PopPkce(c) \/ UnlinkPkce(c) \/ CodeGranted(c) \/ CodeNotGranted(c)
                        \/ StoreLogin(c) \/ ImportGhCli(c) \/ Revoke(c)
  \/ \E c \in Callers, rotates \in BOOLEAN : RefreshGranted(c, rotates)
  \/ \E c \in Callers, l \in Logins : Callback(c, l) \/ Poll(c, l)
  \/ FallDue \/ Restart

Spec == Init /\ [][Next]_vars

-----------------------------------------------------------------------------
\* get_valid_token() is single-flight, so the provider refuses a refresh token only
\* when the answer that replaced it was lost, or when two engines presented it: no
\* interleaving inside an engine, with logins, imports, revocations or restarts, does.
RefusalsExplained == refused \subseteq lost \cup shared

\* The row descends from the last login or import, and a revoked connection has none,
\* unless a refresh was under way at that moment.
LastWordStands ==
  word.straddled \/ IF word.left = NoToken THEN row = NoRow
                    ELSE row # NoRow /\ origin[row.access] = word.left

\* "OAuth state already used (replay blocked)": the code of a callback that arrives again,
\* after a restart too, reaches the provider once unless two engines read its file together.
CodePresentedOnce == \A l \in Browser : presented[l] > 1 => l \in raced
=============================================================================
