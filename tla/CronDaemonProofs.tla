--------------------------- MODULE CronDaemonProofs ---------------------------
(***************************************************************************)
(* What the always-on daemon promises, for any schedules, console          *)
(* requests, loops, webhooks and restarts: the variables keep their types, *)
(* the cron file holds what its last writer has in memory, also when saves *)
(* fail, a schedule runs once for each time it falls due, whatever becomes *)
(* of it, and a daemon that has stopped is quiet.                          *)
(***************************************************************************)
EXTENDS CronDaemon, TLAPS

-----------------------------------------------------------------------------
(* Types.                                                                   *)

Job   == {NoJob} \cup [state : {"on", "off"}, due : BOOLEAN]
Steps == {Gone, Idle, [pc |-> "check"], [pc |-> "wait"]}
         \cup [pc : {"tick", "unsaved"}, todo : SUBSET Jobs]
         \cup [pc : {"run"}, job : Jobs, todo : SUBSET Jobs]
         \cup [pc : {"saving"}, image : Saved, locked : BOOLEAN, todo : SUBSET Jobs, mixed : BOOLEAN]

Types ==
  /\ jobs \in [Schedulers -> [Jobs -> Job]]
  /\ file \in Saved \cup {Torn}
  /\ thread \in [Threads -> Steps]
  /\ \A c \in Console : thread[c] = Idle \/ thread[c].pc \in {"unsaved", "saving"}
  /\ \A l \in Loops : thread[l] # Idle
  /\ {running, gateway, pool, leftover} \subseteq BOOLEAN
  /\ current \in {0} \cup Loops
  /\ daemon \in {"new", "up", "failed", "joining", "draining", "stopped"}
  /\ hook \in [Hooks -> {"none", "queued", "running"}]
  /\ dues \in [Jobs -> Nat] /\ runs \in [Jobs -> Nat]
  /\ writer \in Schedulers \cup {"nobody"}

-----------------------------------------------------------------------------
(* The file.                                                                *)

\* Two saves that are under way together know it.
MixedSaves == \A t, u \in Threads : Saving(t) /\ Saving(u) /\ t # u => thread[t].mixed

\* A save that is alone writes what its scheduler has in memory, or another change of
\* that scheduler is still to be saved.
Unsaved(s) == \E t \in Threads : Of(t) = s /\ thread[t].pc = "unsaved"
SavesCurrent ==
  \A t \in Threads : Saving(t) /\ ~thread[t].mixed =>
    thread[t].image = Image(jobs[Of(t)]) \/ Unsaved(Of(t))

\* Between saves the file is what its last writer, where there is one, has in memory.
Faithful == writer # "nobody" =>
  file \in Saved /\ (~Busy(writer) => file = Image(jobs[writer]))

FileInv == MixedSaves /\ SavesCurrent /\ Faithful

-----------------------------------------------------------------------------
(* The loop.                                                                *)

\* Without leftovers there is one loop at most, the one stop() will join, and none but
\* while the daemon is up.
OneLoop == ~leftover => /\ Alive \subseteq {current} /\ daemon # "failed"
                        /\ daemon \notin {"up", "joining"} => Alive = {} /\ ~gateway

\* A closed pool holds no queued task, and none at all once the daemon has stopped.
PoolQuiet ==
  /\ ~pool => \A h \in Hooks : hook[h] # "queued"
  /\ daemon = "stopped" => ~pool /\ \A h \in Hooks : hook[h] # "running"

\* What waits to be run was not run for the time it fell due, though it may have been
\* disabled, enabled or removed since; nor was what is due and not being run.
IsDue(j)   == jobs["daemon"][j] # NoJob /\ jobs["daemon"][j].due
InRun(j)   == \E l \in Loops : thread[l].pc = "run" /\ thread[l].job = j
Waiting(j) == \E l \in Loops : /\ thread[l].pc \in {"tick", "run", "unsaved", "saving"}
                               /\ j \in thread[l].todo
RunsOwed ==
  ~leftover => \A j \in Jobs :
    /\ runs[j] <= dues[j]
    /\ Waiting(j) \/ (IsDue(j) /\ ~InRun(j)) => runs[j] < dues[j]

-----------------------------------------------------------------------------
(* How saves start.                                                         *)

(* A save that starts leaves the other threads where they are. *)
Beside(t) ==
  /\ thread' \in [Threads -> Steps]
  /\ Saving(t)' /\ ((\E u \in Threads \ {t} : Saving(u)) => thread'[t].mixed = TRUE)
  /\ \A u \in Threads \ {t} :
       \/ /\ Saving(u) /\ Saving(u)' /\ thread'[u].mixed = TRUE
          /\ thread'[u].image = thread[u].image /\ thread'[u].todo = thread[u].todo
       \/ ~Saving(u) /\ thread'[u] = thread[u]

LEMMA SaveStarts ==
  ASSUME thread \in [Threads -> Steps], NEW t \in Threads, NEW js, Image(js) \in Saved,
         NEW locked \in BOOLEAN, NEW todo \in SUBSET Jobs, StartSave(t, js, locked, todo)
  PROVE  Beside(t) /\ thread'[t].image = Image(js) /\ thread'[t].todo = todo
<1> DEFINE m == OthersSaving(t) # {}
<1>1. m \in BOOLEAN /\ ((\E u \in Threads \ {t} : Saving(u)) => m = TRUE)
  BY DEF OthersSaving
<1>2. thread'[t] = [pc |-> "saving", image |-> Image(js), locked |-> locked, todo |-> todo, mixed |-> m]
  BY DEF StartSave
<1> HIDE DEF m
<1>3. ASSUME NEW u \in Threads \ {t}
      PROVE  /\ thread'[u] \in Steps
             /\ \/ /\ Saving(u) /\ Saving(u)' /\ thread'[u].mixed = TRUE
                   /\ thread'[u].image = thread[u].image /\ thread'[u].todo = thread[u].todo
                \/ ~Saving(u) /\ thread'[u] = thread[u]
  <2>1. CASE Saving(u)
    <3>1. thread'[u] = [thread[u] EXCEPT !.mixed = TRUE]
      BY <2>1 DEF StartSave
    <3>2. thread[u] \in [pc : {"saving"}, image : Saved, locked : BOOLEAN, todo : SUBSET Jobs, mixed : BOOLEAN]
      BY <2>1 DEF Steps, Saving, Gone, Idle
    <3> QED BY <2>1, <3>1, <3>2 DEF Saving, Steps
  <2>2. CASE ~Saving(u)
    BY <2>2 DEF StartSave
  <2> QED BY <2>1, <2>2
<1>4. thread'[t] \in Steps
  BY <1>1, <1>2 DEF Steps
<1>5. thread' = [u \in Threads |-> thread'[u]]
  BY DEF StartSave
<1>6. thread' \in [Threads -> Steps]
  <2>1. \A u \in Threads : thread'[u] \in Steps
    BY <1>3, <1>4
  <2> QED BY <1>5, <2>1
<1>7. /\ Saving(t)' /\ thread'[t].image = Image(js) /\ thread'[t].todo = todo
      /\ (\E u \in Threads \ {t} : Saving(u)) => thread'[t].mixed = TRUE
  BY <1>1, <1>2 DEF Saving
<1> QED BY <1>3, <1>6, <1>7 DEF Beside

(* A change that begins to save itself; it makes no schedule due, and the other *)
(* scheduler's are not its.                                                      *)
LEMMA ChangesStart ==
  ASSUME Types, NEW c \in Console, NEW j \in Jobs, NEW to \in {"none", "on", "off"}, ChangeJob(c, j, to)
  PROVE  /\ Beside(c) /\ thread'[c].image = Image(jobs'[Of(c)]) /\ thread[c] = Idle
         /\ jobs' \in [Schedulers -> [Jobs -> Job]]
         /\ \A u \in Schedulers \ {Of(c)} : jobs'[u] = jobs[u]
         /\ \A k \in Jobs : IsDue(k)' => IsDue(k)
         /\ UNCHANGED <<file, service, made, dues, restarts, history>>
<1>1. PICK s \in Schedulers : s = Of(c)
  BY DEF Of, Schedulers
<1>2. jobs[s][j] \in Job /\ jobs[s][j] # NoJob /\ c \in Threads
  BY <1>1 DEF Types, ChangeJob, Threads
<1> DEFINE d == jobs[s][j].due /\ to = "off"
           new == IF to = "none" THEN NoJob ELSE [state |-> to, due |-> d]
<1>3. jobs' = [jobs EXCEPT ![s][j] = new]
  BY <1>1 DEF ChangeJob, Change
<1>4. d \in BOOLEAN
  OBVIOUS
<1>5. new \in Job /\ (new # NoJob /\ new.due => jobs[s][j].due)
  <2>1. CASE to = "none"
    BY <2>1 DEF Job
  <2>2. CASE to # "none"
    <3>1. new = [state |-> to, due |-> d] /\ (d => jobs[s][j].due)
      BY <2>2
    <3> HIDE DEF d, new
    <3> QED BY <1>4, <2>2, <3>1 DEF Job
  <2> QED BY <2>1, <2>2
<1> HIDE DEF new, d
<1>6. /\ jobs' \in [Schedulers -> [Jobs -> Job]] /\ \A u \in Schedulers \ {s} : jobs'[u] = jobs[u]
      /\ jobs'[s][j] = new /\ \A k \in Jobs \ {j} : jobs'[s][k] = jobs[s][k]
  BY <1>1, <1>3, <1>5 DEF Types
<1>7. Image(jobs'[s]) \in Saved
  BY <1>1, <1>6 DEF Image, Saved, Job, NoJob
<1>8. StartSave(c, jobs'[s], TRUE, {}) /\ thread[c] = Idle
  BY <1>1 DEF ChangeJob
<1>9. UNCHANGED <<file, service, made, dues, restarts, history>>
  BY DEF ChangeJob
<1>10. thread \in [Threads -> Steps]
  BY DEF Types
<1>12. \A k \in Jobs : IsDue(k)' => IsDue(k)
  <2>1. CASE s = "daemon"
    BY <1>2, <1>5, <1>6, <2>1 DEF IsDue
  <2>2. CASE s # "daemon"
    BY <1>6, <2>2 DEF IsDue, Schedulers
  <2> QED BY <2>1, <2>2
<1> HIDE DEF Beside
<1>11. Beside(c) /\ thread'[c].image = Image(jobs'[s])
  <2> DEFINE js == jobs'[s]
  <2>1. Image(js) \in Saved /\ StartSave(c, js, TRUE, {}) /\ {} \in SUBSET Jobs
    BY <1>7, <1>8
  <2> HIDE DEF js
  <2>2. Beside(c) /\ thread'[c].image = Image(js)
    BY <1>2, <1>10, <2>1, SaveStarts
  <2> QED BY <2>2 DEF js
<1> QED BY <1>1, <1>6, <1>8, <1>9, <1>11, <1>12

LEMMA BeginsStart ==
  ASSUME Types, NEW t \in Threads, BeginSave(t)
  PROVE  /\ Beside(t) /\ thread'[t].image = Image(jobs[Of(t)]) /\ thread'[t].todo = thread[t].todo
         /\ thread[t].pc = "unsaved"
         /\ UNCHANGED <<jobs, file, service, made, dues, restarts, history>>
<1>1. Image(jobs[Of(t)]) \in Saved
  BY DEF Image, Saved, Job, NoJob, Schedulers, Types, Of
<1>2. thread[t].pc = "unsaved" /\ thread[t].todo \in SUBSET Jobs
  BY DEF BeginSave, Types, Steps, Gone, Idle
<1>3. StartSave(t, jobs[Of(t)], FALSE, thread[t].todo)
  BY DEF BeginSave
<1>4. thread \in [Threads -> Steps]
  BY DEF Types
<1>5. UNCHANGED <<jobs, file, service, made, dues, restarts, history>>
  BY DEF BeginSave
<1> QED BY <1>1, <1>2, <1>3, <1>4, <1>5, SaveStarts

-----------------------------------------------------------------------------
(* Types.                                                                   *)

LEMMA StepInto ==
  ASSUME thread \in [Threads -> Steps], NEW t \in Threads, NEW step \in Steps, Await(t, step)
  PROVE  /\ thread' \in [Threads -> Steps] /\ thread'[t] = step
         /\ \A u \in Threads \ {t} : thread'[u] = thread[u]
BY DEF Await

LEMMA DueSet ==
  ASSUME Types, NEW j \in Jobs, jobs["daemon"][j] # NoJob, NEW due \in BOOLEAN,
         jobs' = [jobs EXCEPT !["daemon"][j].due = due]
  PROVE  /\ jobs' \in [Schedulers -> [Jobs -> Job]] /\ jobs'["console"] = jobs["console"]
         /\ jobs'["daemon"][j] = [state |-> jobs["daemon"][j].state, due |-> due]
         /\ jobs'["daemon"][j] # NoJob
         /\ \A k \in Jobs \ {j} : jobs'["daemon"][k] = jobs["daemon"][k]
         /\ \A s \in Schedulers : Image(jobs'[s]) = Image(jobs[s])
<1>1. jobs["daemon"][j] \in [state : {"on", "off"}, due : BOOLEAN]
  BY DEF Types, Schedulers, Job
<1>2. jobs'["daemon"] = [jobs["daemon"] EXCEPT ![j].due = due] /\ jobs'["console"] = jobs["console"]
  BY DEF Types, Schedulers
<1>3. /\ jobs'["daemon"][j] = [state |-> jobs["daemon"][j].state, due |-> due]
      /\ \A k \in Jobs \ {j} : jobs'["daemon"][k] = jobs["daemon"][k]
      /\ jobs'["daemon"] \in [Jobs -> Job]
  BY <1>1, <1>2 DEF Types, Schedulers, Job
<1>4. jobs' \in [Schedulers -> [Jobs -> Job]]
  BY <1>2, <1>3 DEF Types, Schedulers
<1>5. Image(jobs'["daemon"]) = Image(jobs["daemon"])
  BY <1>1, <1>3 DEF Image
<1>6. jobs'["daemon"][j] # NoJob
  BY <1>1, <1>3 DEF NoJob
<1> QED BY <1>2, <1>3, <1>4, <1>5, <1>6 DEF Schedulers

LEMMA RunEnds ==
  ASSUME Types, NEW l \in Loops, EndRun(l)
  PROVE  LET j == thread[l].job IN
         /\ j \in Jobs /\ thread[l].pc = "run"
         /\ jobs' \in [Schedulers -> [Jobs -> Job]]
         /\ jobs'["daemon"][j] = NoJob \/ jobs'["daemon"][j].due = FALSE
         /\ \A k \in Jobs \ {j} : jobs'["daemon"][k] = jobs["daemon"][k]
         /\ \A s \in Schedulers : Image(jobs'[s]) = Image(jobs[s])
         /\ Await(l, [pc |-> "unsaved", todo |-> thread[l].todo]) /\ thread[l].todo \in SUBSET Jobs
         /\ UNCHANGED <<file, service, made, dues, restarts, history>>
<1> DEFINE j == thread[l].job
<1>1. l \in Threads /\ thread[l].pc = "run" /\ j \in Jobs /\ thread[l].todo \in SUBSET Jobs
  BY DEF EndRun, Types, Steps, Gone, Idle, Threads
<1>2. Await(l, [pc |-> "unsaved", todo |-> thread[l].todo]) /\ jobs' = Rescheduled(j)
      /\ UNCHANGED <<file, service, made, dues, restarts, history>>
  BY DEF EndRun
<1> HIDE DEF j
<1>3. CASE jobs["daemon"][j] = NoJob
  BY <1>1, <1>2, <1>3 DEF Rescheduled, Types, j
<1>4. CASE jobs["daemon"][j] # NoJob
  <2>1. jobs' = [jobs EXCEPT !["daemon"][j].due = FALSE]
    BY <1>2, <1>4 DEF Rescheduled
  <2>2. /\ jobs' \in [Schedulers -> [Jobs -> Job]]
        /\ jobs'["daemon"][j] = [state |-> jobs["daemon"][j].state, due |-> FALSE]
        /\ \A k \in Jobs \ {j} : jobs'["daemon"][k] = jobs["daemon"][k]
        /\ \A s \in Schedulers : Image(jobs'[s]) = Image(jobs[s])
    BY <1>1, <1>4, <2>1, DueSet
  <2> QED BY <1>1, <1>2, <2>2 DEF j
<1> QED BY <1>3, <1>4

(* Every step keeps the types. *)
LEMMA TypesStep ==
  ASSUME Types, [Next]_vars PROVE Types'
<1>2. ASSUME NEW c \in Console, NEW j \in Jobs, NEW to \in {"none", "on", "off"}, ChangeJob(c, j, to) PROVE Types'
  <2>1. /\ \A u \in Threads \ {c} : thread'[u] = thread[u] \/ (Saving(u) /\ Saving(u)')
        /\ Saving(c)' /\ thread[c] = Idle
    BY <1>2, ChangesStart DEF Beside
  <2>2. UNCHANGED <<file, service, made, dues, restarts, history>>
    BY <1>2, ChangesStart
  <2>3. thread' \in [Threads -> Steps] /\ jobs' \in [Schedulers -> [Jobs -> Job]]
    BY <1>2, ChangesStart DEF Beside
  <2>4. /\ \A d \in Console : thread'[d] = Idle \/ thread'[d].pc \in {"unsaved", "saving"}
        /\ \A l \in Loops : thread'[l] # Idle
    BY <2>1, DaemonAssumption DEF Types, Saving, Threads, Idle
  <2> QED BY <2>2, <2>3, <2>4 DEF Types, service, history
<1>3. ASSUME NEW t \in Threads, BeginSave(t) PROVE Types'
  <2>1. /\ \A u \in Threads \ {t} : thread'[u] = thread[u] \/ (Saving(u) /\ Saving(u)')
        /\ Saving(t)'
    BY <1>3, BeginsStart DEF Beside
  <2>2. UNCHANGED <<jobs, file, service, made, dues, restarts, history>>
    BY <1>3, BeginsStart
  <2>3. thread' \in [Threads -> Steps]
    BY <1>3, BeginsStart DEF Beside
  <2> QED BY <2>1, <2>2, <2>3, DaemonAssumption DEF Types, service, history, Saving, Threads, Idle
<1>6. ASSUME NEW l \in Loops, EndRun(l) PROVE Types'
  <2>1. jobs' \in [Schedulers -> [Jobs -> Job]] /\ UNCHANGED <<file, service, made, dues, restarts, history>>
    BY <1>6, RunEnds
  <2>2. [pc |-> "unsaved", todo |-> thread[l].todo] \in Steps /\ Await(l, [pc |-> "unsaved", todo |-> thread[l].todo])
    BY <1>6, RunEnds DEF Steps
  <2>3. thread' \in [Threads -> Steps] /\ thread'[l].pc = "unsaved" /\ \A u \in Threads \ {l} : thread'[u] = thread[u]
    BY <2>2, StepInto DEF Types, Threads
  <2>4. /\ \A d \in Console : thread'[d] = Idle \/ thread'[d].pc \in {"unsaved", "saving"}
        /\ \A m \in Loops : thread'[m] # Idle
    BY <2>3, DaemonAssumption DEF Types, Threads, Idle
  <2> QED BY <2>1, <2>3, <2>4 DEF Types, service, history
<1>10. ASSUME NEW j \in Jobs, FallDue(j) PROVE Types'
  <2>1. jobs' \in [Schedulers -> [Jobs -> Job]] /\ dues' \in [Jobs -> Nat]
    <3>1. jobs' \in [Schedulers -> [Jobs -> Job]]
      BY <1>10, DueSet DEF FallDue
    <3> QED BY <1>10, <3>1 DEF FallDue, Types
  <2> QED BY <1>10, <2>1 DEF FallDue, Types, service, history
<1>5. ASSUME NEW l \in Loops, Check(l) PROVE Types'
  <2>1. Due("daemon") \subseteq Jobs
    BY DEF Due
  <2>2. thread' \in [Threads -> Steps] /\ thread'[l] # Idle /\ \A u \in Threads \ {l} : thread'[u] = thread[u]
    BY <1>5, <2>1 DEF Check, Await, Types, Steps, Threads, Gone, Idle
  <2> QED BY <1>5, <2>2, DaemonAssumption DEF Check, Types, service, history, Threads
<1> USE DaemonAssumption DEF Types, Job, Steps, Torn, service, history, Threads, Schedulers, Of, Gone, Idle, Quiet, Saved, NoJob, Saving, OthersSaving
<1>1. ASSUME NEW c \in Console, NEW j \in Jobs, NEW state \in {"on", "off"}, AddJob(c, j, state) PROVE Types'
  BY <1>1 DEF AddJob, Change, Await
<1>4. ASSUME NEW t \in Threads, NEW ok \in BOOLEAN, EndSave(t, ok) PROVE Types'
  BY <1>4 DEF EndSave, After, Await
<1>7. ASSUME NEW l \in Loops, EndTick(l) PROVE Types'
  BY <1>7 DEF EndTick, Await
<1>8. ASSUME NEW l \in Loops, Wake(l) PROVE Types'
  BY <1>8 DEF Wake, Await
<1>9. ASSUME NEW l \in Loops, NEW j \in Jobs, StartRun(l, j) PROVE Types'
  BY <1>9 DEF StartRun, Await
<1>11. ASSUME NEW bound \in BOOLEAN, StartDaemon(bound) PROVE Types'
  BY <1>11 DEF StartDaemon, Await
<1>12. CASE StopDaemon
  BY <1>12 DEF StopDaemon
<1>13. CASE EndJoin
  BY <1>13 DEF EndJoin, Joined
<1>14. CASE CloseThePool
  BY <1>14 DEF CloseThePool, Cancelled
<1>15. CASE EndStop
  BY <1>15 DEF EndStop, Drained
<1>16. ASSUME NEW h \in Hooks, Deliver(h) \/ RunHook(h) \/ EndHook(h) PROVE Types'
  BY <1>16 DEF Deliver, RunHook, EndHook, HookMoves
<1>17. CASE Restart
  BY <1>17 DEF Restart, Reloaded, Ended
<1>18. CASE RestartConsole
  BY <1>18 DEF RestartConsole, Reloaded, Ended
<1>19. CASE UNCHANGED vars
  BY <1>19 DEF vars
<1> HIDE DEF Types, Job, Steps, Torn, service, history, Threads, Schedulers, Of, Gone, Idle, Quiet, Saved, NoJob, Saving, OthersSaving
<1> QED BY <1>1, <1>2, <1>3, <1>4, <1>5, <1>6, <1>7, <1>8, <1>9, <1>10, <1>11, <1>12, <1>13, <1>14, <1>15, <1>16, <1>17, <1>18, <1>19 DEF Next, SaveOn, LoopOn

-----------------------------------------------------------------------------
(* The file.                                                                *)

(* Most steps leave the file, what is saved into it and who is saving alone. *)
InSave(t) == thread[t].pc \in {"unsaved", "saving"}

Quietly ==
  /\ \A t \in Threads : thread'[t] = thread[t] \/ (~InSave(t) /\ ~InSave(t)')
  /\ \A s \in Schedulers : Image(jobs'[s]) = Image(jobs[s])
  /\ UNCHANGED <<file, writer>>

LEMMA QuietLoop ==
  ASSUME Types, NEW l \in Loops,
         Check(l) \/ EndTick(l) \/ Wake(l) \/ \E j \in Jobs : StartRun(l, j)
  PROVE  Quietly
BY DEF Types, Check, EndTick, Wake, StartRun, Await, Quietly, InSave, Gone, history, Threads

LEMMA QuietDaemon ==
  ASSUME Types,
         \/ \E bound \in BOOLEAN : StartDaemon(bound)
         \/ StopDaemon \/ EndJoin \/ CloseThePool \/ EndStop \/ UNCHANGED vars
         \/ \E h \in Hooks : Deliver(h) \/ RunHook(h) \/ EndHook(h)
  PROVE  Quietly
<1>1. ASSUME NEW bound \in BOOLEAN, StartDaemon(bound) PROVE Quietly
  BY <1>1 DEF StartDaemon, Types, Alive, Await, Quietly, InSave, Gone, Threads
<1>2. CASE StopDaemon \/ EndJoin \/ CloseThePool \/ EndStop \/ UNCHANGED vars
  BY <1>2 DEF StopDaemon, EndJoin, CloseThePool, EndStop, Quietly, history, vars
<1>3. ASSUME NEW h \in Hooks, Deliver(h) \/ RunHook(h) \/ EndHook(h) PROVE Quietly
  BY <1>3 DEF Deliver, RunHook, EndHook, HookMoves, Quietly, history
<1> QED BY <1>1, <1>2, <1>3

LEMMA QuietDue ==
  ASSUME Types, NEW j \in Jobs, FallDue(j) PROVE Quietly
BY DueSet DEF FallDue, Quietly, history

(* A scheduler made anew has the file's schedules, and no thread of it saves. *)
Anew(s) ==
  /\ \A t \in Threads : IF Of(t) = s THEN ~InSave(t)' ELSE thread'[t] = thread[t]
  /\ \A u \in Schedulers \ {s} : jobs'[u] = jobs[u]
  /\ file \in Saved => Image(jobs'[s]) = file
  /\ UNCHANGED <<file, writer>>

LEMMA RestartsAnew ==
  ASSUME Types PROVE (Restart => Anew("daemon")) /\ (RestartConsole => Anew("console"))
<1>1. file \in Saved => Image(Reloaded) = file
  <2> SUFFICES ASSUME file \in Saved PROVE Image(Reloaded) = file
    OBVIOUS
  <2>1. \A j \in Jobs : Reloaded[j].state = file[j]
    BY DEF Reloaded, Saved, Torn, NoJob
  <2> QED BY <2>1 DEF Image, Saved
<1>2. ASSUME Restart PROVE Anew("daemon")
  <2>1. \A t \in Threads : IF Of(t) = "daemon" THEN ~InSave(t)' ELSE thread'[t] = thread[t]
    BY <1>2 DEF Restart, Ended, InSave, Gone, Idle
  <2>2. jobs'["daemon"] = Reloaded /\ jobs'["console"] = jobs["console"] /\ UNCHANGED <<file, writer>>
    BY <1>2 DEF Restart, Types, Schedulers, history
  <2> QED BY <1>1, <2>1, <2>2 DEF Anew, Schedulers
<1>3. ASSUME RestartConsole PROVE Anew("console")
  <2>1. \A t \in Threads : IF Of(t) = "console" THEN ~InSave(t)' ELSE thread'[t] = thread[t]
    BY <1>3 DEF RestartConsole, Ended, InSave, Gone, Idle
  <2>2. jobs'["console"] = Reloaded /\ jobs'["daemon"] = jobs["daemon"] /\ UNCHANGED <<file, writer>>
    BY <1>3 DEF RestartConsole, Types, Schedulers, history
  <2> QED BY <1>1, <2>1, <2>2 DEF Anew, Schedulers
<1> QED BY <1>2, <1>3

LEMMA FileStep ==
  ASSUME Types, Types', FileInv, [Next]_vars PROVE FileInv'
<1>0. thread \in [Threads -> Steps] /\ jobs \in [Schedulers -> [Jobs -> Job]] /\ writer \in Schedulers \cup {"nobody"}
      /\ \A t \in Threads : Of(t) \in Schedulers
  BY DEF Types, Of, Schedulers
<1> USE DEF FileInv, MixedSaves, SavesCurrent, Unsaved, Faithful, Busy, Saving
<1>1. ASSUME Quietly PROVE FileInv'
  BY <1>1, <1>0 DEF Quietly, InSave
<1>2. ASSUME NEW s \in Schedulers, Anew(s) PROVE FileInv'
  <2>1. \A t \in Threads : IF Of(t) = s THEN thread'[t].pc \notin {"unsaved", "saving"} ELSE thread'[t] = thread[t]
    BY <1>2 DEF Anew, InSave
  <2>2. MixedSaves'
    BY <2>1
  <2>3. SavesCurrent'
    BY <1>0, <1>2, <2>1 DEF Anew
  <2>4. Faithful'
    BY <1>0, <1>2, <2>1 DEF Anew
  <2> QED BY <2>2, <2>3, <2>4
<1>3. ASSUME NEW c \in Console, NEW j \in Jobs, NEW state \in {"on", "off"}, AddJob(c, j, state) PROVE FileInv'
  <2>1. /\ \A u \in Schedulers \ {Of(c)} : jobs'[u] = jobs[u]
        /\ thread'[c].pc = "unsaved"
        /\ c \in Threads /\ \A u \in Threads \ {c} : thread'[u] = thread[u]
        /\ thread[c].pc = "idle" /\ UNCHANGED <<file, writer>>
    BY <1>0, <1>3 DEF AddJob, Change, Await, Of, Threads, Schedulers, Idle, history
  <2> QED BY <2>1, <1>0 DEF Schedulers
<1>4. ASSUME NEW c \in Console, NEW j \in Jobs, NEW to \in {"none", "on", "off"}, ChangeJob(c, j, to)
      PROVE FileInv'
  <2>1. /\ Beside(c) /\ thread'[c].image = Image(jobs'[Of(c)]) /\ thread[c].pc = "idle"
        /\ \A u \in Schedulers \ {Of(c)} : jobs'[u] = jobs[u]
        /\ c \in Threads /\ UNCHANGED <<file, writer>>
    BY <1>4, ChangesStart DEF Threads, Idle, history
  <2>2. MixedSaves'
    BY <2>1, <1>0 DEF Beside
  <2>3. SavesCurrent'
    BY <2>1, <1>0 DEF Beside, Schedulers
  <2>4. Faithful'
    BY <2>1, <1>0 DEF Beside, Schedulers
  <2> QED BY <2>2, <2>3, <2>4
<1>5. ASSUME NEW t \in Threads, BeginSave(t) PROVE FileInv'
  <2>1. /\ Beside(t) /\ thread'[t].image = Image(jobs[Of(t)]) /\ thread[t].pc = "unsaved"
        /\ UNCHANGED <<jobs, file, writer>>
    BY <1>5, BeginsStart DEF history
  <2>2. MixedSaves'
    BY <2>1, <1>0 DEF Beside
  <2>3. SavesCurrent'
    BY <2>1, <1>0 DEF Beside
  <2>4. Faithful'
    BY <2>1, <1>0 DEF Beside
  <2> QED BY <2>2, <2>3, <2>4
<1>6. ASSUME NEW t \in Threads, NEW ok \in BOOLEAN, EndSave(t, ok) PROVE FileInv'
  <2>1. /\ thread'[t].pc \in {"idle", "tick"} /\ \A u \in Threads \ {t} : thread'[u] = thread[u]
        /\ jobs' = jobs
        /\ \/ writer' = "nobody"
           \/ writer # Of(t) /\ writer' = writer /\ file' = file
           \/ writer' = Of(t) /\ file' = thread[t].image /\ ~thread[t].mixed
        /\ thread[t].pc = "saving" /\ thread[t].image \in Saved
    BY <1>0, <1>6 DEF EndSave, After, Await, Idle, Steps, Gone
  <2>2. MixedSaves' /\ SavesCurrent'
    BY <2>1, <1>0
  <2>3. Faithful'
    <3>1. CASE writer' = "nobody"
      BY <3>1
    <3>2. CASE writer # Of(t) /\ writer' = writer /\ file' = file
      BY <2>1, <3>2, <1>0
    <3>3. CASE writer' = Of(t) /\ file' = thread[t].image /\ ~thread[t].mixed
      BY <2>1, <3>3, <1>0
    <3> QED BY <2>1, <3>1, <3>2, <3>3
  <2> QED BY <2>2, <2>3
<1>7. ASSUME NEW l \in Loops, EndRun(l) PROVE FileInv'
  <2>1. /\ thread'[l].pc = "unsaved" /\ \A u \in Threads \ {l} : thread'[u] = thread[u]
        /\ thread[l].pc = "run" /\ Of(l) = "daemon" /\ l \in Threads
        /\ \A s \in Schedulers : Image(jobs'[s]) = Image(jobs[s])
        /\ UNCHANGED <<file, writer>>
    <3>1. l \in Threads /\ Of(l) = "daemon"
      BY DaemonAssumption DEF Of, Threads
    <3>2. /\ Await(l, [pc |-> "unsaved", todo |-> thread[l].todo]) /\ thread[l].pc = "run"
          /\ \A s \in Schedulers : Image(jobs'[s]) = Image(jobs[s])
          /\ UNCHANGED <<file, service, made, dues, restarts, history>>
      BY <1>7, RunEnds
    <3> QED BY <1>0, <3>1, <3>2 DEF Await, history
  <2>2. MixedSaves'
    BY <2>1
  <2>3. SavesCurrent'
    BY <1>0, <2>1
  <2>4. Faithful'
    BY <1>0, <2>1
  <2> QED BY <2>2, <2>3, <2>4
<1> HIDE DEF FileInv, MixedSaves, SavesCurrent, Unsaved, Faithful, Busy, Saving
<1> QED BY <1>1, <1>2, <1>3, <1>4, <1>5, <1>6, <1>7, QuietLoop, QuietDaemon, QuietDue, RestartsAnew
        DEF Next, SaveOn, LoopOn, Schedulers

-----------------------------------------------------------------------------
(* The loop.                                                                *)

(* Saving, and what requests do, carry the loops along and make nothing due. *)
Carried(l) == \/ thread'[l] = thread[l]
              \/ /\ thread[l].pc \in {"tick", "unsaved", "saving", "wait"}
                 /\ thread'[l].pc \in {"tick", "unsaved", "saving", "wait"}
                 /\ (thread'[l].pc = "wait" <=> thread[l].pc = "wait") /\ thread'[l].todo = thread[l].todo

Carry ==
  /\ \A l \in Loops : Carried(l)
  /\ \A j \in Jobs : IsDue(j)' => IsDue(j)
  /\ UNCHANGED <<service, dues, runs, leftover>>

LEMMA SavesCarry ==
  ASSUME Types,
         \/ \E c \in Console, j \in Jobs :
              \/ \E state \in {"on", "off"} : AddJob(c, j, state)
              \/ \E to \in {"none", "on", "off"} : ChangeJob(c, j, to)
         \/ \E t \in Threads : SaveOn(t)
         \/ RestartConsole
  PROVE  Carry
<1>0. thread \in [Threads -> Steps] /\ Loops \subseteq Threads /\ Console \subseteq Threads
      /\ Console \cap Loops = {} /\ jobs \in [Schedulers -> [Jobs -> Job]]
  BY DaemonAssumption DEF Types, Threads
<1>1. ASSUME NEW c \in Console, NEW j \in Jobs, NEW state \in {"on", "off"}, AddJob(c, j, state) PROVE Carry
  <2>1. \A k \in Jobs : IsDue(k)' => IsDue(k)
    BY <1>0, <1>1 DEF AddJob, Change, Of, IsDue, Schedulers
  <2> QED BY <1>0, <1>1, <2>1 DEF AddJob, Await, Carry, Carried, history
<1>2. ASSUME NEW c \in Console, NEW j \in Jobs, NEW to \in {"none", "on", "off"}, ChangeJob(c, j, to)
      PROVE  Carry
  <2>1. /\ Beside(c) /\ (\A k \in Jobs : IsDue(k)' => IsDue(k)) /\ UNCHANGED <<service, dues, history>>
    BY <1>2, ChangesStart
  <2>2. ASSUME NEW l \in Loops PROVE Carried(l)
    BY <1>0, <2>1 DEF Beside, Carried, Saving
  <2> QED BY <2>1, <2>2 DEF Carry, history
<1>3. ASSUME NEW t \in Threads, BeginSave(t) PROVE Carry
  <2>1. /\ Beside(t) /\ thread'[t].todo = thread[t].todo /\ thread[t].pc = "unsaved"
        /\ UNCHANGED <<jobs, service, dues, history>>
    BY <1>3, BeginsStart
  <2>2. ASSUME NEW l \in Loops PROVE Carried(l)
    BY <1>0, <2>1 DEF Beside, Carried, Saving
  <2> QED BY <2>1, <2>2 DEF Carry, history, IsDue
<1>4. ASSUME NEW t \in Threads, NEW ok \in BOOLEAN, EndSave(t, ok) PROVE Carry
  <2>1. ASSUME NEW l \in Loops PROVE Carried(l)
    BY <1>0, <1>4 DEF EndSave, After, Await, Carried, Saving
  <2> QED BY <1>4, <2>1 DEF EndSave, Carry, IsDue
<1>5. CASE RestartConsole
  <2>1. ASSUME NEW l \in Loops PROVE thread'[l] = thread[l]
    BY <1>0, <1>5 DEF RestartConsole, Ended, Of
  <2>2. jobs'["daemon"] = jobs["daemon"]
    BY <1>0, <1>5 DEF RestartConsole, Schedulers
  <2> QED BY <1>5, <2>1, <2>2 DEF RestartConsole, Carry, Carried, history, IsDue
<1> QED BY <1>1, <1>2, <1>3, <1>4, <1>5 DEF SaveOn

(* What that means for what is alive, running and waiting to be run. *)
LEMMA CarryKeeps ==
  ASSUME Carry
  PROVE  /\ Alive' = Alive
         /\ \A j \in Jobs : InRun(j)' = InRun(j) /\ Waiting(j)' = Waiting(j)
<1>1. Alive' = Alive
  BY DEF Carry, Carried, Alive, Gone
<1>2. ASSUME NEW j \in Jobs PROVE InRun(j)' <=> InRun(j)
  BY DEF Carry, Carried, InRun
<1>3. ASSUME NEW j \in Jobs PROVE Waiting(j)' <=> Waiting(j)
  BY DEF Carry, Carried, Waiting
<1> QED BY <1>1, <1>2, <1>3 DEF InRun, Waiting

(* One loop, step by step. *)
LEMMA LoopStep ==
  ASSUME Types, Types', OneLoop, [Next]_vars PROVE OneLoop'
<1>0. /\ thread \in [Threads -> Steps] /\ Loops \subseteq Threads /\ 0 \notin Loops
      /\ {leftover, gateway} \subseteq BOOLEAN /\ current \in {0} \cup Loops
  BY DaemonAssumption DEF Types, Threads
<1>1. CASE Carry
  BY <1>1, CarryKeeps DEF Carry, OneLoop, service
<1>2. ASSUME NEW l \in Loops,
             Check(l) \/ EndRun(l) \/ EndTick(l) \/ Wake(l) \/ \E j \in Jobs : StartRun(l, j)
      PROVE  OneLoop'
  <2>1. thread[l] # Gone /\ \A k \in Loops \ {l} : thread'[k] = thread[k]
    BY <1>0, <1>2 DEF Check, EndRun, EndTick, Wake, StartRun, Await, Gone
  <2>2. UNCHANGED <<service, leftover>>
    BY <1>2 DEF Check, EndRun, EndTick, Wake, StartRun, history
  <2>3. Alive' \subseteq Alive
    BY <2>1 DEF Alive
  <2> QED BY <2>2, <2>3 DEF OneLoop, service
<1>3. ASSUME NEW j \in Jobs, FallDue(j) PROVE OneLoop'
  BY <1>3 DEF FallDue, OneLoop, Alive, service, history
<1>4. ASSUME NEW bound \in BOOLEAN, StartDaemon(bound) PROVE OneLoop'
  BY <1>0, <1>4 DEF StartDaemon, Await, OneLoop, Alive
<1>5. CASE StopDaemon
  BY <1>5 DEF StopDaemon, OneLoop, Alive, history
<1>6. CASE EndJoin
  <2>1. CASE current # 0 /\ thread[current] # Gone
    BY <1>6, <2>1 DEF EndJoin, OneLoop
  <2>2. CASE current = 0 \/ thread[current] = Gone
    BY <1>0, <1>6, <2>2 DEF EndJoin, OneLoop, Alive
  <2> QED BY <2>1, <2>2
<1>7. CASE CloseThePool \/ EndStop \/ UNCHANGED vars
  BY <1>7 DEF CloseThePool, EndStop, OneLoop, Alive, history, service, vars
<1>8. ASSUME NEW h \in Hooks, Deliver(h) \/ RunHook(h) \/ EndHook(h) PROVE OneLoop'
  BY <1>8 DEF Deliver, RunHook, EndHook, HookMoves, OneLoop, Alive, history
<1>9. CASE Restart
  BY <1>0, <1>9, DaemonAssumption DEF Restart, Ended, Of, OneLoop, Alive, history
<1> QED BY <1>1, <1>2, <1>3, <1>4, <1>5, <1>6, <1>7, <1>8, <1>9, SavesCarry DEF Next, LoopOn

(* The pool. *)
LEMMA PoolStep ==
  ASSUME Types, PoolQuiet, [Next]_vars PROVE PoolQuiet'
<1>0. hook \in [Hooks -> {"none", "queued", "running"}]
  BY DEF Types
<1>1. CASE UNCHANGED <<pool, hook, daemon>>
  BY <1>1 DEF PoolQuiet
<1>2. ASSUME NEW l \in Loops,
             Check(l) \/ EndRun(l) \/ EndTick(l) \/ Wake(l) \/ \E j \in Jobs : StartRun(l, j)
      PROVE  UNCHANGED <<pool, hook, daemon>>
  BY <1>2 DEF Check, EndRun, EndTick, Wake, StartRun, service
<1>3. ASSUME Carry \/ UNCHANGED vars \/ \E j \in Jobs : FallDue(j)
      PROVE  UNCHANGED <<pool, hook, daemon>>
  BY <1>3 DEF Carry, FallDue, vars, service
<1>4. ASSUME NEW bound \in BOOLEAN, StartDaemon(bound) PROVE PoolQuiet'
  BY <1>4 DEF StartDaemon, PoolQuiet
<1>5. CASE StopDaemon \/ EndJoin
  <2>1. UNCHANGED <<pool, hook>> /\ daemon' # "stopped"
    BY <1>5 DEF StopDaemon, EndJoin
  <2> QED BY <2>1 DEF PoolQuiet
<1>6. CASE CloseThePool
  BY <1>0, <1>6 DEF CloseThePool, Cancelled, PoolQuiet
<1>7. CASE EndStop
  BY <1>7 DEF EndStop, Drained, PoolQuiet
<1>8. ASSUME NEW h \in Hooks, Deliver(h) \/ RunHook(h) \/ EndHook(h) PROVE PoolQuiet'
  BY <1>0, <1>8 DEF Deliver, RunHook, EndHook, HookMoves, PoolQuiet
<1>9. CASE Restart
  BY <1>9 DEF Restart, PoolQuiet
<1> QED BY <1>1, <1>2, <1>3, <1>4, <1>5, <1>6, <1>7, <1>8, <1>9, SavesCarry DEF Next, LoopOn

-----------------------------------------------------------------------------
(* What is run is owed.                                                     *)

(* With no leftovers a live loop is the only one, so what runs and what waits to be run *)
(* are its own, before its step and after it.                                           *)
LEMMA OnlyOne ==
  ASSUME Types, OneLoop, ~leftover, NEW l \in Loops, thread[l] # Gone,
         \A k \in Loops \ {l} : thread'[k] = thread[k]
  PROVE  /\ \A j \in Jobs : InRun(j) <=> thread[l].pc = "run" /\ thread[l].job = j
         /\ \A j \in Jobs : Waiting(j) <=>
              thread[l].pc \in {"tick", "run", "unsaved", "saving"} /\ j \in thread[l].todo
         /\ \A j \in Jobs : InRun(j)' <=> thread'[l].pc = "run" /\ thread'[l].job = j
         /\ \A j \in Jobs : Waiting(j)' <=>
              thread'[l].pc \in {"tick", "run", "unsaved", "saving"} /\ j \in thread'[l].todo
<1>1. \A k \in Loops \ {l} : thread[k] = Gone /\ thread'[k] = Gone
  BY DEF OneLoop, Alive
<1>2. \A k \in Loops \ {l} : thread[k].pc = "gone" /\ thread'[k].pc = "gone"
  BY <1>1 DEF Gone
<1> QED BY <1>2 DEF InRun, Waiting

(* With no loop alive nothing runs and nothing waits. *)
LEMMA NoneRuns ==
  ASSUME Alive = {} PROVE \A j \in Jobs : ~InRun(j) /\ ~Waiting(j)
<1>1. \A k \in Loops : thread[k].pc = "gone"
  BY DEF Alive, Gone
<1> QED BY <1>1 DEF InRun, Waiting

(* Every step keeps what is run owed. *)
LEMMA RunsStep ==
  ASSUME Types, Types', OneLoop, OneLoop', RunsOwed, [Next]_vars PROVE RunsOwed'
<1>0. /\ thread \in [Threads -> Steps] /\ Loops \subseteq Threads
      /\ jobs \in [Schedulers -> [Jobs -> Job]] /\ dues \in [Jobs -> Nat] /\ runs \in [Jobs -> Nat]
  BY DEF Types, Threads
<1>1. CASE Carry
  BY <1>1, CarryKeeps DEF Carry, RunsOwed
<1>2. ASSUME NEW l \in Loops, Check(l) \/ EndTick(l) \/ Wake(l) PROVE RunsOwed'
  <2> SUFFICES ASSUME ~leftover PROVE RunsOwed'
    BY <1>2 DEF RunsOwed, Check, EndTick, Wake, history
  <2>1. UNCHANGED <<jobs, dues, runs, leftover>> /\ \A j \in Jobs : IsDue(j)' <=> IsDue(j)
    BY <1>2 DEF Check, EndTick, Wake, history, IsDue
  <2>2. thread[l] # Gone /\ \A k \in Loops \ {l} : thread'[k] = thread[k]
    BY <1>0, <1>2 DEF Check, EndTick, Wake, Await, Gone
  <2>3. ~leftover /\ \A j \in Jobs : ~InRun(j)
    BY <1>2, <2>2, OnlyOne DEF Check, EndTick, Wake
  <2>4. \A j \in Jobs : Waiting(j)' => IsDue(j)
    <3>1. /\ thread'[l].pc \in {"tick", "run", "unsaved", "saving"} => thread'[l].todo = Due("daemon")
      BY <1>0, <1>2 DEF Check, EndTick, Wake, Await, Gone
    <3>2. \A j \in Jobs : j \in Due("daemon") => IsDue(j)
      BY DEF Due, IsDue, NoJob
    <3> QED BY <2>2, <3>1, <3>2, OnlyOne
  <2> QED BY <2>1, <2>3, <2>4 DEF RunsOwed
<1>3. ASSUME NEW l \in Loops, NEW j \in Jobs, StartRun(l, j) PROVE RunsOwed'
  <2> SUFFICES ASSUME ~leftover PROVE RunsOwed'
    BY <1>3 DEF RunsOwed, StartRun
  <2>1. /\ UNCHANGED <<jobs, dues, leftover>> /\ \A k \in Jobs : IsDue(k)' <=> IsDue(k)
        /\ runs'[j] = runs[j] + 1 /\ \A k \in Jobs \ {j} : runs'[k] = runs[k]
    BY <1>0, <1>3 DEF StartRun, IsDue
  <2>2. /\ thread[l].pc = "tick" /\ j \in thread[l].todo
        /\ thread'[l] = [pc |-> "run", job |-> j, todo |-> thread[l].todo \ {j}]
        /\ thread[l] # Gone /\ \A k \in Loops \ {l} : thread'[k] = thread[k]
    <3>1. /\ thread[l].pc = "tick" /\ j \in thread[l].todo
          /\ thread' = [thread EXCEPT ![l] = [pc |-> "run", job |-> j, todo |-> thread[l].todo \ {j}]]
      BY <1>3 DEF StartRun, Await
    <3>2. thread[l] # Gone /\ l \in Threads
      BY <1>0, <3>1 DEF Gone
    <3> QED BY <1>0, <3>1, <3>2
  <2>3. \A k \in Jobs : ~InRun(k) /\ (Waiting(k) <=> k \in thread[l].todo)
    BY <2>2, OnlyOne
  <2>4. \A k \in Jobs : (InRun(k)' <=> k = j) /\ (Waiting(k)' <=> k \in thread[l].todo \ {j})
    BY <2>2, OnlyOne
  <2> QED BY <1>0, <2>1, <2>2, <2>3, <2>4 DEF RunsOwed
<1>4. ASSUME NEW l \in Loops, EndRun(l) PROVE RunsOwed'
  <2> SUFFICES ASSUME ~leftover PROVE RunsOwed'
    BY <1>4 DEF RunsOwed, EndRun, history
  <2>0. PICK j \in Jobs : j = thread[l].job
    BY <1>4, RunEnds
  <2>1. /\ thread[l].pc = "run"
        /\ jobs'["daemon"][j] = NoJob \/ jobs'["daemon"][j].due = FALSE
        /\ \A k \in Jobs \ {j} : jobs'["daemon"][k] = jobs["daemon"][k]
        /\ Await(l, [pc |-> "unsaved", todo |-> thread[l].todo])
        /\ UNCHANGED <<dues, runs, leftover>>
    BY <1>4, <2>0, RunEnds DEF history
  <2>2. /\ thread'[l] = [pc |-> "unsaved", todo |-> thread[l].todo]
        /\ thread[l] # Gone /\ \A k \in Loops \ {l} : thread'[k] = thread[k]
    BY <1>0, <2>1 DEF Await, Gone
  <2>3. \A k \in Jobs : (InRun(k) <=> k = j) /\ (Waiting(k) <=> k \in thread[l].todo)
    BY <2>0, <2>1, <2>2, OnlyOne
  <2>4. \A k \in Jobs : ~InRun(k)' /\ (Waiting(k)' <=> k \in thread[l].todo)
    BY <2>2, OnlyOne
  <2>5. ~IsDue(j)' /\ \A k \in Jobs \ {j} : IsDue(k)' <=> IsDue(k)
    BY <2>1 DEF IsDue
  <2> QED BY <2>1, <2>3, <2>4, <2>5 DEF RunsOwed
<1>5. ASSUME NEW j \in Jobs, FallDue(j) PROVE RunsOwed'
  <2>1. /\ ~IsDue(j) /\ dues'[j] = dues[j] + 1 /\ \A k \in Jobs \ {j} : dues'[k] = dues[k]
        /\ UNCHANGED <<thread, runs, leftover>>
    BY <1>0, <1>5 DEF FallDue, IsDue, history
  <2>2. IsDue(j)' /\ \A k \in Jobs \ {j} : IsDue(k)' <=> IsDue(k)
    <3>1. /\ jobs'["daemon"][j] = [state |-> jobs["daemon"][j].state, due |-> TRUE]
          /\ jobs'["daemon"][j] # NoJob
          /\ \A k \in Jobs \ {j} : jobs'["daemon"][k] = jobs["daemon"][k]
      BY <1>5, DueSet DEF FallDue
    <3> QED BY <3>1 DEF IsDue
  <2>3. \A k \in Jobs : (InRun(k)' <=> InRun(k)) /\ (Waiting(k)' <=> Waiting(k))
    BY <2>1 DEF InRun, Waiting
  <2> QED BY <1>0, <2>1, <2>2, <2>3 DEF RunsOwed
<1>6. ASSUME NEW bound \in BOOLEAN, StartDaemon(bound) PROVE RunsOwed'
  <2> SUFFICES ASSUME ~leftover PROVE RunsOwed'
    BY <1>6 DEF RunsOwed, StartDaemon
  <2>1. Alive = {} /\ UNCHANGED <<jobs, dues, runs>>
    BY <1>6 DEF StartDaemon, OneLoop
  <2>2. \A j \in Jobs : ~InRun(j) /\ ~Waiting(j)
    BY <2>1, NoneRuns
  <2>3. \A k \in Loops : thread'[k].pc \in {"gone", "check"}
    BY <1>0, <1>6, <2>1 DEF StartDaemon, Await, Alive, Gone
  <2>4. \A j \in Jobs : ~InRun(j)' /\ ~Waiting(j)'
    BY <2>3 DEF InRun, Waiting
  <2>5. \A j \in Jobs : IsDue(j)' <=> IsDue(j)
    BY <2>1 DEF IsDue
  <2> QED BY <2>1, <2>2, <2>4, <2>5 DEF RunsOwed
<1>7. ASSUME \/ StopDaemon \/ EndJoin \/ CloseThePool \/ EndStop \/ UNCHANGED vars
             \/ \E h \in Hooks : Deliver(h) \/ RunHook(h) \/ EndHook(h)
      PROVE  RunsOwed'
  <2>1. UNCHANGED <<thread, jobs, dues, runs>> /\ (leftover => leftover')
    <3>1. CASE EndJoin
      BY <3>1 DEF EndJoin
    <3>2. ASSUME NEW h \in Hooks, Deliver(h) \/ RunHook(h) \/ EndHook(h)
          PROVE  UNCHANGED <<thread, jobs, dues, runs, leftover>>
      BY <3>2 DEF Deliver, RunHook, EndHook, HookMoves, history
    <3>3. ASSUME StopDaemon \/ CloseThePool \/ EndStop \/ UNCHANGED vars
          PROVE  UNCHANGED <<thread, jobs, dues, runs, leftover>>
      BY <3>3 DEF StopDaemon, CloseThePool, EndStop, vars, history
    <3> QED BY <1>7, <3>1, <3>2, <3>3
  <2>2. \A j \in Jobs : /\ InRun(j)' <=> InRun(j)
                        /\ Waiting(j)' <=> Waiting(j)
                        /\ IsDue(j)' <=> IsDue(j)
    BY <2>1 DEF InRun, Waiting, IsDue
  <2> QED BY <2>1, <2>2 DEF RunsOwed
<1>8. CASE Restart
  <2>1. UNCHANGED <<dues, runs, leftover>> /\ \A k \in Loops : thread'[k].pc = "gone"
    BY <1>0, <1>8, DaemonAssumption DEF Restart, Ended, Of, history, Gone
  <2>2. \A j \in Jobs : ~InRun(j)' /\ ~Waiting(j)'
    BY <2>1 DEF InRun, Waiting
  <2>3. \A j \in Jobs : ~IsDue(j)'
    BY <1>0, <1>8 DEF Restart, Reloaded, IsDue, Schedulers, NoJob
  <2> QED BY <2>1, <2>2, <2>3 DEF RunsOwed
<1> QED BY <1>1, <1>2, <1>3, <1>4, <1>5, <1>6, <1>7, <1>8, SavesCarry DEF Next, LoopOn

-----------------------------------------------------------------------------
(* The start, the invariant, and what follows from it.                      *)

DaemonInv == Types /\ FileInv /\ OneLoop /\ PoolQuiet /\ RunsOwed

LEMMA DaemonInitially == ASSUME Init PROVE DaemonInv
<1>1. Types
  BY DaemonAssumption
     DEF Init, Types, Schedulers, Job, Saved, Threads, Steps, Gone, Idle
<1>2. \A t \in Threads : thread[t].pc \in {"gone", "idle"}
  BY DEF Init, Gone, Idle
<1>3. FileInv
  <2>1. MixedSaves /\ SavesCurrent
    BY <1>2 DEF MixedSaves, SavesCurrent, Saving
  <2>2. file \in Saved
    BY DEF Init, Saved
  <2>3. file = Image(jobs[writer])
    BY DEF Init, Image, NoJob, Schedulers
  <2> QED BY <2>1, <2>2, <2>3 DEF FileInv, Faithful
<1>4. Alive = {}
  BY DEF Init, Alive, Threads
<1>5. OneLoop /\ PoolQuiet
  BY <1>4 DEF Init, OneLoop, PoolQuiet
<1>6. RunsOwed
  <2>1. \A j \in Jobs : ~IsDue(j) /\ runs[j] = 0 /\ dues[j] = 0
    BY DEF Init, IsDue, Schedulers
  <2> QED BY <1>4, <2>1, NoneRuns DEF RunsOwed
<1> QED BY <1>1, <1>3, <1>5, <1>6 DEF DaemonInv

LEMMA DaemonAlways == Spec => []DaemonInv
<1>1. DaemonInv /\ [Next]_vars => DaemonInv'
  <2> SUFFICES ASSUME DaemonInv, [Next]_vars PROVE DaemonInv'
    OBVIOUS
  <2>1. Types'
    BY TypesStep DEF DaemonInv
  <2>2. FileInv'
    BY <2>1, FileStep DEF DaemonInv
  <2>3. OneLoop'
    BY <2>1, LoopStep DEF DaemonInv
  <2>4. PoolQuiet'
    BY PoolStep DEF DaemonInv
  <2>5. RunsOwed'
    BY <2>1, <2>3, RunsStep DEF DaemonInv
  <2> QED BY <2>1, <2>2, <2>3, <2>4, <2>5 DEF DaemonInv
<1> QED BY <1>1, DaemonInitially, PTL DEF Spec

(* The variables keep their types, in particular: cron_jobs.json is the image of some   *)
(* schedules or does not parse, and a thread is at a step it can be at.                 *)
THEOREM DaemonTypeCorrect == Spec => []TypeOK
<1>1. DaemonInv => TypeOK
  <2> SUFFICES ASSUME Types PROVE TypeOK
    BY DEF DaemonInv
  <2>1. \A s \in Steps : s.pc \in Quiet \cup {"tick", "run", "unsaved", "saving"}
    BY DEF Steps, Quiet, Gone, Idle
  <2> QED BY <2>1 DEF Types, TypeOK, Job
<1> QED BY <1>1, DaemonAlways, PTL

(* _save_jobs(): between saves cron_jobs.json holds what the scheduler that saved last   *)
(* has in memory, unless a later save of that one failed, which is swallowed, or         *)
(* the last save shared the temporary file with another.                                 *)
THEOREM DaemonFileIsTheWriters == Spec => []FileIsTheWriters
<1>1. DaemonInv => FileIsTheWriters
  BY DEF DaemonInv, FileInv, Faithful, FileIsTheWriters, Image
<1> QED BY <1>1, DaemonAlways, PTL

(* CronScheduler.tick(): a schedule is run once at most for each time it falls due,      *)
(* though it be disabled, enabled or removed under way, as long as start() did not fail  *)
(* and no join was given up.                                                             *)
THEOREM DaemonDueOnce == Spec => []DueOnce
<1>1. DaemonInv => DueOnce
  BY DEF DaemonInv, RunsOwed, DueOnce
<1> QED BY <1>1, DaemonAlways, PTL

(* Daemon.stop(): when it has returned no webhook task is queued or running, and unless  *)
(* something was left behind no loop is alive and the gateway does not serve.            *)
THEOREM DaemonStoppedIsQuiet == Spec => []StoppedIsQuiet
<1>1. DaemonInv => StoppedIsQuiet
  BY DEF DaemonInv, Types, OneLoop, PoolQuiet, StoppedIsQuiet
<1> QED BY <1>1, DaemonAlways, PTL
=============================================================================
