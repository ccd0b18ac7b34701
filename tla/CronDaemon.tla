------------------------------ MODULE CronDaemon ------------------------------
(***************************************************************************)
(* The always-on daemon (chimera_pilot/always_on/daemon.py), its registry  *)
(* of services (service_registry.py) and the cron scheduler it hosts       *)
(* (cron_scheduler.py), beside the console's scheduler object.  Each       *)
(* scheduler keeps the schedules it loaded when it was made and saves all  *)
(* of them to the one cron_jobs.json.  Console requests add, remove,       *)
(* enable and disable, in the console's object or, where the daemon's was  *)
(* handed to the console, in that one while it runs; the daemon's runs     *)
(* what falls due, in a loop thread.  A scheduler's lock covers a change,  *)
(* and the save after it only for remove, enable and disable.              *)
(*                                                                         *)
(* Webhooks reach the daemon's worker pool, through its gateway or, before *)
(* it is started, directly.                                                *)
(***************************************************************************)
EXTENDS Naturals, FiniteSets

CONSTANTS
  Jobs,         \* schedule ids
  Console,      \* requests that change schedules
  Hosted,       \* those of them that act on the daemon's own scheduler
  Loops,        \* the daemon's loop threads
  Hooks,        \* webhook deliveries under way at a time
  MaxDue,       \* bound on the times a schedule falls due
  MaxRestarts   \* bound on restarts of the daemon's process

ASSUME DaemonAssumption ==
  /\ Loops \subseteq Nat \ {0} /\ Console \cap Loops = {}
  /\ Hosted \subseteq Console
  /\ {MaxDue, MaxRestarts} \subseteq Nat

Schedulers == {"console", "daemon"}
Threads    == Console \cup Loops
Of(t)      == IF t \in Console \ Hosted THEN "console" ELSE "daemon"

VARIABLES
  jobs,      \* each scheduler's self.jobs
  file,      \* cron_jobs.json
  thread,    \* what each thread is in the middle of
  running,   \* the daemon's scheduler: _running, and whether _wake is clear
  current,   \* its _thread (0: None)
  daemon,    \* what the daemon's main thread is in the middle of
  gateway,   \* the gateway serves
  pool,      \* the worker pool takes tasks
  hook,      \* each delivery's task, if it has one
  made,      \* schedule ids given out
  dues,      \* times each schedule fell due
  restarts,
  runs,      \* history: times each schedule was run by a tick
  leftover,  \* history: stop() gave up joining a loop, or start() failed
  writer     \* history: the scheduler whose memory was saved last, "nobody" once another
             \* save of it failed or two saves overlapped

service == <<running, current, daemon, gateway, pool, hook>>
history == <<runs, leftover, writer>>
vars    == <<jobs, file, thread, service, made, dues, restarts, history>>

NoJob   == [state |-> "none"]
Gone    == [pc |-> "gone"]
Idle    == [pc |-> "idle"]
Quiet   == {"gone", "idle", "check", "wait"}
Torn    == [j \in Jobs |-> "torn"]
Saved   == [Jobs -> {"none", "on", "off"}]
Waking  == ~running

TypeOK ==
  /\ jobs \in [Schedulers -> [Jobs -> {NoJob} \cup [state : {"on", "off"}, due : BOOLEAN]]]
  /\ file \in Saved \cup {Torn}
  /\ \A t \in Threads : thread[t].pc \in Quiet \cup {"tick", "run", "unsaved", "saving"}
  /\ current \in {0} \cup Loops
  /\ daemon \in {"new", "up", "failed", "joining", "draining", "stopped"}
  /\ hook \in [Hooks -> {"none", "queued", "running"}]

Init ==
  /\ jobs = [s \in Schedulers |-> [j \in Jobs |-> NoJob]]
  /\ file = [j \in Jobs |-> "none"]
  /\ thread = [t \in Threads |-> IF t \in Loops THEN Gone ELSE Idle]
  /\ running = FALSE /\ current = 0
  /\ daemon = "new" /\ gateway = FALSE /\ pool = TRUE
  /\ hook = [h \in Hooks |-> "none"]
  /\ made = {} /\ dues = [j \in Jobs |-> 0] /\ restarts = 0
  /\ runs = [j \in Jobs |-> 0] /\ leftover = FALSE /\ writer = "daemon"

-----------------------------------------------------------------------------
(* Saving: a snapshot, then the replacement of the file.                    *)

Await(t, step) == thread' = [thread EXCEPT ![t] = step]
After(t, step) == IF t \in Loops THEN step ELSE Idle

\* The scheduler's lock is held from a locked change to the end of its save.
LockFree(s) == \A t \in Threads : Of(t) = s => ~(thread[t].pc = "saving" /\ thread[t].locked)

OnlyOn(js)  == [j \in Jobs |-> IF js[j].state = "on" THEN "on" ELSE "none"]
                                                      \* mutant: disabled schedules are not saved
Image(js)   == [j \in Jobs |-> js[j].state]
Saving(t)   == thread[t].pc = "saving"
OthersSaving(t) == {u \in Threads \ {t} : Saving(u)}

\* The thread starts _save_jobs() with `js` in memory.
StartSave(t, js, locked, todo) ==
  thread' = [u \in Threads |->
    IF u = t THEN [pc |-> "saving", image |-> Image(js), locked |-> locked, todo |-> todo,
                   mixed |-> OthersSaving(t) # {}]
    ELSE IF Saving(u) THEN [thread[u] EXCEPT !.mixed = TRUE] ELSE thread[u]]

Change(s, j, to) == [jobs EXCEPT ![s][j] = to]

BeginSave(t) ==
  /\ thread[t].pc = "unsaved"
  /\ StartSave(t, jobs[Of(t)], FALSE, thread[t].todo)
  /\ UNCHANGED <<jobs, file, service, made, dues, restarts, history>>

\* os.replace(), or an error on the way to it, which is swallowed with the file as it was.
\* Saves that overlapped shared one temporary file: the result is this one's, another's
\* that is not replaced yet, or it does not parse.
EndSave(t, ok) ==
  /\ Saving(t)
  /\ file' \in IF ~ok THEN {file}
              ELSE IF thread[t].mixed
              THEN {thread[t].image, Torn} \cup {thread[u].image : u \in OthersSaving(t)}
              ELSE {thread[t].image}
  /\ writer' = IF thread[t].mixed \/ (~ok /\ writer = Of(t)) THEN "nobody"
               ELSE IF ok THEN Of(t) ELSE writer
  /\ Await(t, After(t, [pc |-> "tick", todo |-> thread[t].todo]))
  /\ UNCHANGED <<jobs, service, made, dues, restarts, runs, leftover>>

-----------------------------------------------------------------------------
(* Changes to the schedules.                                                *)

AddJob(c, j, state) ==
  LET s == Of(c) IN
  /\ thread[c] = Idle /\ LockFree(s)
  /\ j \notin made /\ made' = made \cup {j}
  /\ jobs' = Change(s, j, [state |-> state, due |-> FALSE])
  /\ Await(c, [pc |-> "unsaved", todo |-> {}])
  /\ UNCHANGED <<file, service, dues, restarts, history>>

\* remove_job(), enable_job() (which computes the next run afresh) and disable_job().
ChangeJob(c, j, to) ==
  LET s == Of(c) IN
  /\ thread[c] = Idle /\ LockFree(s) /\ jobs[s][j] # NoJob
  /\ jobs' = Change(s, j, IF to = "none" THEN NoJob
                          ELSE [state |-> to, due |-> jobs[s][j].due /\ to = "off"])
  /\ StartSave(c, jobs'[s], TRUE, {})
  /\ UNCHANGED <<file, service, made, dues, restarts, history>>

\* next_run passes.
FallDue(j) ==
  /\ jobs["daemon"][j] # NoJob /\ ~jobs["daemon"][j].due /\ dues[j] < MaxDue
  /\ jobs' = [jobs EXCEPT !["daemon"][j].due = TRUE]
  /\ dues' = [dues EXCEPT ![j] = @ + 1]
  /\ UNCHANGED <<file, thread, service, made, restarts, history>>

-----------------------------------------------------------------------------
(* The loop: tick, wait for the interval or for stop(), and again.          *)

Due(s) == {j \in Jobs : jobs[s][j].state = "on" /\ jobs[s][j].due}

\* while self._running; the snapshot of what is due is taken under the lock.
ChecksOnce(l) ==                                      \* mutant: a loop that finds nothing ends
  /\ thread[l].pc = "check"
  /\ Await(l, IF running /\ Due("daemon") # {} THEN [pc |-> "tick", todo |-> Due("daemon")]
              ELSE Gone)
  /\ UNCHANGED <<jobs, file, service, made, dues, restarts, history>>
Check(l) ==
  /\ thread[l].pc = "check"
  /\ IF running THEN LockFree("daemon") /\ Await(l, [pc |-> "tick", todo |-> Due("daemon")])
     ELSE Await(l, Gone)
  /\ UNCHANGED <<jobs, file, service, made, dues, restarts, history>>

StartRun(l, j) ==
  /\ thread[l].pc = "tick" /\ j \in thread[l].todo
  /\ Await(l, [pc |-> "run", job |-> j, todo |-> thread[l].todo \ {j}])
  /\ runs' = [runs EXCEPT ![j] = @ + 1]
  /\ UNCHANGED <<jobs, file, service, made, dues, restarts, leftover, writer>>

JustRan(j) == [jobs EXCEPT !["daemon"][j].state = "ran"]   \* mutant: a run settles it
StaysDue(j) == jobs                                   \* mutant: the next run is not computed
Rescheduled(j) == IF jobs["daemon"][j] = NoJob THEN jobs
                  ELSE [jobs EXCEPT !["daemon"][j].due = FALSE]

EndRun(l) ==
  /\ thread[l].pc = "run" /\ LockFree("daemon")
  /\ jobs' = Rescheduled(thread[l].job)
  /\ Await(l, [pc |-> "unsaved", todo |-> thread[l].todo])
  /\ UNCHANGED <<file, service, made, dues, restarts, history>>

EndTick(l) ==
  /\ thread[l].pc = "tick" /\ thread[l].todo = {}
  /\ Await(l, [pc |-> "wait"])
  /\ UNCHANGED <<jobs, file, service, made, dues, restarts, history>>

\* _wake.wait(): set means leave, the interval's end means go on.
Wake(l) ==
  /\ thread[l].pc = "wait"
  /\ Await(l, IF Waking THEN Gone ELSE [pc |-> "check"])
  /\ UNCHANGED <<jobs, file, service, made, dues, restarts, history>>

-----------------------------------------------------------------------------
(* Daemon.start() and Daemon.stop(), on the main thread.                    *)

Alive == {l \in Loops : thread[l] # Gone}

\* start(): every service in turn; a failing one is reported after the others have been
\* started.
StartDaemon(bound) ==
  /\ daemon \in {"new", "failed", "stopped"}
  /\ gateway' = bound
  /\ \E l \in Loops \ Alive :
       /\ \A k \in Loops \ Alive : l <= k
       /\ running' = TRUE /\ current' = l
       /\ Await(l, [pc |-> "check"])
  /\ daemon' = IF bound THEN "up" ELSE "failed"
  /\ leftover' = (leftover \/ ~bound)
  /\ UNCHANGED <<jobs, file, pool, hook, made, dues, restarts, runs, writer>>

\* stop(): services only if it was started, the scheduler before the gateway.
StopDaemon ==
  /\ daemon \in {"new", "up", "failed"}
  /\ daemon' = IF daemon = "up" THEN "joining" ELSE "draining"
  /\ running' = IF daemon = "up" THEN FALSE ELSE running
  /\ UNCHANGED <<jobs, file, thread, current, gateway, pool, hook, made, dues, restarts, history>>

Joined(l)    == l = 0 \/ thread[l] = Gone \/ thread[l].pc \notin Quiet

Drained      == \A h \in Hooks : hook[h] # "running"

\* join(timeout=10): it returns when the loop has ended, or gives up on a job still
\* running or being saved, once a stop() that a second signal put on top has returned.
EndJoin ==
  /\ daemon = "joining" /\ Joined(current) /\ (pool \/ Drained)
  /\ leftover' = (leftover \/ (current # 0 /\ thread[current] # Gone))
  /\ current' = 0
  /\ gateway' = FALSE
  /\ daemon' = "draining"
  /\ UNCHANGED <<jobs, file, thread, running, pool, hook, made, dues, restarts, runs, writer>>

Kept(h)      == hook[h]                               \* mutant: queued tasks are left
Cancelled(h) == IF hook[h] = "queued" THEN "none" ELSE hook[h]

\* executor.shutdown(wait=True, cancel_futures=True): it starts, and it returns.  A second
\* stop() during the join goes straight to it.
CloseThePool ==
  /\ daemon \in {"joining", "draining"} /\ pool
  /\ pool' = FALSE
  /\ hook' = [h \in Hooks |-> Cancelled(h)]
  /\ UNCHANGED <<jobs, file, thread, running, current, daemon, gateway, made, dues, restarts,
                 history>>

EndStop ==
  /\ daemon = "draining" /\ ~pool /\ Drained
  /\ daemon' = "stopped"
  /\ UNCHANGED <<jobs, file, thread, running, current, gateway, pool, hook, made, dues, restarts,
                 history>>

-----------------------------------------------------------------------------
(* Webhooks.                                                                *)

HookMoves(h, from, to) ==
  /\ hook[h] = from
  /\ hook' = [hook EXCEPT ![h] = to]
  /\ UNCHANGED <<jobs, file, thread, running, current, daemon, gateway, pool, made,
                 dues, restarts, history>>

\* A request the gateway took, or a direct call; submit() raises once the pool is closed.
Deliver(h) == pool /\ HookMoves(h, "none", "queued")

RunHook(h) == HookMoves(h, "queued", "running")
EndHook(h) == HookMoves(h, "running", "none")

-----------------------------------------------------------------------------
(* The daemon's process dies and is made anew; so is the console's.         *)

Reloaded ==
  [j \in Jobs |-> IF file = Torn \/ file[j] = "none" THEN NoJob
                  ELSE [state |-> file[j], due |-> FALSE]]

\* No thread of the process that held scheduler `s` is left.
Ended(s) == thread' = [t \in Threads |-> IF Of(t) # s THEN thread[t]
                                       ELSE IF t \in Loops THEN Gone ELSE Idle]

Restart ==
  /\ restarts < MaxRestarts /\ restarts' = restarts + 1
  /\ jobs' = [jobs EXCEPT !["daemon"] = Reloaded]
  /\ Ended("daemon")
  /\ running' = FALSE /\ current' = 0 /\ daemon' = "new" /\ gateway' = FALSE /\ pool' = TRUE
  /\ hook' = [h \in Hooks |-> "none"]
  /\ UNCHANGED <<file, made, dues, history>>

RestartConsole ==
  /\ restarts < MaxRestarts /\ restarts' = restarts + 1
  /\ jobs' = [jobs EXCEPT !["console"] = Reloaded]
  /\ Ended("console")
  /\ UNCHANGED <<file, service, made, dues, history>>

\* A thread goes on with its save, or with its loop.
SaveOn(t) == BeginSave(t) \/ \E ok \in BOOLEAN : EndSave(t, ok)
LoopOn(l) == \/ Check(l) \/ EndRun(l) \/ EndTick(l) \/ Wake(l)
             \/ \E j \in Jobs : StartRun(l, j)

Next ==
  \/ \E c \in Console, j \in Jobs :
       \/ \E state \in {"on", "off"} : AddJob(c, j, state)
       \/ \E to \in {"none", "on", "off"} : ChangeJob(c, j, to)
  \/ \E t \in Threads : SaveOn(t)
  \/ \E l \in Loops : LoopOn(l)
  \/ \E j \in Jobs : FallDue(j)
  \/ \E bound \in BOOLEAN : StartDaemon(bound)
  \/ StopDaemon \/ EndJoin \/ CloseThePool \/ EndStop
  \/ \E h \in Hooks : Deliver(h) \/ RunHook(h) \/ EndHook(h)
  \/ Restart \/ RestartConsole

Spec == Init /\ [][Next]_vars

\* The threads of the daemon's process are scheduled, and runs end.
Fairness ==
  /\ \A c \in Hosted : WF_vars(SaveOn(c))
  /\ \A l \in Loops : WF_vars(SaveOn(l) \/ LoopOn(l))

FairSpec == Spec /\ Fairness

-----------------------------------------------------------------------------
Busy(s) == \E t \in Threads : Of(t) = s /\ thread[t].pc \in {"unsaved", "saving"}

\* "Jobs are saved to state_dir/cron_jobs.json on every mutation": between saves the file
\* holds what the scheduler that saved last has in memory, disabled schedules included,
\* unless a later save of that one failed or the last one shared the temporary file.
FileIsTheWriters ==
  writer # "nobody" /\ ~Busy(writer) =>
    file = [j \in Jobs |-> jobs[writer][j].state]

\* A schedule is run at most once for each time it falls due, though it be disabled,
\* enabled afresh or removed while it waits to be run or runs, and though the daemon
\* restart in between, as long as no loop is left behind.
DueOnce == ~leftover => \A j \in Jobs : runs[j] <= dues[j]

\* "Graceful shutdown with no orphaned threads": when stop() has returned no webhook task
\* is left, and unless a start failed or a join was given up neither are services.
StoppedIsQuiet ==
  daemon = "stopped" =>
    /\ \A h \in Hooks : hook[h] = "none"
    /\ leftover \/ (~gateway /\ Alive = {})

\* While the daemon is up, an enabled schedule that is due is run, whatever else is.
DueRuns ==
  \A j \in Jobs :
    (daemon = "up" /\ j \in Due("daemon")) ~> (daemon # "up" \/ j \notin Due("daemon"))
=============================================================================
