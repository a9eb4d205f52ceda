----------------------------- MODULE Supervisor -----------------------------
(***************************************************************************)
(* The supervisor of a watched root (internal/watch/supervisor.go) and     *)
(* those who start and stop it (process.go, watch.go).  It keeps a worker  *)
(* running, replaces the worker and itself when another executable is      *)
(* installed, and ends when asked to, each time after the worker has       *)
(* finished its update.  The service manager starts it again when it dies. *)
(*                                                                         *)
(* The worker is reduced to what the supervisor and a stop request see of  *)
(* it; RunLock and WatchLoop model it.  A heartbeat is fresh as long as    *)
(* its process lives, and until some time after.  A child that is started  *)
(* while another worker still has the run lock is refused by that.         *)
(***************************************************************************)
EXTENDS Integers

CONSTANTS
    Versions,     \* executables that get installed, 1 first
    Invalid,      \* those among them that fail the compatibility check
    MaxInstalls,  \* bound: replacements of the installed executable
    MaxCrashes,   \* bound: crashes of the supervisor and of the worker
    MaxFaults,    \* bound: looks at the worker's status that fail
    MaxAsks       \* bound: stop requests of the user

ASSUME VersionsAssumption == Versions \subseteq Nat \ {0} /\ Invalid \subseteq Versions /\ 1 \in Versions \ Invalid
ASSUME BoundsAssumption == {MaxInstalls, MaxCrashes, MaxFaults, MaxAsks} \subseteq Nat

VARIABLES
    pc, token,             \* the supervisor and the name it runs under
    known,                 \* the worker it waits for: "none", "child" or "adopted"
    stopping, replacing, waiting,  \* waiting: a retry is due later
    active, pending,       \* the executable of the last worker, and one seen once
    lock, json, request,   \* supervisor.lock, supervisor.json, supervisor.stop.request
    worker, image, wasked, \* the worker, its executable and its stop request
    second,                \* a child beside a worker that still has the run lock
    exe,                   \* the installed executable
    asking, askToken,      \* somebody who asks the watcher to stop
    wanted,                \* a watcher was started and nobody asked it to stop
    lastToken, installs, asks,
    crashes, deaths, faults  \* workers that died; supervisors that died or failed

loopvars == <<known, stopping, replacing, waiting, active, pending>>
files == <<lock, json, request>>
workervars == <<worker, image, wasked, second>>
user == <<asking, askToken, wanted, asks>>
bounds == <<installs, crashes, deaths, faults>>
vars == <<pc, token, loopvars, files, workervars, exe, user, lastToken, bounds>>

None == 0
Down == {"down", "dead"}
Looping == {"poll", "act", "start", "select"}

\* supervisor.json, fresh as long as its heartbeat is.
Runtimes == [token : Nat, upgrading : BOOLEAN, stopped : BOOLEAN, fresh : BOOLEAN]
NoRuntime == [token |-> None, upgrading |-> FALSE, stopped |-> FALSE, fresh |-> FALSE]

RuntimeAlive == ~json.stopped /\ json.fresh /\ json.token # None /\ lock = json.token
HandingOff == json.upgrading /\ ~json.stopped /\ json.fresh
Supervised == HandingOff \/ RuntimeAlive

\* GetStatus: a worker that died is reported as running for a while.
WorkerRuns == worker \in {"idle", "updating", "dead"}

Goto(label) == pc' = label

\* GetStatus fails: a state file cannot be read.
Unreadable == faults < MaxFaults /\ faults' = faults + 1

-----------------------------------------------------------------------------
(* The supervisor starts.                                                     *)

\* Mutated form: what was asked of the predecessor is not looked at.
ResumeAnyway ==
    /\ pc = "resume" /\ Goto("acquire")
    /\ UNCHANGED <<token, loopvars, files, workervars, exe, user, lastToken, bounds>>

\* A stop request that reached the predecessor while it handed over.
Resume ==
    /\ pc = "resume"
    /\ IF json.upgrading /\ json.fresh /\ request = json.token
       THEN /\ Goto("down")
            /\ request' = None
            /\ json' = [json EXCEPT !.upgrading = FALSE, !.stopped = TRUE]
       ELSE Goto("acquire") /\ UNCHANGED <<request, json>>
    /\ UNCHANGED <<token, loopvars, lock, workervars, exe, user, lastToken, bounds>>

\* The lock of a supervisor that died is taken over when its heartbeat is old.
Acquire ==
    /\ pc = "acquire"
    /\ IF lock # None /\ json.fresh
       THEN Goto("dead") /\ UNCHANGED <<lock, token, lastToken>>
       ELSE /\ lock' = lastToken + 1 /\ token' = lastToken + 1 /\ lastToken' = lastToken + 1
            /\ Goto("announce")
    /\ UNCHANGED <<loopvars, json, request, workervars, exe, user, bounds>>

Announce ==
    /\ pc = "announce"
    /\ json' = [token |-> token, upgrading |-> FALSE, stopped |-> FALSE, fresh |-> TRUE]
    /\ Goto("adopt")
    /\ UNCHANGED <<token, loopvars, lock, request, workervars, exe, user, lastToken, bounds>>

\* A worker that outlived its supervisor is waited for and then replaced.
Adopt ==
    /\ pc = "adopt"
    /\ known' = IF WorkerRuns THEN "adopted" ELSE "none"
    /\ replacing' = WorkerRuns
    /\ stopping' = FALSE /\ waiting' = FALSE /\ active' = None /\ pending' = None
    /\ Goto("poll")
    /\ UNCHANGED <<token, files, workervars, exe, user, lastToken, bounds>>

\* Without the worker's status the supervisor gives up.
AdoptFails ==
    /\ pc = "adopt" /\ Unreadable
    /\ deaths' = deaths + 1
    /\ Goto("leave_failed")
    /\ UNCHANGED <<token, loopvars, files, workervars, exe, user, lastToken, installs, crashes>>

-----------------------------------------------------------------------------
(* The loop of the supervisor.                                                *)

Poll ==
    /\ pc = "poll"
    /\ IF request = token
       THEN stopping' = TRUE /\ request' = None
       ELSE UNCHANGED <<stopping, request>>
    /\ Goto("act")
    /\ UNCHANGED <<token, known, replacing, waiting, active, pending, lock, json, workervars,
                   exe, user, lastToken, bounds>>

\* requestWorkerStop
AskWorker == wasked' = (wasked \/ worker \in {"idle", "updating"})

\* Mutated form: a supervisor that is asked to stop does not wait for the worker.
LeaveNow ==
    /\ known = "none" \/ stopping
    /\ \/ stopping /\ Goto("leave_stopped")
       \/ ~stopping /\ replacing /\ active # None /\ Goto("leave_upgrading")
    /\ UNCHANGED <<replacing, wasked, faults>>

\* Nothing runs any more: end, or hand over to the new executable.
Leave ==
    /\ known = "none"
    /\ \/ stopping /\ Goto("leave_stopped")
       \/ ~stopping /\ replacing /\ active # None /\ Goto("leave_upgrading")
    /\ UNCHANGED <<replacing, wasked, faults>>

\* The worker is asked to end; if that fails, again the next time.
Drain ==
    /\ known # "none" /\ (stopping \/ replacing)
    /\ \/ AskWorker /\ UNCHANGED faults
       \/ Unreadable /\ UNCHANGED wasked
    /\ Goto("select")
    /\ UNCHANGED replacing

\* No worker: time to start one, unless the back-off is not over, or the new
\* executable is no replacement.
StartDue ==
    /\ known = "none" /\ ~stopping /\ ~(replacing /\ active # None)
    /\ replacing' = FALSE
    /\ Goto(IF waiting THEN "select" ELSE "start")
    /\ UNCHANGED <<wasked, faults>>

Watch ==
    /\ known # "none" /\ ~stopping /\ ~replacing
    /\ Goto("select")
    /\ UNCHANGED <<replacing, wasked, faults>>

Act ==
    /\ pc = "act"
    /\ Leave \/ Drain \/ StartDue \/ Watch
    /\ UNCHANGED <<token, known, stopping, waiting, active, pending, files, worker, image, second,
                   exe, user, lastToken, installs, crashes, deaths>>

\* Starts a worker, unless the executable is no longer the last one and fails
\* the check.
StartWorker ==
    /\ pc = "start"
    /\ waiting' = TRUE
    /\ \/ /\ active # None /\ exe # active /\ exe \in Invalid
          /\ UNCHANGED <<known, active, pending, workervars>>
       \/ /\ active = None \/ exe = active \/ exe \notin Invalid
          /\ active' = exe /\ pending' = None
          /\ known' = "child"
          /\ \/ worker = "none" /\ worker' = "starting" /\ second' = "none"
                /\ image' = exe /\ wasked' = FALSE
             \/ worker # "none" /\ second' = "starting" /\ UNCHANGED <<worker, image, wasked>>
    /\ Goto("select")
    /\ UNCHANGED <<token, stopping, replacing, files, exe, user, lastToken, bounds>>

\* The worker it waits for has ended, or is taken to have ended.
WorkerEnded == \/ /\ \/ known = "child" /\ second = "none" /\ worker \in {"none", "dead"}
                     \/ known = "child" /\ second = "refused"
                     \/ known = "adopted" /\ ~WorkerRuns
                  /\ UNCHANGED faults
               \/ known = "adopted" /\ Unreadable

\* The lock of a child that died is released.
Reap ==
    /\ pc = "select" /\ WorkerEnded
    /\ known' = "none"
    /\ worker' = IF known = "child" /\ second = "none" THEN "none" ELSE worker
    /\ second' = IF known = "child" THEN "none" ELSE second
    /\ waiting' = ~(replacing \/ stopping)
    /\ Goto("poll")
    /\ UNCHANGED <<token, stopping, replacing, active, pending, files, image, wasked, exe,
                   user, lastToken, installs, crashes, deaths>>

\* Mutated form: an executable that was seen is forgotten at the next tick.
TickForgetting ==
    /\ pc = "select" /\ Goto("poll")
    /\ IF known # "none" /\ ~stopping /\ ~replacing /\ exe # active
       THEN /\ replacing' = (pending = exe /\ exe \notin Invalid)
            /\ pending' = None
       ELSE UNCHANGED <<pending, replacing>>
    /\ UNCHANGED <<token, known, stopping, waiting, active, files, workervars, exe, user,
                   lastToken, bounds>>

\* An executable that is seen twice and passes the check replaces the worker.
Tick ==
    /\ pc = "select" /\ Goto("poll")
    /\ IF known # "none" /\ ~stopping /\ ~replacing /\ exe # active
       THEN /\ replacing' = (pending = exe /\ exe \notin Invalid)
            /\ pending' = exe
       ELSE /\ pending' = IF known # "none" /\ ~stopping /\ ~replacing THEN None ELSE pending
            /\ UNCHANGED replacing
    /\ UNCHANGED <<token, known, stopping, waiting, active, files, workervars, exe, user,
                   lastToken, bounds>>

RetryDue ==
    /\ waiting /\ waiting' = FALSE
    /\ UNCHANGED <<pc, token, known, stopping, replacing, active, pending, files, workervars,
                   exe, user, lastToken, bounds>>

\* The last word, then the lock is released; an upgrade goes on as the new
\* executable.
LastWord ==
    /\ json' = [json EXCEPT !.upgrading = pc = "leave_upgrading",
                            !.stopped = pc # "leave_upgrading", !.fresh = TRUE]
    /\ \/ pc = "leave_stopped" /\ Goto("release_stopped")
       \/ pc = "leave_upgrading" /\ Goto("release_upgrading")
       \/ pc = "leave_failed" /\ Goto("release_failed")
    /\ UNCHANGED <<token, loopvars, lock, request, workervars, exe, user, lastToken, bounds>>

Release ==
    /\ lock' = None
    /\ \/ pc = "release_stopped" /\ Goto("down")
       \/ pc = "release_upgrading" /\ Goto("resume")
       \/ pc = "release_failed" /\ Goto("dead")
    /\ UNCHANGED <<token, loopvars, json, request, workervars, exe, user, lastToken, bounds>>

-----------------------------------------------------------------------------
(* The worker.                                                                *)

WorkerStep ==
    /\ \/ worker = "starting" /\ worker' = "idle"
       \/ worker = "idle" /\ ~wasked /\ worker' = "updating"
       \/ worker = "updating" /\ worker' = "idle"
    /\ UNCHANGED <<pc, token, loopvars, files, image, wasked, second, exe, user, lastToken, bounds>>

\* It ends when asked to, and not in the middle of an update.
WorkerEnds ==
    /\ worker = "idle" /\ wasked /\ worker' = "none"
    /\ UNCHANGED <<pc, token, loopvars, files, image, wasked, second, exe, user, lastToken, bounds>>

\* acquireNamed: a second child ends with an error while there is another's lock,
\* and becomes the worker if that is gone by now.
SecondStep ==
    /\ second = "starting"
    /\ \/ worker # "none" /\ second' = "refused" /\ UNCHANGED <<worker, image, wasked>>
       \/ worker = "none" /\ second' = "none"
          /\ worker' = "starting" /\ image' = active /\ wasked' = FALSE
    /\ UNCHANGED <<pc, token, loopvars, files, exe, user, lastToken, bounds>>

-----------------------------------------------------------------------------
(* Crashes, time and the user.                                                *)

CrashAllowed == crashes + deaths < MaxCrashes

SupervisorDies ==
    /\ pc \notin Down /\ CrashAllowed
    /\ Goto("dead") /\ deaths' = deaths + 1
    /\ UNCHANGED <<token, loopvars, files, workervars, exe, user, lastToken, installs, crashes, faults>>

\* A worker without the lock leaves nothing behind.
WorkerDies ==
    /\ worker \in {"starting", "idle", "updating"} /\ CrashAllowed
    /\ worker' = (IF worker = "starting" THEN "none" ELSE "dead") /\ crashes' = crashes + 1
    /\ UNCHANGED <<pc, token, loopvars, files, image, wasked, second, exe, user, lastToken,
                   installs, deaths, faults>>

\* Systemd, launchd and the task scheduler restart a supervisor that failed.
Respawn ==
    /\ pc = "dead" /\ Goto("resume")
    /\ UNCHANGED <<token, loopvars, files, workervars, exe, user, lastToken, bounds>>

\* The heartbeat of a supervisor or worker that died is too old.  An exec and
\* the start of a worker take less time than that.
SupervisorExpires ==
    /\ json.fresh /\ pc = "dead" /\ "starting" \notin {worker, second}
    /\ json' = [json EXCEPT !.fresh = FALSE]
    /\ UNCHANGED <<pc, token, loopvars, lock, request, workervars, exe, user, lastToken, bounds>>

WorkerExpires ==
    /\ worker = "dead" /\ (known # "child" \/ second # "none") /\ worker' = "none"
    /\ UNCHANGED <<pc, token, loopvars, files, image, wasked, second, exe, user, lastToken, bounds>>

Install(v) ==
    /\ installs < MaxInstalls /\ v # exe /\ exe' = v /\ installs' = installs + 1
    /\ UNCHANGED <<pc, token, loopvars, files, workervars, user, lastToken, crashes, deaths, faults>>

\* watch start, and watch restart once the locks are gone.
Start ==
    /\ pc = "down" /\ asking = "no" /\ ~wanted
    /\ ~WorkerRuns /\ ~Supervised
    /\ Goto("resume") /\ wanted' = TRUE
    /\ UNCHANGED <<token, loopvars, files, workervars, exe, asking, askToken, asks, lastToken,
                   bounds>>

\* RequestStop: the live supervisor, or one that hands over, is asked first.
Ask ==
    /\ asking = "no" /\ asks < MaxAsks /\ wanted
    /\ Supervised \/ WorkerRuns
    /\ askToken' = (IF Supervised THEN json.token ELSE None)
    /\ asking' = "write" /\ wanted' = FALSE /\ asks' = asks + 1
    /\ UNCHANGED <<pc, token, loopvars, files, workervars, exe, lastToken, bounds>>

WriteRequest ==
    /\ asking = "write" /\ asking' = "worker"
    /\ request' = IF askToken # None THEN askToken ELSE request
    /\ UNCHANGED <<pc, token, loopvars, lock, json, workervars, exe, askToken, wanted, asks,
                   lastToken, bounds>>

RequestWorker ==
    /\ asking = "worker" /\ asking' = "no"
    /\ AskWorker
    /\ UNCHANGED <<pc, token, loopvars, files, worker, image, second, exe, askToken, wanted, asks,
                   lastToken, bounds>>

-----------------------------------------------------------------------------

Init ==
    /\ pc = "down" /\ token = None
    /\ known = "none" /\ active = None /\ pending = None
    /\ stopping = FALSE /\ replacing = FALSE /\ waiting = FALSE
    /\ lock = None /\ json = NoRuntime /\ request = None
    /\ worker = "none" /\ image = 1 /\ wasked = FALSE /\ second = "none"
    /\ exe = 1
    /\ asking = "no" /\ askToken = None /\ wanted = FALSE
    /\ lastToken = 0 /\ installs = 0 /\ asks = 0
    /\ crashes = 0 /\ deaths = 0 /\ faults = 0

SupervisorStep ==
    \/ Resume \/ Acquire \/ Announce \/ Adopt \/ AdoptFails
    \/ Poll \/ Act \/ StartWorker \/ Reap \/ Tick \/ LastWord \/ Release

Next ==
    \/ SupervisorStep
    \/ RetryDue \/ WorkerStep \/ WorkerEnds \/ SecondStep
    \/ SupervisorDies \/ WorkerDies \/ Respawn \/ SupervisorExpires \/ WorkerExpires
    \/ \E v \in Versions : Install(v)
    \/ Start \/ Ask \/ WriteRequest \/ RequestWorker

Spec == Init /\ [][Next]_vars

=============================================================================
