------------------------ MODULE SupervisorProperties ------------------------
(* What the supervisor promises to those who start and stop a watcher.        *)
EXTENDS Supervisor

\* The types of the variables.
TypeOK ==
    /\ pc \in Looping \cup Down \cup {"resume", "acquire", "announce", "adopt"}
              \cup {"leave_stopped", "leave_upgrading", "leave_failed"}
              \cup {"release_stopped", "release_upgrading", "release_failed"}
    /\ known \in {"none", "child", "adopted"}
    /\ {stopping, replacing, waiting, wasked, wanted} \subseteq BOOLEAN
    /\ {active, pending} \subseteq Versions \cup {None} /\ {exe, image} \subseteq Versions
    /\ {token, lock, request, askToken} \subseteq 0..lastToken /\ json \in Runtimes
    /\ worker \in {"none", "starting", "idle", "updating", "dead"}
    /\ second \in {"none", "starting", "refused"}
    /\ asking \in {"no", "write", "worker"}

\* A supervisor starts no worker beside another one, unless it could not read its
\* status; and before it starts, between two executables and after it has ended it
\* leaves none behind, so that the update of the old executable has drained before
\* anything of the new one runs, unless a supervisor died, whoever else did.
NoneLeftBehind ==
    /\ pc = "start" /\ faults = 0 => worker = "none"
    /\ pc \in {"down", "resume", "acquire", "announce", "adopt"} /\ deaths = 0
          => worker = "none" /\ second = "none"

-----------------------------------------------------------------------------
(* Liveness: the processes take their steps, time passes, and the select of   *)
(* the loop does not ignore the end of the worker for ever.                   *)

Fairness == /\ WF_vars(SupervisorStep) /\ SF_vars(Reap)
            /\ WF_vars(WorkerStep) /\ SF_vars(WorkerEnds) /\ WF_vars(SecondStep)
            /\ WF_vars(RetryDue) /\ WF_vars(Respawn)
            /\ SF_vars(SupervisorExpires) /\ WF_vars(WorkerExpires)
            /\ WF_vars(WriteRequest) /\ WF_vars(RequestWorker)

\* A watcher that is wanted ends up running the installed executable, if that is
\* compatible, whatever was installed, whoever died meanwhile, and although one look
\* at a live worker failed and a child was started beside it.
EventuallyServing ==
    <>[](wanted /\ exe \notin Invalid =>
            pc \in Looping /\ worker \in {"idle", "updating"} /\ image = exe)

\* A stop request that names the supervisor ends it, also when it is replacing
\* its worker or itself just then and when its worker dies, unless the supervisor
\* dies itself.
RequestHonoured ==
    (request # None /\ request = lock) ~> (pc = "down" \/ deaths > 0)

\* A stop request that was accepted ends the watcher
\* (supervisor_test.go, TestSupervisorReloadDrainsAndCarriesStopAcrossHandoff:
\* "stop during handoff was lost", "replacement ignored explicit stop").
StopCarried == (asks > 0 /\ ~wanted /\ asking = "no") ~> (pc = "down" \/ wanted)

=============================================================================
