------------------------------ MODULE RunLock ------------------------------
(***************************************************************************)
(* The run lock of the watch workers of one root (internal/watch): a lock  *)
(* directory with an owner file, a runtime file with a heartbeat, and a    *)
(* file for stop requests.  Workers of several processes start, take over  *)
(* a lock whose owner seems gone, update, stop, and die; the supervisor of *)
(* a dead worker releases its lock; somebody asks the worker to stop.      *)
(*                                                                         *)
(* Every step is one file operation, or a check followed by nothing.  A    *)
(* worker's token is its own name, since every start draws a new one: a    *)
(* worker that got past the lock never starts again.  Clocks are reduced   *)
(* to two facts: whether the heartbeat in the runtime file, and the time   *)
(* stamp of the lock directory, are within heartbeatLimit.                 *)
(***************************************************************************)
EXTENDS Naturals, FiniteSets

CONSTANTS
    Workers,     \* the workers ever started, also their tokens
    Supervised,  \* those whose supervisor outlives them
    MaxCrashes,  \* bound on workers that die
    MaxPauses,   \* bound on deadlines that a live process sleeps through
    MaxAsks,     \* bound on requests to stop
    Leftover,    \* whether an earlier worker died and left its lock directory
    None         \* no file, no token

Tokens == Workers \cup {None}
Locks == [owner : Tokens, old : BOOLEAN]
Runtimes == [token : Workers, stopped : BOOLEAN, fresh : BOOLEAN]

ASSUME WorkersAssumption == Supervised \subseteq Workers /\ None \notin Workers
ASSUME BoundsAssumption == MaxCrashes \in Nat /\ MaxPauses \in Nat /\ MaxAsks \in Nat
ASSUME LeftoverAssumption == Leftover \in BOOLEAN
ASSUME NoneAssumption == None \notin Locks /\ None \notin Runtimes

\* A worker between creating the lock directory and its first heartbeat.
Starting == {"own", "announce", "announcing"}
\* A worker in its loop.
Working == {"running", "consume", "apply", "updating"}
Leaving == {"leave", "final", "finalWrite", "release", "dropOwner", "dropDir"}
Reaping == {"reapMark", "reapOwner", "reapDir"}
Gone == {"dead", "ended"}

VARIABLES
    lock,     \* the lock directory: the token in its owner file, its age
    runtime,  \* the runtime file
    request,  \* the token in the stop request file
    pc,       \* pc[w]: the next step of worker w, or of the supervisor after it
    beat,     \* beat[w]: the heartbeat: off, between beats, about to write
    asking,   \* the token somebody is about to write into the request file
    crashes, pauses, asks  \* how often so far

files == <<lock, runtime, request>>
counts == <<crashes, pauses, asks>>
vars == <<files, pc, beat, asking, counts>>

NewLock == [owner |-> None, old |-> FALSE]
Owns(w) == lock # None /\ lock.owner = w

\* GetStatus and runtimeAlive: the runtime file names a worker that has not
\* stopped, owns the lock and has a heartbeat within the limit.
Alive == runtime # None /\ ~runtime.stopped /\ runtime.fresh /\ Owns(runtime.token)

Init ==
    /\ lock = IF Leftover THEN [owner |-> None, old |-> TRUE] ELSE None
    /\ runtime = None /\ request = None /\ asking = None
    /\ pc = [w \in Workers |-> "idle"] /\ beat = [w \in Workers |-> "off"]
    /\ crashes = 0 /\ pauses = 0 /\ asks = 0

Step(w, from, to) == pc[w] = from /\ pc' = [pc EXCEPT ![w] = to]

----------------------------------------------------------------------------
(* acquireNamed *)

Mkdir(w) ==
    /\ \/ lock = None /\ lock' = NewLock /\ Step(w, "idle", "own")
       \/ lock # None /\ UNCHANGED lock /\ Step(w, "idle", "judge")
    /\ UNCHANGED <<runtime, request, beat, asking, counts>>

\* Mutated forms: by the age of the directory alone; by the heartbeat alone; only
\* a directory with an owner file in it.
StaleByAge == lock # None /\ lock.old
StaleAtOnce == ~Alive /\ lock # None
StaleOwned == ~Alive /\ lock # None /\ lock.old /\ lock.owner # None

\* The owner seems gone and the directory is not one that is being set up.
Stale == ~Alive /\ lock # None /\ lock.old

Judge(w) ==
    /\ Step(w, "judge", IF Stale THEN "aside" ELSE "idle")
    /\ UNCHANGED <<files, beat, asking, counts>>

\* Renames away whatever lock directory is there by now.
Aside(w) ==
    /\ Step(w, "aside", IF lock = None THEN "idle" ELSE "again")
    /\ lock' = None
    /\ UNCHANGED <<runtime, request, beat, asking, counts>>

MkdirAgain(w) ==
    /\ \/ lock = None /\ lock' = NewLock /\ Step(w, "again", "own")
       \/ lock # None /\ UNCHANGED lock /\ Step(w, "again", "idle")
    /\ UNCHANGED <<runtime, request, beat, asking, counts>>

\* Writes the owner file, over another's if there is one; a new entry renews the
\* directory's time stamp.  Without the directory the worker gives up, after the
\* two removals of a release.
WriteOwner(w) ==
    /\ \/ /\ lock # None
          /\ lock' = [owner |-> w, old |-> lock.old /\ lock.owner # None]
          /\ Step(w, "own", "announce")
       \/ lock = None /\ UNCHANGED lock /\ Step(w, "own", "dropOwner")
    /\ UNCHANGED <<runtime, request, beat, asking, counts>>

----------------------------------------------------------------------------
(* publish: looks at the owner file, then writes the runtime file. *)

Announce(w) ==
    /\ Step(w, "announce", IF Owns(w) THEN "announcing" ELSE "release")
    /\ UNCHANGED <<files, beat, asking, counts>>

\* Mutated form: without the worker's token.
PublishedNameless(w, stopped) == runtime' = [token |-> None, stopped |-> stopped, fresh |-> TRUE]

Published(w, stopped) == runtime' = [token |-> w, stopped |-> stopped, fresh |-> TRUE]

\* The first heartbeat; from here on the heartbeat runs beside the worker.
AnnounceWrite(w) ==
    /\ Step(w, "announcing", "running")
    /\ Published(w, FALSE)
    /\ beat' = [beat EXCEPT ![w] = "ready"]
    /\ UNCHANGED <<lock, request, asking, counts>>

\* Mutated form: refreshes the runtime file only if it is the worker's own.
BeatCheckOwnFile(w) ==
    /\ beat[w] = "ready" /\ pc[w] \in Working /\ Owns(w)
    /\ runtime.token = w
    /\ beat' = [beat EXCEPT ![w] = "write"]
    /\ UNCHANGED <<files, pc, asking, counts>>

\* A heartbeat, or a progress report of the worker, which writes the same.  None
\* begins once the worker has closed the channel of its heartbeat.
BeatCheck(w) ==
    /\ beat[w] = "ready" /\ pc[w] \in Working /\ Owns(w)
    /\ beat' = [beat EXCEPT ![w] = "write"]
    /\ UNCHANGED <<files, pc, asking, counts>>

BeatWrite(w) ==
    /\ beat[w] = "write"
    /\ Published(w, FALSE)
    /\ beat' = [beat EXCEPT ![w] = "ready"]
    /\ UNCHANGED <<lock, request, pc, asking, counts>>

----------------------------------------------------------------------------
(* The worker's loop. *)

\* Mutated forms: a tick does not look at the lock; or not at the request.
TickUnowned(w) ==
    /\ Step(w, "running", IF request = w THEN "consume" ELSE "apply")
    /\ UNCHANGED <<files, beat, asking, counts>>

TickUnasked(w) ==
    /\ Step(w, "running", IF Owns(w) THEN "apply" ELSE "leave")
    /\ UNCHANGED <<files, beat, asking, counts>>

\* A tick, and the check of the sources that it starts, look at the lock and at
\* the stop request.
Tick(w) ==
    /\ Step(w, "running", CASE ~Owns(w) -> "leave"
                            [] Owns(w) /\ request = w -> "consume"
                            [] OTHER -> "apply")
    /\ UNCHANGED <<files, beat, asking, counts>>

\* The request is honoured and its file removed, whatever is in it by now.
Consume(w) ==
    /\ Step(w, "consume", "leave")
    /\ request' = None
    /\ UNCHANGED <<lock, runtime, beat, asking, counts>>

\* The sources are as they were, or apply looks at the lock and runs the update.
Apply(w) ==
    /\ \/ Step(w, "apply", "running")
       \/ Owns(w) /\ Step(w, "apply", "updating")
    /\ UNCHANGED <<files, beat, asking, counts>>

FinishUpdate(w) ==
    /\ Step(w, "updating", "running")
    /\ UNCHANGED <<files, beat, asking, counts>>

----------------------------------------------------------------------------
(* The end of a worker: the deferred calls of runWithProgress. *)

StopHeartbeat(w) ==
    /\ beat[w] = "ready"
    /\ beat' = [beat EXCEPT ![w] = "off"]
    /\ Step(w, "leave", "final")
    /\ UNCHANGED <<files, asking, counts>>

Final(w) ==
    /\ Step(w, "final", IF Owns(w) THEN "finalWrite" ELSE "release")
    /\ UNCHANGED <<files, beat, asking, counts>>

FinalWrite(w) ==
    /\ Step(w, "finalWrite", "release")
    /\ Published(w, TRUE)
    /\ UNCHANGED <<lock, request, beat, asking, counts>>

Release(w) ==
    /\ Step(w, "release", IF Owns(w) THEN "dropOwner" ELSE "ended")
    /\ UNCHANGED <<files, beat, asking, counts>>

\* Removes the owner file that is there, which renews the directory's time stamp.
OwnerRemoved == lock' = IF lock = None \/ lock.owner = None THEN lock ELSE NewLock

\* Removes the directory unless somebody's owner file is in it.
DirRemoved == lock' = IF lock # None /\ lock.owner = None THEN None ELSE lock

DropOwner(w) ==
    /\ Step(w, "dropOwner", "dropDir")
    /\ OwnerRemoved
    /\ UNCHANGED <<runtime, request, beat, asking, counts>>

DropDir(w) ==
    /\ Step(w, "dropDir", "ended")
    /\ DirRemoved
    /\ UNCHANGED <<runtime, request, beat, asking, counts>>

----------------------------------------------------------------------------
(* releaseExitedWorker, by the supervisor of a worker that died. *)

Reap(w) ==
    /\ w \in Supervised
    /\ Step(w, "dead", IF runtime # None /\ runtime.token = w /\ Owns(w)
                       THEN "reapMark" ELSE "ended")
    /\ UNCHANGED <<files, beat, asking, counts>>

\* The runtime file as it was read, with Stopped set.
ReapMark(w) ==
    /\ Step(w, "reapMark", "reapOwner")
    /\ Published(w, TRUE)
    /\ UNCHANGED <<lock, request, beat, asking, counts>>

\* Without an owner file the removal fails and the supervisor leaves it at that.
ReapOwner(w) ==
    /\ Step(w, "reapOwner", IF lock = None \/ lock.owner = None THEN "ended" ELSE "reapDir")
    /\ OwnerRemoved
    /\ UNCHANGED <<runtime, request, beat, asking, counts>>

ReapDir(w) ==
    /\ Step(w, "reapDir", "ended")
    /\ DirRemoved
    /\ UNCHANGED <<runtime, request, beat, asking, counts>>

----------------------------------------------------------------------------
(* RequestStop *)

Ask ==
    /\ asks < MaxAsks /\ asking = None /\ Alive
    /\ asking' = runtime.token
    /\ asks' = asks + 1
    /\ UNCHANGED <<files, pc, beat, crashes, pauses>>

WriteRequest ==
    /\ asking # None
    /\ request' = asking /\ asking' = None
    /\ UNCHANGED <<lock, runtime, pc, beat, counts>>

----------------------------------------------------------------------------
(* Time and death. *)

Crash(w) ==
    /\ pc[w] \notin {"idle"} \cup Gone \cup Reaping
    /\ crashes < MaxCrashes /\ crashes' = crashes + 1
    /\ pc' = [pc EXCEPT ![w] = "dead"]
    /\ beat' = [beat EXCEPT ![w] = "off"]
    /\ UNCHANGED <<files, asking, pauses, asks>>

\* A deadline passes that a live process meets unless it is suspended.
Passes(asleep) ==
    /\ asleep => pauses < MaxPauses
    /\ pauses' = IF asleep THEN pauses + 1 ELSE pauses

\* The last heartbeat is longer ago than the limit.
Lapse ==
    /\ runtime # None /\ runtime.fresh
    /\ Passes(Owns(runtime.token) /\ pc[runtime.token] \notin Gone)
    /\ runtime' = [runtime EXCEPT !.fresh = FALSE]
    /\ UNCHANGED <<lock, request, pc, beat, asking, crashes, asks>>

\* The lock directory is older than the limit.
Age ==
    /\ lock # None /\ ~lock.old
    /\ Passes(\E w \in Workers : pc[w] \in Starting)
    /\ lock' = [lock EXCEPT !.old = TRUE]
    /\ UNCHANGED <<runtime, request, pc, beat, asking, crashes, asks>>

----------------------------------------------------------------------------

Start(w) == Mkdir(w) \/ Judge(w) \/ Aside(w) \/ MkdirAgain(w) \/ WriteOwner(w)

Run(w) == \/ Announce(w) \/ AnnounceWrite(w) \/ Tick(w) \/ Consume(w) \/ Apply(w)
          \/ FinishUpdate(w) \/ StopHeartbeat(w) \/ Final(w) \/ FinalWrite(w)
          \/ Release(w) \/ DropOwner(w) \/ DropDir(w)

Beat(w) == BeatCheck(w) \/ BeatWrite(w)

Supervise(w) == Reap(w) \/ ReapMark(w) \/ ReapOwner(w) \/ ReapDir(w)

\* All workers have come and gone.
Finished == (\A w \in Workers : pc[w] \in Gone) /\ UNCHANGED vars

Next == \/ \E w \in Workers : Start(w) \/ Run(w) \/ Beat(w) \/ Supervise(w) \/ Crash(w)
        \/ Ask \/ WriteRequest \/ Lapse \/ Age \/ Finished

Spec == Init /\ [][Next]_vars

\* A worker that runs is scheduled, somebody who wants one goes on starting it,
\* and time passes.  Nothing is assumed of crashes, pauses and requests.
Fairness ==
    /\ \A w \in Workers : WF_vars(Start(w)) /\ WF_vars(Run(w)) /\ WF_vars(Beat(w))
                          /\ WF_vars(Supervise(w))
    /\ WF_vars(WriteRequest)
    /\ WF_vars(Lapse /\ UNCHANGED pauses) /\ WF_vars(Age /\ UNCHANGED pauses)
=============================================================================
