--------------------------- MODULE RunLockWindows ---------------------------
(***************************************************************************)
(* What keeps the updates of any number of workers apart, whatever lock an *)
(* earlier one left.  Two of them can update at once: the run of           *)
(* RunLock_two_updates.cfg shows how.                                      *)
(* The history variable overtaken says where a worker or a supervisor has  *)
(* acted on a look at the files that was out of date by then: at the       *)
(* rename of acquireNamed, at the removals of its release or of            *)
(* releaseExitedWorker, or at the write of the latter.  Nothing else       *)
(* breaks exclusion.                                                       *)
(***************************************************************************)
EXTENDS RunLockProperties

VARIABLE overtaken

\* A starter renames away a directory that is not the stale one it judged.
RenamesAnother(w) == Aside(w) /\ lock # None /\ ~Stale

\* An owner file is removed that is another worker's.
RemovesOwner(w) == (DropOwner(w) \/ ReapOwner(w)) /\ lock # None /\ lock.owner \notin {w, None}

\* A directory is removed that another worker has just made.
RemovesStart(w) ==
    /\ DropDir(w) \/ ReapDir(w)
    /\ lock # None /\ lock.owner = None
    /\ \E v \in Workers : pc[v] = "own"

\* A dead worker is marked as stopped over the heartbeat of its successor.
MarksAnother(w) == ReapMark(w) /\ ~Owns(w)

\* The places of the code where somebody may act on such a look.
Windows == {"rename", "release", "mark"}

Hit(k) ==
    \E w \in Workers : \/ k = "rename" /\ RenamesAnother(w)
                       \/ k = "release" /\ (RemovesOwner(w) \/ RemovesStart(w))
                       \/ k = "mark" /\ MarksAnother(w)

WindowsInit == Init /\ overtaken = {}
WindowsNext == Next /\ overtaken' = overtaken \cup {k \in Windows : Hit(k)}
WindowsSpec == WindowsInit /\ [][WindowsNext]_<<vars, overtaken>>
WindowsFairSpec == WindowsSpec /\ Fairness

(***************************************************************************)
(* Two workers update at once only after one of the four removals or       *)
(* writes above hit what it was not meant for, or a live worker slept      *)
(* through a deadline (watch.go:752-806, :541-549, supervisor.go:313-338): *)
(* nobody gets past the lock, and no heartbeat is lost, otherwise.         *)
(***************************************************************************)
OverlapIsOvertaken == OneUpdate \/ overtaken # {}

(***************************************************************************)
(* Likewise a lock that a starter would take for stale (watch.go:763-775)  *)
(* is not the lock of a worker at work.                                    *)
(***************************************************************************)
StaleIsUnused ==
    Stale => \/ overtaken # {} \/ pauses > 0
             \/ \A w \in Workers : Owns(w) => pc[w] \notin Working

(***************************************************************************)
(* A stop request written for a worker ends that worker, also when the     *)
(* worker is being replaced or the request is written late                 *)
(* (watch.go:424-461, :726-746), unless a worker slept through a deadline  *)
(* or had its lock renamed away: it may then remove a request for its      *)
(* successor with its own.                                                 *)
(***************************************************************************)
StopHonoured ==
    \A w \in Workers :
        (request = w) ~> (pc[w] \in Gone \/ pauses > 0 \/ "rename" \in overtaken)
=============================================================================
