------------------------ MODULE WatchLoopProperties ------------------------
(* What the rebuild loop of a watch worker promises. *)
EXTENDS WatchLoop

TreeOrNone == Trees \cup {None}

\* Every variable keeps to the values its declaration describes.
TypeOK ==
    /\ sources \in Trees
    /\ {built, work, current, previous, pending} \subseteq TreeOrNone
    /\ pc \in Updating \cup {"check", "decide", "idle", "ended"}
    /\ got \in [Files -> Contents \cup {None}]
    /\ quiet \in BOOLEAN /\ first \in BOOLEAN
    /\ retry \in {"none", "waiting", "due"}
    /\ stop \in {"none", "request", "cancel", "lost"}
    /\ edits \in 0..MaxEdits /\ failures \in 0..MaxFailures
    /\ lived \subseteq Trees

(***************************************************************************)
(* Two passes over the files that agree saw one moment: what a build       *)
(* publishes is a state the whole project was in while it ran, never a mix *)
(* of an old and a new file (scan.go:207 and :509), as long as no edit     *)
(* restores an earlier content.                                            *)
(***************************************************************************)
PublishedStateExisted == pc = "publish" => work \in lived

(***************************************************************************)
(* A state of the sources that lasts is what the output is made from in    *)
(* the end, whenever the change came: before, during or after an update,   *)
(* in the middle of a check, after failed checks and updates               *)
(* (watch.go:670-722).                                                     *)
(***************************************************************************)
EventuallyBuilt ==
    \A t \in Trees : (sources = t) ~> (built = t \/ sources # t \/ stop # "none")

(***************************************************************************)
(* The worker comes to rest: no update answers its own output or repeats a *)
(* successful one, and no failed one is repeated after a success           *)
(* (watch.go:640, :702-708).                                               *)
(***************************************************************************)
ComesToRest == <>[](pc \notin Updating)

(***************************************************************************)
(* An idle worker that sees no difference owes nothing: if its last        *)
(* answered check is what the files are now and no update is to be         *)
(* repeated, the output was made from these files.  A failed first update  *)
(* and a change during an update are where this could go wrong             *)
(* (watch.go:634-641, :669-677, :718-721).                                 *)
(***************************************************************************)
NothingOwed ==
    pc = "idle" /\ previous = sources /\ retry = "none" /\ stop = "none" => built = sources
=============================================================================
