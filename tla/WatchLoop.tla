----------------------------- MODULE WatchLoop -----------------------------
(***************************************************************************)
(* The rebuild loop of a watch worker (internal/watch/watch.go) over one   *)
(* project: poll the content of the source files, wait for a quiet period, *)
(* run the project update of cli/watch.go, retry a failed one.             *)
(*                                                                         *)
(* A fingerprint is a digest of contents alone, so it is modelled by the   *)
(* tree it digests: the content of every file.  Nobody stops the user from *)
(* editing, and every pass over the files reads one file after the other.  *)
(***************************************************************************)
EXTENDS Naturals, FiniteSets

CONSTANTS
    Files,        \* the files of the scan, in the order of the walk
    MaxEdits,     \* bound on edits of a file
    MaxFailures,  \* bound on checks and updates that fail for an outside reason
    MayStop,      \* whether anybody ends the worker
    Reverts,      \* whether an edit may restore an earlier content
    None          \* no tree, no content

Contents == 0..MaxEdits
Trees == [Files -> Contents]
Unread == [f \in Files |-> None]

\* The passes over the files: the watcher's own check, then those of an update.
Updating == {"plan", "extract", "verify", "validate", "publish"}
Passes == {"check", "plan", "extract", "verify", "validate"}

ASSUME FilesAssumption == Files \subseteq Nat /\ IsFiniteSet(Files) /\ Files # {}
ASSUME BoundsAssumption == MaxEdits \in Nat /\ MaxFailures \in Nat
ASSUME ChoicesAssumption == MayStop \in BOOLEAN /\ Reverts \in BOOLEAN
ASSUME NoneAssumption == None \notin Nat /\ None \notin Trees

VARIABLES
    sources,   \* sources[f]: what is in the file now
    built,     \* the tree the published output was made from
    pc,        \* what the worker is doing
    got,       \* got[f]: what the running pass has read of f
    work,      \* the tree the running build extracted
    current,   \* the outcome of the last check
    previous,  \* the check the last successful update answered
    pending,   \* a changed check that waits for the quiet period
    quiet,     \* whether the quiet period since pending was set is over
    retry,     \* "waiting" and then "due" after a failed update
    first,     \* whether the check at the start of the worker is still to come
    stop,      \* why the worker should end
    edits,     \* edits so far
    failures,  \* failed checks and updates so far
    lived      \* history: the trees there have been since the build extracted

loop == <<current, previous, pending, quiet, retry, first>>
vars == <<sources, built, pc, got, work, loop, stop, edits, failures, lived>>

Init ==
    /\ sources = [f \in Files |-> 0]
    /\ built = None /\ work = None /\ current = None
    /\ previous = None /\ pending = None
    /\ pc = "check" /\ got = Unread
    /\ quiet = FALSE /\ retry = "none" /\ first = TRUE
    /\ stop = "none" /\ edits = 0 /\ failures = 0 /\ lived = {}

----------------------------------------------------------------------------
(* A pass over the files. *)

\* The walk reads the next file.
ReadFile ==
    /\ pc \in Passes
    /\ \E f \in Files :
        /\ got[f] = None
        /\ \A g \in Files : got[g] = None => f <= g
        /\ got' = [got EXCEPT ![f] = sources[f]]
    /\ UNCHANGED <<sources, built, pc, work, loop, stop, edits, failures, lived>>

PassDone == \A f \in Files : got[f] # None

\* The next pass starts from nothing read.
GoTo(next) == pc' = next /\ got' = Unread

----------------------------------------------------------------------------
(* Checks. *)

\* A tick of the poll interval: ends the worker or starts a check.
Tick ==
    /\ pc = "idle"
    /\ GoTo(IF stop = "none" THEN "check" ELSE "ended")
    /\ UNCHANGED <<sources, built, work, loop, stop, edits, failures, lived>>

\* A failure for an outside reason.
Fails == failures < MaxFailures /\ failures' = failures + 1

\* A check gives up without an answer.
CheckFailed == GoTo("idle") /\ first' = FALSE

\* A file cannot be read, or changes its size under the walk.
CheckFails ==
    /\ pc = "check"
    /\ CheckFailed
    /\ Fails
    /\ UNCHANGED <<sources, built, work, current, previous, pending, quiet, retry,
                   stop, edits, lived>>

\* fingerprintUntilStopped notices a stop request or the cancelled context.
StopCheck ==
    /\ pc = "check" /\ stop \in {"request", "cancel"}
    /\ GoTo("ended")
    /\ UNCHANGED <<sources, built, work, loop, stop, edits, failures, lived>>

\* It notices that the lock has another owner: an error like any other.
LoseCheck ==
    /\ pc = "check" /\ stop = "lost"
    /\ CheckFailed
    /\ UNCHANGED <<sources, built, work, current, previous, pending, quiet, retry,
                   stop, edits, failures, lived>>

\* A completed check looks at the lock and at the request once more; which of a
\* cancelled context and a completed check wins is open.
FinishCheck ==
    /\ pc = "check" /\ PassDone
    /\ stop \in {"none", "cancel"}
    /\ current' = got
    /\ GoTo("decide")
    /\ UNCHANGED <<sources, built, work, previous, pending, quiet, retry, first,
                   stop, edits, failures, lived>>

----------------------------------------------------------------------------
(* What follows from a check. *)

\* apply: no update without the lock.
Apply == GoTo(IF stop = "lost" THEN "idle" ELSE "plan")

\* The check at the start is always followed by an update.
DecideFirst ==
    /\ first
    /\ first' = FALSE /\ previous' = current
    /\ Apply
    /\ UNCHANGED <<pending, quiet, retry>>

\* Nothing new: an update only to repeat a failed one.
DecideSame ==
    /\ ~first /\ current = previous
    /\ pending' = None
    /\ IF retry = "due" THEN Apply ELSE GoTo("idle")
    /\ UNCHANGED <<previous, quiet, retry, first>>

\* A change, or another change: the quiet period starts.
DecideChanged ==
    /\ ~first /\ current # previous /\ current # pending
    /\ pending' = current /\ quiet' = FALSE
    /\ GoTo("idle")
    /\ UNCHANGED <<previous, retry, first>>

\* The same change again, before or after the end of the quiet period.
DecidePending ==
    /\ ~first /\ current # previous /\ current = pending
    /\ IF quiet
       THEN /\ Apply
            /\ pending' = IF stop = "lost" THEN None ELSE pending
       ELSE GoTo("idle") /\ UNCHANGED pending
    /\ UNCHANGED <<previous, quiet, retry, first>>

Decide ==
    /\ pc = "decide"
    /\ DecideFirst \/ DecideSame \/ DecideChanged \/ DecidePending
    /\ UNCHANGED <<sources, built, work, current, stop, edits, failures, lived>>

----------------------------------------------------------------------------
(* The update. *)

\* Mutated form: records what the last pass read, which may be nothing.
AppliedLastPass(ok) ==
    /\ GoTo("idle")
    /\ pending' = None
    /\ previous' = IF ok /\ stop # "cancel" THEN got ELSE previous
    /\ retry' = CASE stop = "cancel" -> retry
                  [] ok /\ stop # "cancel" -> "none"
                  [] OTHER -> "waiting"
    /\ work' = None /\ lived' = {}
    /\ UNCHANGED <<current, quiet, first>>

\* Mutated form: a failed update is not to be repeated.
AppliedForgetting(ok) ==
    /\ GoTo("idle")
    /\ pending' = None
    /\ previous' = IF ok /\ stop # "cancel" THEN current ELSE previous
    /\ retry' = IF stop = "cancel" THEN retry ELSE "none"
    /\ work' = None /\ lived' = {}
    /\ UNCHANGED <<current, quiet, first>>

\* Mutated form: takes the state of the files after the update as answered.
AppliedRechecked(ok) ==
    /\ GoTo("idle")
    /\ pending' = None
    /\ previous' = IF ok /\ stop # "cancel" THEN sources ELSE previous
    /\ retry' = CASE stop = "cancel" -> retry
                  [] ok /\ stop # "cancel" -> "none"
                  [] OTHER -> "waiting"
    /\ work' = None /\ lived' = {}
    /\ UNCHANGED <<current, quiet, first>>

\* Mutated form: a success does not take back the repetition of a failed update.
AppliedStillDue(ok) ==
    /\ GoTo("idle")
    /\ pending' = None
    /\ previous' = IF ok /\ stop # "cancel" THEN current ELSE previous
    /\ retry' = IF ok \/ stop = "cancel" THEN retry ELSE "waiting"
    /\ work' = None /\ lived' = {}
    /\ UNCHANGED <<current, quiet, first>>

\* What apply and the loop around it record; a cancelled update leaves no trace.
Applied(ok) ==
    /\ GoTo("idle")
    /\ pending' = None
    /\ previous' = IF ok /\ stop # "cancel" THEN current ELSE previous
    /\ retry' = CASE stop = "cancel" -> retry
                  [] ok /\ stop # "cancel" -> "none"
                  [] OTHER -> "waiting"
    /\ work' = None /\ lived' = {}
    /\ UNCHANGED <<current, quiet, first>>

\* ProjectUpdateNeeded: the index describes exactly these files.
SkipUpdate ==
    /\ pc = "plan" /\ PassDone /\ got = built
    /\ Applied(TRUE)
    /\ UNCHANGED <<sources, built, stop, edits, failures>>

StartBuild ==
    /\ pc = "plan" /\ PassDone /\ got # built
    /\ GoTo("extract")
    /\ lived' = {sources}
    /\ UNCHANGED <<sources, built, work, loop, stop, edits, failures>>

Extract ==
    /\ pc = "extract" /\ PassDone
    /\ work' = got
    /\ GoTo("verify")
    /\ UNCHANGED <<sources, built, loop, stop, edits, failures, lived>>

\* Mutated form: one file that is as it was is enough.
UnchangedSomewhere == \E f \in Files : got[f] = work[f]

\* The files were read again and are compared with what was extracted: after
\* the analysis, and when the staged output is validated.
Unchanged == got = work

CompareSources ==
    /\ pc \in {"verify", "validate"} /\ PassDone
    /\ \/ /\ Unchanged
          /\ GoTo(IF pc = "verify" THEN "validate" ELSE "publish")
          /\ UNCHANGED <<work, loop, lived>>
       \/ ~Unchanged /\ Applied(FALSE)
    /\ UNCHANGED <<sources, built, stop, edits, failures>>

\* What follows the publication may still fail, and the update with it.
Publish ==
    /\ pc = "publish"
    /\ built' = work
    /\ \/ Applied(TRUE) /\ UNCHANGED failures
       \/ Applied(FALSE) /\ Fails
    /\ UNCHANGED <<sources, stop, edits>>

\* Any step of an update may fail for a reason of its own, and does when the
\* context is cancelled.
UpdateFails ==
    /\ pc \in Updating
    /\ (stop = "cancel" /\ UNCHANGED failures) \/ Fails
    /\ Applied(FALSE)
    /\ UNCHANGED <<sources, built, stop, edits>>

----------------------------------------------------------------------------
(* Time, the user, and whoever ends the worker. *)

QuietPasses ==
    /\ pending # None /\ ~quiet
    /\ quiet' = TRUE
    /\ UNCHANGED <<sources, built, pc, got, work, current, previous, pending, retry,
                   first, stop, edits, failures, lived>>

RetryDue ==
    /\ retry = "waiting"
    /\ retry' = "due"
    /\ UNCHANGED <<sources, built, pc, got, work, current, previous, pending, quiet,
                   first, stop, edits, failures, lived>>

Edit ==
    /\ edits < MaxEdits
    /\ edits' = edits + 1
    /\ \E f \in Files, c \in IF Reverts THEN 0..edits' ELSE {edits'} :
        /\ c # sources[f]
        /\ sources' = [sources EXCEPT ![f] = c]
    /\ lived' = IF lived = {} THEN {} ELSE lived \cup {sources'}
    /\ UNCHANGED <<built, pc, got, work, loop, stop, failures>>

\* A stop request for this worker, a signal, or the loss of its lock.
AskToStop ==
    /\ MayStop /\ stop = "none" /\ pc # "ended"
    /\ stop' \in {"request", "cancel", "lost"}
    /\ UNCHANGED <<sources, built, pc, got, work, loop, edits, failures, lived>>

----------------------------------------------------------------------------

Worker == \/ ReadFile \/ Tick \/ StopCheck \/ LoseCheck \/ FinishCheck \/ Decide
          \/ SkipUpdate \/ StartBuild \/ Extract \/ CompareSources \/ Publish

Ended == pc = "ended" /\ UNCHANGED vars

Next == \/ Worker \/ CheckFails \/ UpdateFails \/ QuietPasses \/ RetryDue
        \/ Edit \/ AskToStop \/ Ended

Spec == Init /\ [][Next]_vars

\* The worker is scheduled and time passes.  Nothing is assumed of edits,
\* failures and requests to stop.
FairSpec == Spec /\ WF_vars(Worker) /\ WF_vars(QuietPasses) /\ WF_vars(RetryDue)
=============================================================================
