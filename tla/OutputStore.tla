---------------------------- MODULE OutputStore ----------------------------
(***************************************************************************)
(* The recoverable multi-root publication protocol of                      *)
(* internal/outputstore: UpdateMany, Recover and WithReads run by several  *)
(* processes over one shared file system.                                  *)
(*                                                                         *)
(* Every output root r owns, beside itself, a snapshot lock file, a writer *)
(* lock file, a journal file and, for each transaction g, the reserved     *)
(* directories stage[r][g] and backup[r][g].  A directory is abstracted to *)
(* the content of its generation marker: the transaction that produced it, *)
(* 0 for a directory no transaction of the model produced, Torn for a      *)
(* directory an interrupted copy or removal left incomplete.               *)
(*                                                                         *)
(* Roots are natural numbers because the code sorts canonical paths and    *)
(* takes every lock and every loop in that order.                          *)
(***************************************************************************)
EXTENDS Naturals, FiniteSets

CONSTANTS
    Procs,       \* processes running the binary (CLI, watcher, dashboard)
    Roots,       \* output roots, in canonical path order
    Jobs,        \* Jobs[p]: the requests process p may issue
    MaxGen,      \* bound on the transactions ever prepared
    MaxFaults,   \* bound on crashes, cancelled waits and failed file operations
    MaxMoves,    \* bound on moves of a project directory
    Absent,      \* no directory
    Torn,        \* a directory without a usable content
    None         \* no journal, no transaction

Gens == 1..MaxGen
Contents == 0..MaxGen \cup {Absent, Torn}
States == {"prepared", "publishing", "committed", "cleaning", "finalized"}

\* A journal file: the transaction's generation and state, its roots, the
\* coordinator (the first root) and the generation it found at every root.
Journals == [gen : Gens, state : States, lead : Roots, roots : SUBSET Roots,
             prev : [Roots -> Contents]]

\* required: the roots a reader cannot do without (WithReadDependencies).
Requests == [kind : {"update", "recover", "read"}, roots : (SUBSET Roots) \ {{}},
             required : SUBSET Roots]

ASSUME RootsAssumption == Roots \subseteq Nat /\ IsFiniteSet(Roots)
ASSUME JobsAssumption == Jobs \in [Procs -> SUBSET Requests]
ASSUME BoundsAssumption == MaxGen \in Nat /\ MaxFaults \in Nat /\ MaxMoves \in Nat
ASSUME MarkersAssumption == /\ Absent \notin Nat /\ Torn \notin Nat /\ Absent # Torn
                            /\ None \notin Journals

VARIABLES
    dir,      \* dir[r]: the published directory at root r
    stage,    \* stage[r][g]: the staging directory of transaction g for r
    backup,   \* backup[r][g]: the directory g moved out of the way
    journal,  \* journal[r]: the journal file beside r, or None
    leased,   \* roots whose writer lock file exists
    away,     \* roots whose parent directory is not at its path now
    pc,       \* pc[p]: the next step of process p
    task,     \* task[p]: the local variables of the call p is running
    lock,     \* lock[p]: the lock files p holds
    nextGen,  \* the generation the next transaction draws
    faults,   \* crashes, cancelled waits and failed file operations so far
    moves     \* moves of project directories so far

fs == <<dir, stage, backup, journal>>
vars == <<fs, leased, away, pc, task, lock, nextGen, faults, moves>>

Terminal == {"idle", "ok", "failed", "recovery_required"}

NoLocks == [writer |-> {}, init |-> {}, shared |-> {}, excl |-> {}]

\* queue: roots still to Recover.  todo: entries the current loop has left.
\* txn: the journal record in hand.  absent: entries recovery leaves out.
\* mode: on whose behalf a clean-up runs.  seen: what a reader has read.
Tasks == [kind : {"none", "update", "recover", "read"}, roots : SUBSET Roots,
          required : SUBSET Roots, queue : SUBSET Roots, todo : SUBSET Roots,
          txn : Journals \cup {None},
          absent : SUBSET Roots, mode : {"none", "recover", "abandon", "undo", "finish"},
          seen : [Roots -> Contents]]

NoTask == [kind |-> "none", roots |-> {}, required |-> {}, queue |-> {}, todo |-> {}, txn |-> None,
           absent |-> {}, mode |-> "none", seen |-> [r \in Roots |-> Absent]]

Init ==
    /\ dir \in [Roots -> {0, Absent}]
    /\ stage = [r \in Roots |-> [g \in Gens |-> Absent]]
    /\ backup = [r \in Roots |-> [g \in Gens |-> Absent]]
    /\ journal = [r \in Roots |-> None]
    /\ leased = {} /\ away = {}
    /\ pc = [p \in Procs |-> "idle"]
    /\ task = [p \in Procs |-> NoTask]
    /\ lock = [p \in Procs |-> NoLocks]
    /\ nextGen = 1 /\ faults = 0 /\ moves = 0

-----------------------------------------------------------------------------
(* Helpers *)

IsFirst(r, S) == r \in S /\ \A s \in S : r <= s
IsLast(r, S) == r \in S /\ \A s \in S : s <= r

Goto(p, label) == pc' = [pc EXCEPT ![p] = label]

\* The call of p returns: the deferred releases drop every lock it holds.
Return(p, result) ==
    /\ Goto(p, result)
    /\ task' = [task EXCEPT ![p] = NoTask]
    /\ lock' = [lock EXCEPT ![p] = NoLocks]

Fault == faults < MaxFaults /\ faults' = faults + 1

\* The journals of one transaction agree on everything but the state.
SameTransaction(j, k) ==
    /\ j # None /\ k # None
    /\ j.gen = k.gen /\ j.lead = k.lead /\ j.roots = k.roots /\ j.prev = k.prev

\* The journal found at r: a moved project has nothing at its old path.
ReadJournal(r) == IF r \in away THEN None ELSE journal[r]

VerifyPrevious(t, r) == dir[r] = t.prev[r]

\* Mutated form: an exclusive lock does not wait for readers.
NoneHoldsButReaders(p, r, kinds) ==
    \A q \in Procs \ {p} : \A k \in kinds \ {"shared"} : r \notin lock[q][k]

\* Flock conflicts: excl against shared and excl, writer against init and writer.
NoneHolds(p, r, kinds) == \A q \in Procs \ {p} : \A k \in kinds : r \notin lock[q][k]

Entries(p) == task[p].txn.roots \ task[p].absent

\* writeJournal replaces journal[r]; when it reports an error the rename may or
\* may not have taken effect.
Write(r, j) == journal' = [journal EXCEPT ![r] = j]
WriteFails(r, j) == Fault /\ (Write(r, j) \/ UNCHANGED journal)

\* One iteration of a loop over task[p].todo: either the next element of the
\* same loop, or the step `label` with todo refilled for the loop after it.
All(p) == IF task[p].txn = None THEN task[p].roots ELSE Entries(p)
Loop(p, r, label) ==
    LET rest == task[p].todo \ {r} IN
    /\ task' = [task EXCEPT ![p].todo = IF rest = {} THEN All(p) ELSE rest]
    /\ Goto(p, IF rest = {} THEN label ELSE pc[p])

-----------------------------------------------------------------------------
(* A request begins.  UpdateMany recovers every root first; the recover    *)
(* request is RecoverOutputPublications, which stops at the first error.   *)

\* Bound: every update under way that has no generation yet must get one.
Unprepared(q) == task[q].kind = "update" /\ (task[q].queue # {} \/ task[q].txn = None)

StartUpdate(p, j) ==
    /\ j.kind = "update"
    /\ nextGen + Cardinality({q \in Procs : Unprepared(q)}) <= MaxGen
    /\ j.roots \cap away = {}
    /\ task' = [task EXCEPT ![p] = [NoTask EXCEPT !.kind = "update", !.roots = j.roots, !.queue = j.roots]]
    /\ Goto(p, "recover")

StartRecover(p, j) ==
    /\ j.kind = "recover"
    /\ task' = [task EXCEPT ![p] = [NoTask EXCEPT !.kind = "recover", !.roots = j.roots, !.queue = j.roots]]
    /\ Goto(p, "recover")

StartRead(p, j) ==
    /\ j.kind = "read"
    /\ j.roots \cap away = {}
    /\ task' = [task EXCEPT ![p] = [NoTask EXCEPT !.kind = "read", !.roots = j.roots,
                                               !.required = j.required, !.todo = j.roots]]
    /\ Goto(p, "read_init")

Start(p) ==
    /\ pc[p] \in Terminal
    /\ \E j \in Jobs[p] : StartUpdate(p, j) \/ StartRecover(p, j) \/ StartRead(p, j)
    /\ UNCHANGED <<fs, leased, away, lock, nextGen, faults, moves>>

-----------------------------------------------------------------------------
(* Recover *)

\* Recover of root r returned nil: its locks are released; the caller goes on
\* with the next root, or with what it recovered for.
Recovered(p, r) ==
    LET rest == task[p].queue \ {r}
        next == [NoTask EXCEPT !.kind = task[p].kind, !.roots = task[p].roots, !.queue = rest]
    IN IF rest # {}
       THEN /\ task' = [task EXCEPT ![p] = next]
            /\ lock' = [lock EXCEPT ![p] = NoLocks]
            /\ Goto(p, "recover")
       ELSE IF task[p].kind = "update"
       THEN /\ task' = [task EXCEPT ![p] = [next EXCEPT !.todo = task[p].roots]]
            /\ lock' = [lock EXCEPT ![p] = NoLocks]
            /\ Goto(p, "writer_lock")
       ELSE Return(p, "ok")

\* The journal is read before any lock is taken.
RecoverReadLocal(p) ==
    /\ pc[p] = "recover"
    /\ \E r \in task[p].queue :
        /\ IsFirst(r, task[p].queue)
        /\ IF ReadJournal(r) = None
           THEN Recovered(p, r)
           ELSE /\ task' = [task EXCEPT ![p].txn = journal[r]]
                /\ Goto(p, "decision")
                /\ UNCHANGED lock
    /\ UNCHANGED <<fs, leased, away, nextGen, faults, moves>>

\* recoveryRoots: only before promotion, or after finalization, may an entry
\* whose project has moved be left out.
AbsentEntries(j) == IF j.state \in {"prepared", "finalized"} THEN j.roots \cap away ELSE {}

\* Mutated form: recovery locks the coordinator only.
LockCoordinatorFor(p, j, label) ==
    /\ task' = [task EXCEPT ![p].txn = j, ![p].absent = AbsentEntries(j), ![p].todo = {j.lead}]
    /\ Goto(p, label)

\* Take the locks of the entries of decision j that are not absent.
LockFor(p, j, label) ==
    /\ task' = [task EXCEPT ![p].txn = j, ![p].absent = AbsentEntries(j),
                            ![p].todo = j.roots \ AbsentEntries(j)]
    /\ Goto(p, label)

RecoverReadDecision(p) ==
    /\ pc[p] = "decision"
    /\ LET d == ReadJournal(task[p].txn.lead) IN
       IF ~SameTransaction(task[p].txn, d)
       THEN Return(p, "recovery_required")
       ELSE /\ LockFor(p, d, IF d.state = "finalized" THEN "lock_finalized" ELSE "lock_recovery")
            /\ UNCHANGED lock
    /\ UNCHANGED <<fs, leased, away, nextGen, faults, moves>>

\* Mutated form: recovery takes its locks in any order.
RecoverLockUnordered(p) ==
    /\ pc[p] \in {"lock_recovery", "lock_finalized"}
    /\ \E r \in task[p].todo :
        /\ r \notin away
        /\ NoneHolds(p, r, {"shared", "excl"})
        /\ lock' = [lock EXCEPT ![p].excl = @ \cup {r}]
        /\ Loop(p, r, IF pc[p] = "lock_finalized" THEN "retire" ELSE "recheck_recovery")
    /\ UNCHANGED <<fs, leased, away, nextGen, faults, moves>>

RecoverLock(p) ==
    /\ pc[p] \in {"lock_recovery", "lock_finalized"}
    /\ \E r \in task[p].todo :
        /\ IsFirst(r, task[p].todo)
        /\ r \notin away
        /\ NoneHolds(p, r, {"shared", "excl"})
        /\ lock' = [lock EXCEPT ![p].excl = @ \cup {r}]
        /\ Loop(p, r, IF pc[p] = "lock_finalized" THEN "retire" ELSE "recheck_recovery")
    /\ UNCHANGED <<fs, leased, away, nextGen, faults, moves>>

\* A project moved after its entry was read: opening its lock file fails.  A
\* decision finalized meanwhile is followed, anything else is an error.
RecoverLockFails(p) ==
    /\ pc[p] \in {"lock_recovery", "lock_finalized"}
    /\ \E r \in task[p].todo : IsFirst(r, task[p].todo) /\ r \in away
    /\ LET d == ReadJournal(task[p].txn.lead) IN
       IF pc[p] = "lock_recovery" /\ SameTransaction(task[p].txn, d) /\ d.state = "finalized"
       THEN LockFor(p, d, "lock_finalized") /\ lock' = [lock EXCEPT ![p] = NoLocks]
       ELSE Return(p, "failed")
    /\ UNCHANGED <<fs, leased, away, nextGen, faults, moves>>

\* Mutated form: a root whose journal was not written yet is a conflict.
PeersAllAgree(j) == \A r \in j.roots : SameTransaction(j, ReadJournal(r))

\* Under the locks everything is read again; nil, an error, or the repair step.
PeersAgree(j) ==
    \A r \in j.roots : \/ ReadJournal(r) = None /\ j.state = "prepared"
                       \/ SameTransaction(j, ReadJournal(r))

\* Mutated forms: a commit is rolled back; cleaning starts over at its checks.
RepairByRollback(state) ==
    CASE state = "prepared"   -> "verify_prepared"
      [] state \in {"publishing", "committed"} -> "verify_rollback"
      [] state = "cleaning"   -> "verify_cleaning"
      [] state = "finalized"  -> "retire"
RepairFromChecks(state) ==
    CASE state = "prepared"   -> "verify_prepared"
      [] state = "publishing" -> "verify_rollback"
      [] state \in {"committed", "cleaning"} -> "verify_committed"
      [] state = "finalized"  -> "retire"

RepairStep(state) ==
    CASE state = "prepared"   -> "verify_prepared"
      [] state = "publishing" -> "verify_rollback"
      [] state = "committed"  -> "verify_committed"
      [] state = "cleaning"   -> "verify_cleaning"
      [] state = "finalized"  -> "retire"

RecoverRecheck(p) ==
    /\ pc[p] = "recheck_recovery"
    /\ \E r \in task[p].queue :
        /\ IsFirst(r, task[p].queue)
        /\ LET t == task[p].txn
               local == ReadJournal(r)
               d == ReadJournal(t.lead)
           IN IF local = None
              THEN Recovered(p, r)
              ELSE IF /\ SameTransaction(t, local) /\ SameTransaction(t, d)
                      /\ task[p].absent # {} => d.state = t.state
                      /\ task[p].absent \subseteq away
                      /\ d.state = "finalized" \/ PeersAgree(d)
              THEN /\ task' = [task EXCEPT ![p].txn = d, ![p].mode = "recover"]
                   /\ Goto(p, RepairStep(d.state))
                   /\ UNCHANGED lock
              ELSE Return(p, "recovery_required")
    /\ UNCHANGED <<fs, leased, away, nextGen, faults, moves>>

-----------------------------------------------------------------------------
(* Repair and clean-up, run by Recover and by the publishing process itself *)

\* What the caller of a failed clean-up gets: persistPrepared's own clean-up is
\* joined with a plain error once its directory checks have passed.
CleanupFailed(p, late) ==
    Return(p, IF task[p].mode = "abandon" /\ late THEN "failed" ELSE "recovery_required")

\* cleanupPreparedExcept, before anything is deleted.
VerifyPrepared(p) ==
    /\ pc[p] = "verify_prepared"
    /\ IF /\ task[p].absent \subseteq away
          /\ \A r \in Entries(p) : /\ VerifyPrevious(task[p].txn, r)
                                   /\ backup[r][task[p].txn.gen] = Absent
       THEN Goto(p, "drop_stage") /\ UNCHANGED <<task, lock>>
       ELSE CleanupFailed(p, FALSE)
    /\ UNCHANGED <<fs, leased, away, nextGen, faults, moves>>

DropStage(p) ==
    /\ pc[p] = "drop_stage"
    /\ \E r \in task[p].todo :
        /\ IsFirst(r, task[p].todo)
        /\ \/ /\ stage' = [stage EXCEPT ![r][task[p].txn.gen] = Absent]
              /\ Loop(p, r, "finalize")
              /\ UNCHANGED <<lock, faults>>
           \/ /\ Fault
              /\ stage[r][task[p].txn.gen] # Absent
              /\ stage' = [stage EXCEPT ![r][task[p].txn.gen] = Torn]
              /\ CleanupFailed(p, FALSE)
    /\ UNCHANGED <<dir, backup, journal, leased, away, nextGen, moves>>

\* The coordinator records `state`; the process goes on at `label`, or gives up.
RecordDecision(p, state, label) ==
    LET t == [task[p].txn EXCEPT !.state = state] IN
    \/ /\ Write(t.lead, t)
       /\ task' = [task EXCEPT ![p].txn = t]
       /\ Goto(p, label)
       /\ UNCHANGED <<lock, faults>>
    \/ /\ WriteFails(t.lead, t)
       /\ CleanupFailed(p, state = "finalized")

\* Mutated form: a state no reader of journals knows.
FinalizeAsRetired(p) ==
    /\ pc[p] = "finalize"
    /\ RecordDecision(p, "retired", "retire")
    /\ UNCHANGED <<dir, stage, backup, leased, away, nextGen, moves>>

Finalize(p) ==
    /\ pc[p] = "finalize"
    /\ RecordDecision(p, "finalized", "retire")
    /\ UNCHANGED <<dir, stage, backup, leased, away, nextGen, moves>>

\* Mutated form: the cause of a rollback is not reported.
RetiredQuietly(p) ==
    CASE task[p].mode = "abandon" -> Return(p, "failed")
      [] task[p].mode \in {"undo", "finish"} -> Return(p, "ok")
      [] OTHER -> \E r \in task[p].queue : IsFirst(r, task[p].queue) /\ Recovered(p, r)

\* The last journal of the transaction is gone.
Retired(p) ==
    CASE task[p].mode \in {"abandon", "undo"} -> Return(p, "failed")
      [] task[p].mode = "finish" -> Return(p, "ok")
      [] OTHER -> \E r \in task[p].queue : IsFirst(r, task[p].queue) /\ Recovered(p, r)

\* Mutated form: whatever journal is found at a root of the transaction goes.
RetireAny(p) ==
    /\ pc[p] = "retire"
    /\ \E r \in task[p].todo :
        /\ IsLast(r, task[p].todo)
        /\ Write(r, None)
        /\ IF task[p].todo = {r} THEN Retired(p) ELSE Loop(p, r, "retire") /\ UNCHANGED lock
    /\ UNCHANGED <<dir, stage, backup, leased, away, nextGen, faults, moves>>

\* Mutated form: the coordinator's journal goes first.
RetireForward(p) ==
    /\ pc[p] = "retire"
    /\ \E r \in task[p].todo :
        /\ IsFirst(r, task[p].todo)
        /\ LET mine == SameTransaction(task[p].txn, ReadJournal(r)) IN
           \/ /\ IF mine THEN Write(r, None) ELSE UNCHANGED journal
              /\ IF task[p].todo = {r} THEN Retired(p) ELSE Loop(p, r, "retire") /\ UNCHANGED lock
              /\ UNCHANGED faults
           \/ mine /\ WriteFails(r, None) /\ CleanupFailed(p, TRUE)
    /\ UNCHANGED <<dir, stage, backup, leased, away, nextGen, moves>>

\* removeJournalsExcept: this transaction's journals only, the coordinator last.
Retire(p) ==
    /\ pc[p] = "retire"
    /\ \E r \in task[p].todo :
        /\ IsLast(r, task[p].todo)
        /\ LET mine == SameTransaction(task[p].txn, ReadJournal(r)) IN
           \/ /\ IF mine THEN Write(r, None) ELSE UNCHANGED journal
              /\ IF task[p].todo = {r} THEN Retired(p) ELSE Loop(p, r, "retire") /\ UNCHANGED lock
              /\ UNCHANGED faults
           \/ mine /\ WriteFails(r, None) /\ CleanupFailed(p, TRUE)
    /\ UNCHANGED <<dir, stage, backup, leased, away, nextGen, moves>>

\* Mutated form: a root whose promotion had not begun is unexpected.
RollbackNeedsBackup(t, r) == backup[r][t.gen] = t.prev[r]

\* Rollback validates every entry before it touches one.
RollbackEntryValid(t, r) ==
    LET saved == backup[r][t.gen] IN
    /\ saved # Absent => t.prev[r] # Absent /\ saved = t.prev[r]
    /\ CASE dir[r] = t.gen -> /\ stage[r][t.gen] = Absent
                              /\ t.prev[r] # Absent => saved # Absent
         [] dir[r] = Absent -> t.prev[r] # Absent => saved # Absent
         [] OTHER -> t.prev[r] # Absent /\ dir[r] = t.prev[r] /\ saved = Absent

VerifyRollback(p) ==
    /\ pc[p] = "verify_rollback"
    /\ IF \A r \in Entries(p) : RollbackEntryValid(task[p].txn, r)
       THEN Goto(p, "undo_promotion") /\ UNCHANGED <<task, lock>>
       ELSE CleanupFailed(p, FALSE)
    /\ UNCHANGED <<fs, leased, away, nextGen, faults, moves>>

\* Rollback, last entry first: the promoted directory back to the stage, then
\* the backup back to the root.  A failed rename may have taken effect.
UndoPromotion(p) ==
    /\ pc[p] = "undo_promotion"
    /\ \E r \in task[p].todo :
        /\ IsLast(r, task[p].todo)
        /\ LET g == task[p].txn.gen
               moved == /\ dir' = [dir EXCEPT ![r] = Absent]
                        /\ stage' = [stage EXCEPT ![r][g] = g]
           IN \/ /\ IF dir[r] = g THEN moved ELSE UNCHANGED <<dir, stage>>
                 /\ Goto(p, "undo_backup")
                 /\ UNCHANGED <<task, lock, faults>>
              \/ /\ dir[r] = g /\ Fault
                 /\ moved \/ UNCHANGED <<dir, stage>>
                 /\ CleanupFailed(p, FALSE)
    /\ UNCHANGED <<backup, journal, leased, away, nextGen, moves>>

UndoBackup(p) ==
    /\ pc[p] = "undo_backup"
    /\ \E r \in task[p].todo :
        /\ IsLast(r, task[p].todo)
        /\ LET g == task[p].txn.gen
               restored == /\ dir' = [dir EXCEPT ![r] = backup[r][g]]
                           /\ backup' = [backup EXCEPT ![r][g] = Absent]
           IN \/ /\ IF backup[r][g] # Absent THEN restored ELSE UNCHANGED <<dir, backup>>
                 /\ IF task[p].todo = {r} THEN Goto(p, "record_prepared")
                                          ELSE Goto(p, "undo_promotion")
                 /\ task' = [task EXCEPT ![p].todo = IF @ = {r} THEN All(p) ELSE @ \ {r}]
                 /\ UNCHANGED <<lock, faults>>
              \/ /\ backup[r][g] # Absent /\ Fault
                 /\ restored \/ UNCHANGED <<dir, backup>>
                 /\ CleanupFailed(p, FALSE)
    /\ UNCHANGED <<stage, journal, leased, away, nextGen, moves>>

RecordPrepared(p) ==
    /\ pc[p] = "record_prepared"
    /\ RecordDecision(p, "prepared", "verify_prepared")
    /\ UNCHANGED <<dir, stage, backup, leased, away, nextGen, moves>>

\* cleanupCommitted: the outputs and the backups are what the journal says, and
\* the cleaning decision is durable before anything is deleted.
VerifyCommitted(p) ==
    /\ pc[p] = "verify_committed"
    /\ LET t == task[p].txn IN
       IF \A r \in Entries(p) : dir[r] = t.gen /\ backup[r][t.gen] \in {Absent, t.prev[r]}
       THEN RecordDecision(p, "cleaning", "verify_cleaning")
       ELSE CleanupFailed(p, FALSE) /\ UNCHANGED <<journal, faults>>
    /\ UNCHANGED <<dir, stage, backup, leased, away, nextGen, moves>>

VerifyCleaning(p) ==
    /\ pc[p] = "verify_cleaning"
    /\ IF \A r \in Entries(p) : dir[r] = task[p].txn.gen
       THEN Goto(p, "clean") /\ UNCHANGED <<task, lock>>
       ELSE CleanupFailed(p, FALSE)
    /\ UNCHANGED <<fs, leased, away, nextGen, faults, moves>>

\* The stage, then the backup; an interrupted removal leaves a torn directory.
Clean(p) ==
    /\ pc[p] = "clean"
    /\ \E r \in task[p].todo :
        /\ IsFirst(r, task[p].todo)
        /\ LET g == task[p].txn.gen IN
           \/ /\ stage' = [stage EXCEPT ![r][g] = Absent]
              /\ backup' = [backup EXCEPT ![r][g] = Absent]
              /\ Loop(p, r, "finalize")
              /\ UNCHANGED <<lock, faults>>
           \/ /\ Fault
              /\ \/ /\ stage[r][g] # Absent
                    /\ stage' = [stage EXCEPT ![r][g] = Torn]
                    /\ UNCHANGED backup
                 \/ /\ backup[r][g] # Absent
                    /\ stage' = [stage EXCEPT ![r][g] = Absent]
                    /\ backup' = [backup EXCEPT ![r][g] = Torn]
              /\ CleanupFailed(p, FALSE)
    /\ UNCHANGED <<dir, journal, leased, away, nextGen, moves>>

-----------------------------------------------------------------------------
(* UpdateMany, after recovery: preparation under shared snapshot locks *)

\* Mutated form: writers do not wait for each other.
WriterLockShared(p) ==
    /\ pc[p] = "writer_lock"
    /\ \E r \in task[p].todo :
        /\ IsFirst(r, task[p].todo)
        /\ lock' = [lock EXCEPT ![p].writer = @ \cup {r}]
        /\ leased' = leased \cup {r}
        /\ Loop(p, r, "shared_lock")
    /\ UNCHANGED <<fs, away, nextGen, faults, moves>>

WriterLock(p) ==
    /\ pc[p] = "writer_lock"
    /\ \E r \in task[p].todo :
        /\ IsFirst(r, task[p].todo)
        /\ NoneHolds(p, r, {"writer", "init"})
        /\ lock' = [lock EXCEPT ![p].writer = @ \cup {r}]
        /\ leased' = leased \cup {r}
        /\ Loop(p, r, "shared_lock")
    /\ UNCHANGED <<fs, away, nextGen, faults, moves>>

SharedLock(p) ==
    /\ pc[p] = "shared_lock"
    /\ \E r \in task[p].todo :
        /\ IsFirst(r, task[p].todo)
        /\ NoneHolds(p, r, {"excl"})
        /\ lock' = [lock EXCEPT ![p].shared = @ \cup {r}]
        /\ Loop(p, r, "inspect")
    /\ UNCHANGED <<fs, leased, away, nextGen, faults, moves>>

\* A pending journal is refused; stages a crashed writer left are removed.
Inspect(p) ==
    /\ pc[p] = "inspect"
    /\ \E r \in task[p].todo :
        /\ IsFirst(r, task[p].todo)
        /\ IF ReadJournal(r) # None
           THEN Return(p, "recovery_required") /\ UNCHANGED stage
           ELSE /\ stage' = [stage EXCEPT ![r] = [g \in Gens |-> Absent]]
                /\ Loop(p, r, "prepare")
                /\ UNCHANGED lock
    /\ UNCHANGED <<dir, backup, journal, leased, away, nextGen, faults, moves>>

\* prepareJournal: a fresh generation and what each root holds now.
Prepare(p) ==
    /\ pc[p] = "prepare" /\ nextGen \in Gens
    /\ \E lead \in task[p].roots :
        /\ IsFirst(lead, task[p].roots)
        /\ task' = [task EXCEPT ![p].txn =
              [gen |-> nextGen, state |-> "prepared", lead |-> lead, roots |-> task[p].roots,
               prev |-> [r \in Roots |-> IF r \in task[p].roots THEN dir[r] ELSE Absent]]]
    /\ nextGen' = nextGen + 1
    /\ Goto(p, "stage")
    /\ UNCHANGED <<fs, leased, away, lock, faults, moves>>

\* Mutated form: the outcome of the copy is not looked at.
StageUnchecked(p) ==
    /\ pc[p] = "stage"
    /\ \E r \in task[p].todo :
        /\ IsFirst(r, task[p].todo)
        /\ LET g == task[p].txn.gen IN
           \E left \in {g, Torn} : stage' = [stage EXCEPT ![r][g] = left]
        /\ Loop(p, r, "validate")
    /\ UNCHANGED <<dir, backup, journal, leased, away, lock, nextGen, faults, moves>>

\* mkdir, copy, write, generation marker, validate, sync; when any of them
\* fails, or the call is cancelled, the stage is missing or incomplete.
Stage(p) ==
    /\ pc[p] = "stage"
    /\ \E r \in task[p].todo :
        /\ IsFirst(r, task[p].todo)
        /\ LET g == task[p].txn.gen IN
           \/ /\ stage' = [stage EXCEPT ![r][g] = g]
              /\ Loop(p, r, "validate")
           \/ /\ \E left \in {Absent, Torn} : stage' = [stage EXCEPT ![r][g] = left]
              /\ task' = [task EXCEPT ![p].todo = All(p)]
              /\ Goto(p, "discard")
    /\ UNCHANGED <<dir, backup, journal, leased, away, lock, nextGen, faults, moves>>

\* The caller's validation of its inputs, last step under the shared locks.
Validate(p) ==
    /\ pc[p] = "validate"
    /\ \/ Goto(p, "excl_lock") /\ lock' = [lock EXCEPT ![p].shared = {}]
       \/ Goto(p, "discard") /\ UNCHANGED lock
    /\ UNCHANGED <<fs, leased, away, task, nextGen, faults, moves>>

ExclLock(p) ==
    /\ pc[p] = "excl_lock"
    /\ \E r \in task[p].todo :
        /\ IsFirst(r, task[p].todo)
        /\ NoneHolds(p, r, {"shared", "excl"})
        /\ lock' = [lock EXCEPT ![p].excl = @ \cup {r}]
        /\ Loop(p, r, "recheck")
    /\ UNCHANGED <<fs, leased, away, nextGen, faults, moves>>

\* discardStages tries every stage, whatever happens to the others.
Discard(p) ==
    /\ pc[p] = "discard"
    /\ \E r \in task[p].todo :
        /\ IsFirst(r, task[p].todo)
        /\ LET g == task[p].txn.gen IN
           \/ stage' = [stage EXCEPT ![r][g] = Absent] /\ UNCHANGED faults
           \/ stage[r][g] # Absent /\ Fault /\ stage' = [stage EXCEPT ![r][g] = Torn]
        /\ IF task[p].todo = {r} THEN Return(p, "failed") ELSE Loop(p, r, "discard") /\ UNCHANGED lock
    /\ UNCHANGED <<dir, backup, journal, leased, away, nextGen, moves>>

-----------------------------------------------------------------------------
(* UpdateMany: publication under exclusive snapshot locks *)

\* The outputs may have changed between the shared and the exclusive locks.
Recheck(p) ==
    /\ pc[p] = "recheck"
    /\ \/ /\ \A r \in task[p].roots : ReadJournal(r) = None /\ VerifyPrevious(task[p].txn, r)
          /\ Goto(p, "persist")
       \/ Goto(p, "discard")   \* changed, or cancelled
    /\ UNCHANGED <<fs, leased, away, task, lock, nextGen, faults, moves>>

\* persistPrepared, coordinator first; a failure is cleaned up at once.
Persist(p) ==
    /\ pc[p] = "persist"
    /\ \E r \in task[p].todo :
        /\ IsFirst(r, task[p].todo)
        /\ \/ /\ Write(r, task[p].txn)
              /\ Loop(p, r, "publish")
              /\ UNCHANGED faults
           \/ /\ WriteFails(r, task[p].txn)
              /\ task' = [task EXCEPT ![p].mode = "abandon", ![p].todo = All(p)]
              /\ Goto(p, "verify_prepared")
    /\ UNCHANGED <<dir, stage, backup, leased, away, lock, nextGen, moves>>

Publish(p) ==
    /\ pc[p] = "publish"
    /\ RecordDecision(p, "publishing", "promote_backup")
    /\ UNCHANGED <<dir, stage, backup, leased, away, nextGen, moves>>

\* rollbackFailure
Undo(p) ==
    /\ task' = [task EXCEPT ![p].mode = "undo", ![p].todo = All(p)]
    /\ Goto(p, "verify_rollback")

\* Mutated form: the old directory is deleted, not set aside.
PromoteOver(p) ==
    /\ pc[p] = "promote_backup"
    /\ \E r \in task[p].todo :
        /\ IsFirst(r, task[p].todo)
        /\ VerifyPrevious(task[p].txn, r)
        /\ dir' = [dir EXCEPT ![r] = Absent]
        /\ Goto(p, "promote_stage")
    /\ UNCHANGED <<stage, backup, journal, leased, away, task, lock, nextGen, faults, moves>>

\* Promotion of one root: the old directory to the backup, ...
PromoteBackup(p) ==
    /\ pc[p] = "promote_backup"
    /\ \E r \in task[p].todo :
        /\ IsFirst(r, task[p].todo)
        /\ LET t == task[p].txn
               moved == /\ dir' = [dir EXCEPT ![r] = Absent]
                        /\ backup' = [backup EXCEPT ![r][t.gen] = dir[r]]
           IN \/ /\ VerifyPrevious(t, r)
                 /\ IF t.prev[r] # Absent THEN moved ELSE UNCHANGED <<dir, backup>>
                 /\ Goto(p, "promote_stage")
                 /\ UNCHANGED <<task, faults>>
              \/ /\ t.prev[r] # Absent /\ Fault
                 /\ moved \/ UNCHANGED <<dir, backup>>
                 /\ Undo(p)
              \/ Undo(p) /\ UNCHANGED <<dir, backup, faults>>   \* cancelled, or changed
    /\ UNCHANGED <<stage, journal, leased, away, lock, nextGen, moves>>

\* ... then the stage to the root.
PromoteStage(p) ==
    /\ pc[p] = "promote_stage"
    /\ \E r \in task[p].todo :
        /\ IsFirst(r, task[p].todo)
        /\ LET g == task[p].txn.gen
               moved == /\ dir' = [dir EXCEPT ![r] = stage[r][g]]
                        /\ stage' = [stage EXCEPT ![r][g] = Absent]
           IN \/ /\ moved
                 /\ task' = [task EXCEPT ![p].todo = IF @ = {r} THEN All(p) ELSE @ \ {r}]
                 /\ Goto(p, IF task[p].todo = {r} THEN "commit" ELSE "promote_backup")
                 /\ UNCHANGED faults
              \/ /\ Fault
                 /\ moved \/ UNCHANGED <<dir, stage>>
                 /\ Undo(p)
    /\ UNCHANGED <<backup, journal, leased, away, lock, nextGen, moves>>

\* The commit decision, unless the call was cancelled.  A failed write has an
\* uncertain outcome: everything is left for recovery.
Commit(p) ==
    /\ pc[p] = "commit"
    /\ LET t == [task[p].txn EXCEPT !.state = "committed"] IN
       \/ /\ Write(t.lead, t)
          /\ task' = [task EXCEPT ![p].txn = t, ![p].mode = "finish"]
          /\ Goto(p, "verify_committed")
          /\ UNCHANGED <<lock, faults>>
       \/ WriteFails(t.lead, t) /\ Return(p, "recovery_required")
       \/ Undo(p) /\ UNCHANGED <<journal, lock, faults>>
    /\ UNCHANGED <<dir, stage, backup, leased, away, nextGen, moves>>

-----------------------------------------------------------------------------
(* Readers: WithReads *)

\* Mutated form: the reader holds the snapshot lock while it waits.
ReadInitHolding(p) ==
    /\ pc[p] = "read_init"
    /\ \E r \in task[p].todo :
        /\ IsFirst(r, task[p].todo)
        /\ NoneHolds(p, r, {"excl"})
        /\ lock' = [lock EXCEPT ![p].shared = @ \cup {r}]
        /\ IF r \in task[p].required /\ dir[r] = Absent /\ r \in leased
           THEN Goto(p, "read_wait") /\ UNCHANGED task
           ELSE Loop(p, r, "read_lock")
    /\ UNCHANGED <<fs, leased, away, nextGen, faults, moves>>

\* Before an output exists its readers wait for the writer that creates it.
ReadInit(p) ==
    /\ pc[p] = "read_init"
    /\ \E r \in task[p].todo :
        /\ IsFirst(r, task[p].todo)
        /\ IF r \in task[p].required /\ dir[r] = Absent /\ r \in leased
           THEN Goto(p, "read_wait") /\ UNCHANGED task
           ELSE Loop(p, r, "read_lock")
    /\ UNCHANGED <<fs, leased, away, lock, nextGen, faults, moves>>

ReadWait(p) ==
    /\ pc[p] = "read_wait"
    /\ \E r \in task[p].todo :
        /\ IsFirst(r, task[p].todo)
        /\ NoneHolds(p, r, {"writer"})
        /\ lock' = [lock EXCEPT ![p].init = @ \cup {r}]
        /\ task' = [task EXCEPT ![p].todo = IF @ = {r} THEN All(p) ELSE @ \ {r}]
        /\ Goto(p, IF task[p].todo = {r} THEN "read_lock" ELSE "read_init")
    /\ UNCHANGED <<fs, leased, away, nextGen, faults, moves>>

ReadLock(p) ==
    /\ pc[p] = "read_lock"
    /\ \E r \in task[p].todo :
        /\ IsFirst(r, task[p].todo)
        /\ NoneHolds(p, r, {"excl"})
        /\ lock' = [lock EXCEPT ![p].shared = @ \cup {r}]
        /\ Loop(p, r, "read_check")
    /\ UNCHANGED <<fs, leased, away, nextGen, faults, moves>>

\* Mutated form: a pending publication is not looked for.
ReadUnchecked(p) ==
    /\ pc[p] = "read_check"
    /\ Goto(p, "read")
    /\ UNCHANGED <<fs, leased, away, task, lock, nextGen, faults, moves>>

ReadCheck(p) ==
    /\ pc[p] = "read_check"
    /\ IF \A r \in task[p].roots : ReadJournal(r) = None
       THEN Goto(p, "read") /\ UNCHANGED <<task, lock>>
       ELSE Return(p, "recovery_required")
    /\ UNCHANGED <<fs, leased, away, nextGen, faults, moves>>

\* The callback reads the outputs one by one, in any order.
Read(p) ==
    /\ pc[p] = "read"
    /\ \E r \in task[p].todo :
        /\ task' = [task EXCEPT ![p].seen[r] = dir[r], ![p].todo = @ \ {r}]
        /\ Goto(p, IF task[p].todo = {r} THEN "read_done" ELSE "read")
    /\ UNCHANGED <<fs, leased, away, lock, nextGen, faults, moves>>

ReadDone(p) ==
    /\ pc[p] = "read_done"
    /\ Return(p, "ok")
    /\ UNCHANGED <<fs, leased, away, nextGen, faults, moves>>

-----------------------------------------------------------------------------
(* The environment *)

\* The context of a call is cancelled while it waits for a lock or before it
\* has prepared anything; later checks are alternatives of the steps above.
\* It counts as a fault, so that no user starts and cancels calls for ever.
Cancel(p) ==
    /\ Fault
    /\ \/ /\ pc[p] \in {"recover", "decision", "lock_recovery", "lock_finalized", "writer_lock",
                        "shared_lock", "read_init", "read_wait", "read_lock", "read_done"}
          /\ Return(p, "failed")
       \/ /\ pc[p] = "excl_lock"
          /\ task' = [task EXCEPT ![p].todo = All(p)]
          /\ lock' = [lock EXCEPT ![p].excl = {}]
          /\ Goto(p, "discard")
    /\ UNCHANGED <<fs, leased, away, nextGen, moves>>

\* The process dies: the operating system drops its locks, the files stay.
Crash(p) ==
    /\ pc[p] \notin Terminal
    /\ Fault
    /\ Return(p, "idle")
    /\ UNCHANGED <<fs, leased, away, nextGen, moves>>

\* A project directory is renamed, or put back, while no call works in it.
Unused(r) == \A p \in Procs : /\ \A k \in DOMAIN lock[p] : r \notin lock[p][k]
                              /\ task[p].kind \in {"update", "read"} => r \notin task[p].roots

MoveAway(r) ==
    /\ r \notin away /\ Unused(r)
    /\ moves < MaxMoves /\ moves' = moves + 1
    /\ away' = away \cup {r}
    /\ UNCHANGED <<fs, leased, pc, task, lock, nextGen, faults>>

MoveBack(r) ==
    /\ r \in away
    /\ away' = away \ {r}
    /\ UNCHANGED <<fs, leased, pc, task, lock, nextGen, faults, moves>>

-----------------------------------------------------------------------------

RecoverStep(p) ==
    \/ RecoverReadLocal(p) \/ RecoverReadDecision(p) \/ RecoverLock(p)
    \/ RecoverLockFails(p) \/ RecoverRecheck(p)

CleanupStep(p) ==
    \/ VerifyPrepared(p) \/ DropStage(p) \/ Finalize(p) \/ Retire(p)
    \/ VerifyRollback(p) \/ UndoPromotion(p) \/ UndoBackup(p) \/ RecordPrepared(p)
    \/ VerifyCommitted(p) \/ VerifyCleaning(p) \/ Clean(p)

UpdateStep(p) ==
    \/ WriterLock(p) \/ SharedLock(p) \/ Inspect(p) \/ Prepare(p) \/ Stage(p)
    \/ Validate(p) \/ ExclLock(p) \/ Discard(p) \/ Recheck(p) \/ Persist(p)
    \/ Publish(p) \/ PromoteBackup(p) \/ PromoteStage(p) \/ Commit(p)

ReadStep(p) ==
    \/ ReadInit(p) \/ ReadWait(p) \/ ReadLock(p) \/ ReadCheck(p) \/ Read(p) \/ ReadDone(p)

\* What a running call does of itself.
Step(p) == RecoverStep(p) \/ CleanupStep(p) \/ UpdateStep(p) \/ ReadStep(p)

Next ==
    \/ \E p \in Procs : Start(p) \/ Step(p) \/ Cancel(p) \/ Crash(p)
    \/ \E r \in Roots : MoveAway(r) \/ MoveBack(r)

Spec == Init /\ [][Next]_vars

-----------------------------------------------------------------------------
(* Types *)

Labels == Terminal \cup
    {"recover", "decision", "lock_recovery", "lock_finalized", "recheck_recovery",
     "verify_prepared", "drop_stage", "finalize", "retire", "verify_rollback",
     "undo_promotion", "undo_backup", "record_prepared", "verify_committed",
     "verify_cleaning", "clean", "writer_lock", "shared_lock", "inspect", "prepare",
     "stage", "validate", "excl_lock", "discard", "recheck", "persist", "publish",
     "promote_backup", "promote_stage", "commit", "read_init", "read_wait",
     "read_lock", "read_check", "read", "read_done"}

Locks == [writer : SUBSET Roots, init : SUBSET Roots, shared : SUBSET Roots, excl : SUBSET Roots]

\* Every variable stays in its type; in particular a journal only ever has one
\* of the states validateJournalMetadata accepts.
TypeOK ==
    /\ dir \in [Roots -> Contents]
    /\ stage \in [Roots -> [Gens -> Contents]]
    /\ backup \in [Roots -> [Gens -> Contents]]
    /\ journal \in [Roots -> Journals \cup {None}]
    /\ leased \subseteq Roots /\ away \subseteq Roots
    /\ pc \in [Procs -> Labels]
    /\ task \in [Procs -> Tasks]
    /\ lock \in [Procs -> Locks]
    /\ nextGen \in 1..(MaxGen + 1) /\ faults \in 0..MaxFaults /\ moves \in 0..MaxMoves

=============================================================================
