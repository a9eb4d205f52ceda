----------------------- MODULE OutputStoreProperties -----------------------
(***************************************************************************)
(* What makes the publication protocol of OutputStore correct: it          *)
(* implements AtomicPublication, never loses the last good output, can be  *)
(* recovered from every interruption, and does not block.                  *)
(***************************************************************************)
EXTENDS OutputStore

\* The coordinator's record of the transaction journalled at r.
Decision(r) == LET j == journal[r] IN IF j = None THEN None ELSE journal[j.lead]
Decided(r, states) ==
    SameTransaction(journal[r], Decision(r)) /\ Decision(r).state \in states

\* What readers of root r may rely on: the output itself, except that a root
\* being promoted still counts as its previous generation until the commit
\* decision is on the coordinator's journal.
Current(r) == IF Decided(r, {"publishing"}) THEN journal[r].prev[r] ELSE dir[r]

\* UpdateMany and WithReads implement atomic publication: whatever crashes,
\* fails, rolls back or is recovered, all roots of a transaction change
\* generation in one step, at the commit record, and a reader's view is the
\* state of all its roots at one moment.
Abstract == INSTANCE AtomicPublication WITH
    published <- [r \in Roots |-> Current(r)],
    view <- [p \in Procs |-> IF pc[p] = "read_done"
                             THEN [r \in task[p].roots |-> task[p].seen[r]] ELSE <<>>],
    UpdateSets <- {j.roots : j \in {i \in UNION {Jobs[p] : p \in Procs} : i.kind = "update"}},
    ReadSets <- {j.roots : j \in {i \in UNION {Jobs[p] : p \in Procs} : i.kind = "read"}}

AtomicPublicationSpec == Abstract!Spec

\* The lock files exclude each other as flock does: no two processes hold the
\* writer lock or the exclusive snapshot lock of a root, and no process shares
\* one another holds exclusively.  (acquireWriterLocks, acquireRoots)
LockExclusion ==
    \A p, q \in Procs : p # q =>
        /\ lock[p].writer \cap (lock[q].writer \cup lock[q].init) = {}
        /\ lock[p].excl \cap (lock[q].excl \cup lock[q].shared) = {}

\* While a WithReads callback runs, what it has read stays what is published,
\* and no publication is pending on its roots.
ReadsStayCurrent ==
    \A p \in Procs : pc[p] \in {"read", "read_done"} =>
        \A r \in task[p].roots :
            /\ r \in lock[p].shared /\ journal[r] = None
            /\ r \notin task[p].todo => task[p].seen[r] = dir[r]

\* The last good output is never lost: as long as the commit decision is not
\* durable, the generation found at preparation is at the root or in the backup;
\* from then on the new generation is at the root.
LastGoodKept ==
    \A r \in Roots :
        /\ Decided(r, {"publishing"}) =>
              LET j == journal[r] IN
              j.prev[r] # Absent => j.prev[r] \in {dir[r], backup[r][j.gen]}
        /\ Decided(r, {"committed", "cleaning"}) => dir[r] = journal[r].gen

\* No root ever shows a torn directory: what is promoted or restored is complete.
NothingTornPublished == \A r \in Roots : dir[r] # Torn

\* A stage a running update is going to promote is complete until then: neither
\* recovery, nor another writer's removal of abandoned stages, touches it.
Unpromoted(p) ==
    IF pc[p] \in {"validate", "excl_lock", "recheck", "persist", "publish"}
    THEN task[p].roots
    ELSE IF pc[p] \in {"promote_backup", "promote_stage"} THEN task[p].todo ELSE {}
StagesIntact ==
    \A p \in Procs : \A r \in Unpromoted(p) :
        stage[r][task[p].txn.gen] = task[p].txn.gen

\* Whether Recover, run on root r with nobody interfering, repairs it.
Repairable(r) ==
    LET d == Decision(r)
        g == d.gen
    IN /\ SameTransaction(journal[r], d)
       /\ d.state = "finalized" \/ PeersAgree(d)
       /\ CASE d.state = "prepared" ->
                 \A e \in d.roots \ away : dir[e] = d.prev[e] /\ backup[e][g] = Absent
            [] d.state = "publishing" ->
                 \A e \in d.roots : RollbackEntryValid(d, e)
            [] d.state = "committed" ->
                 \A e \in d.roots : dir[e] = g /\ backup[e][g] \in {Absent, d.prev[e]}
            [] d.state = "cleaning" -> \A e \in d.roots : dir[e] = g
            [] OTHER -> TRUE

\* "Recover explicitly repairs one interrupted publication, including its
\* sibling outputs": a publication nobody is working on can be repaired.
Idle(S) == \A p \in Procs : lock[p].excl \cap S = {}
InterruptedIsRepairable ==
    \A r \in Roots \ away :
        journal[r] # None /\ Idle(journal[r].roots) /\ journal[r].roots \cap away = {}
            => Repairable(r)

\* The same once every root of the transaction has its journal, or the
\* transaction is finalized: from promotion on, nothing another process does to
\* some of the roots can make the publication unrepairable.  (Implied by the next.)
StartedIsRepairable ==
    \A r \in Roots \ away :
        /\ journal[r] # None /\ Idle(journal[r].roots) /\ journal[r].roots \cap away = {}
        /\ \/ Decided(r, {"finalized"})
           \/ \A e \in journal[r].roots : SameTransaction(journal[r], journal[e])
        => Repairable(r)

\* From the first journal on there are two obstacles only.  A root that has no
\* journal of the publication yet was meanwhile changed, or is being changed, by
\* a publication of other roots; or the coordinator's record is gone, which takes
\* a project that was away while another process recovered.  (writeJournal in
\* persistPrepared, cleanupPreparedExcept and removeJournalsExcept)
Overtaken(j, e) == ~SameTransaction(j, journal[e]) /\ (journal[e] # None \/ dir[e] # j.prev[e])
Orphaned(r) == moves > 0 /\ ~SameTransaction(journal[r], Decision(r))
OnlyOvertakenUnrepairable ==
    \A r \in Roots \ away :
        journal[r] # None /\ Idle(journal[r].roots) /\ journal[r].roots \cap away = {}
            => \/ Repairable(r)
               \/ Decided(r, {"prepared"}) /\ \E e \in journal[r].roots : Overtaken(journal[r], e)
               \/ Orphaned(r)

\* Only the holder of the exclusive snapshot lock changes what is published at a
\* root or its journal, and only the holder of it or of the writer lock touches
\* a stage: a recovering process owns every sibling it repairs.
ChangesUnderLock ==
    [][\A r \in Roots :
        /\ (dir[r] # dir'[r] \/ journal[r] # journal'[r] \/ backup[r] # backup'[r]) =>
              \E p \in Procs : r \in lock[p].excl
        /\ stage[r] # stage'[r] => \E p \in Procs : r \in lock[p].excl \cup lock[p].writer]_vars

\* What UpdateMany returns is what happened: nil means every root holds the new
\* generation and no journal is left; an error other than ErrRecoveryRequired
\* means no root shows it, now or after recovery.
UpdateReturns(p, result) == /\ pc[p] \notin Terminal /\ pc'[p] = result
                            /\ task[p].kind = "update" /\ task[p].queue = {}
                            /\ task[p].txn # None
ResultsHonest ==
    [][\A p \in Procs :
        LET t == task[p].txn IN
        /\ UpdateReturns(p, "ok") =>
              \A r \in t.roots : dir'[r] = t.gen /\ journal'[r] = None
        /\ UpdateReturns(p, "failed") =>
              \A r \in t.roots : Current(r)' # t.gen]_vars

-----------------------------------------------------------------------------
(* Liveness.  A running call takes its steps; nothing forces a cancellation,  *)
(* a crash or a fault.                                                        *)

CallsProceed == \A p \in Procs : WF_vars(Step(p))
FairSpec == Spec /\ CallsProceed

\* No call waits forever: locks are taken in one order, so no set of writers,
\* recoverers and readers blocks itself.  Locks are polled and nobody queues, so
\* that a call may wait as long as reads of its roots follow each other.
ReadingEnds == <>[](\A q \in Procs : task[q].kind # "read")
CallsReturn == ReadingEnds => \A p \in Procs : pc[p] \notin Terminal ~> pc[p] \in Terminal

\* A reader waiting for an output's first build, or for a publication, returns.
ReadsReturn == \A p \in Procs : task[p].kind = "read" ~> pc[p] \in Terminal

\* With somebody who keeps asking for recovery, an interrupted publication is
\* eventually resolved and its outputs are readable again, once reading ends.
RecoverySpec ==
    FairSpec /\ \A p \in Procs : WF_vars(/\ pc[p] \in Terminal
                                         /\ \E j \in Jobs[p] : StartRecover(p, j)
                                         /\ UNCHANGED <<fs, leased, away, lock, nextGen, faults, moves>>)
EventuallyResolved == ReadingEnds => \A r \in Roots : journal[r] # None ~> journal[r] = None

=============================================================================
