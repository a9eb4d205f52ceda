---------------------------- MODULE RunLockProofs ----------------------------
(***************************************************************************)
(* Theorems about the run lock, for any number of workers, crashes, missed *)
(* deadlines and stop requests, and whatever lock an earlier worker left:  *)
(* types, and what is left of exclusion.                                   *)
(*                                                                         *)
(* What makes exclusion inductive is what a holder of the lock has made of *)
(* the files (Founded): from the directory it created to its last word     *)
(* nobody else changes the lock or the runtime file, unless by one of the  *)
(* steps of Hit, so that nobody finds the lock free or stale.              *)
(***************************************************************************)
EXTENDS RunLockWindows, TLAPS

\* A worker that took the lock and has not yet written its last word.
Holders == Starting \cup Working \cup {"leave", "final", "finalWrite"}

USE DEF Holders, Starting, Working, Leaving, Reaping, Gone, Tokens

-----------------------------------------------------------------------------

\* What the files may hold.
LEMMA LockFields ==
    /\ NewLock \in Locks /\ NewLock.owner = None /\ NewLock.old = FALSE
    /\ \A t \in Tokens, o \in BOOLEAN : [owner |-> t, old |-> o] \in Locks
    /\ \A l \in Locks : /\ l # None /\ l.owner \in Tokens /\ l.old \in BOOLEAN
                        /\ [l EXCEPT !.old = TRUE] \in Locks /\ [l EXCEPT !.old = TRUE].owner = l.owner
<1>1. NewLock \in Locks /\ NewLock.owner = None /\ NewLock.old = FALSE
    BY DEF NewLock, Locks
<1>2. \A t \in Tokens, o \in BOOLEAN : [owner |-> t, old |-> o] \in Locks
    BY DEF Locks
<1>3. ASSUME NEW l \in Locks
      PROVE  /\ l # None /\ l.owner \in Tokens /\ l.old \in BOOLEAN
             /\ [l EXCEPT !.old = TRUE] \in Locks /\ [l EXCEPT !.old = TRUE].owner = l.owner
  <2>1. l # None
      BY NoneAssumption
  <2> QED BY <2>1 DEF Locks
<1> QED BY <1>1, <1>2, <1>3

\* The same of the runtime file.
LEMMA RuntimeFields ==
    /\ \A w \in Workers, s, f \in BOOLEAN : [token |-> w, stopped |-> s, fresh |-> f] \in Runtimes
    /\ \A r \in Runtimes :
          /\ r # None /\ r.token \in Workers /\ r.stopped \in BOOLEAN /\ r.fresh \in BOOLEAN
          /\ [r EXCEPT !.fresh = FALSE] \in Runtimes
<1>1. \A w \in Workers, s, f \in BOOLEAN : [token |-> w, stopped |-> s, fresh |-> f] \in Runtimes
    BY DEF Runtimes
<1>2. ASSUME NEW r \in Runtimes
      PROVE  /\ r # None /\ r.token \in Workers /\ r.stopped \in BOOLEAN /\ r.fresh \in BOOLEAN
             /\ [r EXCEPT !.fresh = FALSE] \in Runtimes
  <2>1. r # None
      BY NoneAssumption
  <2> QED BY <2>1 DEF Runtimes
<1> QED BY <1>1, <1>2

\* The types hold at the start.
LEMMA InitType == Init => TypeOK
<1> SUFFICES ASSUME Init PROVE TypeOK
    OBVIOUS
<1>1. lock \in Locks \cup {None}
    BY LockFields, LeftoverAssumption DEF Init
<1> QED BY <1>1, BoundsAssumption DEF Init, TypeOK

\* The steps of a worker and of its supervisor.
LEMMA WorkerType ==
    ASSUME TypeOK, NEW w \in Workers, Start(w) \/ Run(w) \/ Beat(w) \/ Supervise(w) \/ Crash(w)
    PROVE  TypeOK'
<1> USE DEF TypeOK, Step, files, counts
<1>1. CASE Mkdir(w) \/ Judge(w) \/ Aside(w) \/ MkdirAgain(w)
    BY <1>1, LockFields DEF Mkdir, Judge, Aside, MkdirAgain
<1>2. CASE WriteOwner(w)
  <2>1. lock # None => lock.old \in BOOLEAN /\ [owner |-> w, old |-> lock.old /\ lock.owner # None] \in Locks
      BY LockFields
  <2>2. lock' \in Locks \cup {None}
      BY <1>2, <2>1 DEF WriteOwner
  <2> QED BY <1>2, <2>2 DEF WriteOwner
<1>3. CASE Announce(w) \/ Tick(w) \/ Apply(w) \/ FinishUpdate(w) \/ Final(w) \/ Release(w) \/ Reap(w)
    BY <1>3 DEF Announce, Tick, Apply, FinishUpdate, Final, Release, Reap
<1>4. ASSUME \/ AnnounceWrite(w) \/ BeatWrite(w) \/ FinalWrite(w) \/ ReapMark(w) PROVE TypeOK'
  <2>1. runtime' \in Runtimes
      BY <1>4, RuntimeFields DEF AnnounceWrite, BeatWrite, FinalWrite, ReapMark, Published
  <2> QED BY <1>4, <2>1 DEF AnnounceWrite, BeatWrite, FinalWrite, ReapMark
<1>5. CASE BeatCheck(w) \/ StopHeartbeat(w)
    BY <1>5 DEF BeatCheck, StopHeartbeat
<1>6. CASE Consume(w)
    BY <1>6 DEF Consume
<1>7. CASE DropOwner(w) \/ DropDir(w) \/ ReapOwner(w) \/ ReapDir(w)
    BY <1>7, LockFields DEF DropOwner, DropDir, ReapOwner, ReapDir, OwnerRemoved, DirRemoved
<1>8. CASE Crash(w)
    BY <1>8, BoundsAssumption DEF Crash
<1> QED BY <1>1, <1>2, <1>3, <1>4, <1>5, <1>6, <1>7, <1>8 DEF Start, Run, Beat, Supervise

\* Requests and time.
LEMMA OthersType ==
    ASSUME TypeOK, Ask \/ WriteRequest \/ Lapse \/ Age
    PROVE  TypeOK'
<1> USE BoundsAssumption DEF TypeOK, files, counts
<1>1. CASE Ask
  <2>1. asking' \in Workers
      BY <1>1, RuntimeFields DEF Ask, Alive
  <2> QED BY <1>1, <2>1 DEF Ask
<1>2. CASE WriteRequest
    BY <1>2 DEF WriteRequest
<1>3. CASE Lapse
  <2>1. runtime' \in Runtimes
      BY <1>3, RuntimeFields DEF Lapse
  <2>2. pauses' \in 0..MaxPauses
      BY <1>3 DEF Lapse, Passes
  <2> QED BY <1>3, <2>1, <2>2 DEF Lapse
<1>4. CASE Age
  <2>1. lock' \in Locks
      BY <1>4, LockFields DEF Age
  <2>2. pauses' \in 0..MaxPauses
      BY <1>4 DEF Age, Passes
  <2> QED BY <1>4, <2>1, <2>2 DEF Age
<1> QED BY <1>1, <1>2, <1>3, <1>4

\* Every variable stays in its type, for any number of workers.
THEOREM TypeCorrect == Spec => []TypeOK
<1>1. TypeOK /\ [Next]_vars => TypeOK'
  <2> SUFFICES ASSUME TypeOK, [Next]_vars PROVE TypeOK'
      OBVIOUS
  <2>1. CASE UNCHANGED vars
      BY <2>1 DEF vars, files, counts, TypeOK
  <2> QED BY <2>1, WorkerType, OthersType DEF Next, Finished
<1> QED BY <1>1, InitType, PTL DEF Spec

-----------------------------------------------------------------------------
(* The holder of the lock.                                                    *)

\* What a holder has made of the files.
Founded(w) ==
    /\ lock # None
    /\ pc[w] = "own" => lock.owner = None
    /\ pc[w] # "own" => lock.owner = w
    /\ pc[w] \in Starting => ~lock.old
    /\ pc[w] \notin Starting => runtime = [token |-> w, stopped |-> FALSE, fresh |-> TRUE]
Held == \A w \in Workers : pc[w] \in Holders => Founded(w)

\* There is one holder at most.
Mutual == \A v, w \in Workers : pc[v] \in Holders /\ pc[w] \in Holders => v = w

\* A heartbeat is not written but by a holder.
Silent == \A w \in Workers : beat[w] = "write" => pc[w] \in Working \cup {"leave"}

Exclusion == Silent /\ (pauses = 0 /\ overtaken = {} => Held /\ Mutual)

\* What a step adds to the history.
Overtaken == \E k \in Windows : Hit(k)
Recorded == overtaken' = overtaken \cup {k \in Windows : Hit(k)}

\* The history forgets nothing.
LEMMA NothingForgotten == Recorded /\ overtaken' = {} => overtaken = {} /\ ~Overtaken
BY DEF Recorded, Overtaken

WorkerStep(w) == Start(w) \/ Run(w) \/ Beat(w) \/ Supervise(w) \/ Crash(w)

\* The lock of a holder that is past its start is alive, and none of a holder is stale.
LEMMA FoundedNotStale ==
    ASSUME TypeOK, NEW w \in Workers, pc[w] \in Holders, Founded(w)
    PROVE  ~Stale
<1>1. CASE pc[w] \in Starting
    BY <1>1 DEF Founded, Stale
<1>2. CASE pc[w] \notin Starting
  <2>1. runtime = [token |-> w, stopped |-> FALSE, fresh |-> TRUE] /\ Owns(w)
      BY <1>2 DEF Founded, Owns
  <2>2. runtime # None
      BY <2>1, RuntimeFields DEF TypeOK
  <2> QED BY <2>1, <2>2 DEF Alive, Stale
<1> QED BY <1>1, <1>2

-----------------------------------------------------------------------------
(* The steps of a worker, its heartbeat and its supervisor.                   *)

\* A worker touches only its own place, gets past the lock only by making the
\* directory, and begins no heartbeat but in its loop.
Moved(w) ==
    /\ \A u \in Workers \ {w} : pc'[u] = pc[u] /\ beat'[u] = beat[u]
    /\ pc'[w] \in Holders => pc[w] \in Holders \/ (pc'[w] = "own" /\ lock = None /\ lock' = NewLock)
    /\ beat'[w] = "write" => \/ beat[w] = "write" /\ (pc[w] = "leave" => pc'[w] = "leave")
                                /\ (pc[w] \in Working => pc'[w] \in Working \cup {"leave"})
                             \/ pc[w] \in Working /\ pc'[w] = pc[w]
    /\ pauses' = pauses

\* Every step of a worker is of this kind.
LEMMA Moves == ASSUME TypeOK, NEW w \in Workers, WorkerStep(w) PROVE Moved(w)
<1> USE DEF TypeOK, Step, files, counts, Moved
<1>1. CASE Mkdir(w) \/ Judge(w) \/ Aside(w) \/ MkdirAgain(w)
    BY <1>1 DEF Mkdir, Judge, Aside, MkdirAgain
<1>2. CASE WriteOwner(w)
    BY <1>2 DEF WriteOwner
<1>3. CASE Announce(w) \/ Tick(w) \/ Apply(w) \/ FinishUpdate(w) \/ Final(w) \/ Release(w) \/ Reap(w)
    BY <1>3 DEF Announce, Tick, Apply, FinishUpdate, Final, Release, Reap
<1>4. CASE AnnounceWrite(w) \/ FinalWrite(w) \/ ReapMark(w)
    BY <1>4 DEF AnnounceWrite, FinalWrite, ReapMark
<1>5. CASE BeatCheck(w) \/ BeatWrite(w) \/ StopHeartbeat(w)
    BY <1>5 DEF BeatCheck, BeatWrite, StopHeartbeat
<1>6. CASE Consume(w)
    BY <1>6 DEF Consume
<1>7. CASE DropOwner(w) \/ DropDir(w) \/ ReapOwner(w) \/ ReapDir(w)
    BY <1>7 DEF DropOwner, DropDir, ReapOwner, ReapDir
<1>8. CASE Crash(w)
    BY <1>8 DEF Crash
<1> QED BY <1>1, <1>2, <1>3, <1>4, <1>5, <1>6, <1>7, <1>8 DEF WorkerStep, Start, Run, Beat, Supervise

\* A holder keeps up what it found and made there.
LEMMA FoundedKept ==
    ASSUME TypeOK, NEW w \in Workers, WorkerStep(w), Founded(w), pc[w] \in Holders, pc'[w] \in Holders
    PROVE  Founded(w)'
<1> USE DEF TypeOK, Step, files, counts, Founded
<1>1. CASE WriteOwner(w)
  <2>1. pc[w] = "own" /\ lock \in Locks /\ lock.owner = None /\ ~lock.old
      BY <1>1 DEF WriteOwner
  <2>2. lock' = [owner |-> w, old |-> FALSE] /\ pc'[w] = "announce"
      BY <1>1, <2>1 DEF WriteOwner
  <2>3. lock' # None /\ lock'.owner = w /\ ~lock'.old
      BY <2>2, LockFields
  <2> QED BY <2>2, <2>3
<1>2. CASE Announce(w) \/ Tick(w) \/ Apply(w) \/ FinishUpdate(w) \/ BeatCheck(w)
    BY <1>2 DEF Announce, Tick, Apply, FinishUpdate, BeatCheck
<1>3. CASE AnnounceWrite(w) \/ BeatWrite(w)
    BY <1>3 DEF AnnounceWrite, BeatWrite, Published
<1>4. CASE Consume(w) \/ StopHeartbeat(w) \/ Final(w)
    BY <1>4 DEF Consume, StopHeartbeat, Final
<1>5. Mkdir(w) \/ Judge(w) \/ Aside(w) \/ MkdirAgain(w) \/ Supervise(w) \/ Crash(w) => FALSE
    BY DEF Mkdir, Judge, Aside, MkdirAgain, Supervise, Reap, ReapMark, ReapOwner, ReapDir, Crash
<1>6. FinalWrite(w) \/ Release(w) \/ DropOwner(w) \/ DropDir(w) => FALSE
    BY DEF FinalWrite, Release, DropOwner, DropDir
<1> QED BY <1>1, <1>2, <1>3, <1>4, <1>5, <1>6 DEF WorkerStep, Start, Run, Beat

\* Whoever has made the directory finds it as new as it is.
LEMMA NewFounded == ASSUME NEW w \in Workers, pc'[w] = "own", lock' = NewLock PROVE Founded(w)'
BY LockFields DEF Founded

\* Nobody but the holder changes the lock or the runtime file, unless it acts on what
\* it saw too long ago.
LEMMA HolderUndisturbed ==
    ASSUME TypeOK, Silent, NEW v \in Workers, pc[v] \in Holders, Founded(v),
           NEW w \in Workers, pc[w] \notin Holders, WorkerStep(w), ~Overtaken
    PROVE  lock' = lock /\ runtime' = runtime
<1> USE DEF TypeOK, Step, files, counts
<1>1. lock # None /\ ~Stale /\ v # w /\ ~Owns(w)
  <2>1. lock # None /\ ~Stale
      BY FoundedNotStale DEF Founded
  <2>2. ~Owns(w)
      BY NoneAssumption, WorkersAssumption DEF Founded, Owns
  <2> QED BY <2>1, <2>2
<1>2. lock.owner = None => pc[v] = "own"
    BY WorkersAssumption DEF Founded
<1>3. lock.owner # w
    BY <1>1 DEF Owns
<1>4. CASE Mkdir(w) \/ Judge(w) \/ MkdirAgain(w)
    BY <1>1, <1>4 DEF Mkdir, Judge, MkdirAgain
<1>5. ~Aside(w)
    BY <1>1 DEF Overtaken, Windows, Hit, RenamesAnother
<1>6. CASE Release(w) \/ Reap(w) \/ Crash(w)
    BY <1>6 DEF Release, Reap, Crash
<1>7. CASE DropOwner(w) \/ ReapOwner(w)
  <2>1. lock.owner = None
      BY <1>1, <1>3, <1>7 DEF Overtaken, Windows, Hit, RemovesOwner
  <2> QED BY <1>7, <2>1 DEF DropOwner, ReapOwner, OwnerRemoved
<1>8. CASE DropDir(w) \/ ReapDir(w)
  <2>1. lock.owner # None
      BY <1>1, <1>2, <1>8 DEF Overtaken, Windows, Hit, RemovesStart
  <2> QED BY <1>8, <2>1 DEF DropDir, ReapDir, DirRemoved
<1>9. ~ReapMark(w)
    BY <1>1 DEF Overtaken, Windows, Hit, MarksAnother
<1>10. ~BeatWrite(w) /\ ~BeatCheck(w)
    BY DEF BeatWrite, BeatCheck, Silent
<1>11. /\ ~WriteOwner(w) /\ ~Announce(w) /\ ~AnnounceWrite(w) /\ ~Tick(w) /\ ~Consume(w) /\ ~Apply(w)
       /\ ~FinishUpdate(w) /\ ~StopHeartbeat(w) /\ ~Final(w) /\ ~FinalWrite(w)
    BY DEF WriteOwner, Announce, AnnounceWrite, Tick, Consume, Apply, FinishUpdate, StopHeartbeat,
           Final, FinalWrite
<1> QED BY <1>4, <1>5, <1>6, <1>7, <1>8, <1>9, <1>10, <1>11 DEF WorkerStep, Start, Run, Beat, Supervise

-----------------------------------------------------------------------------
(* Exclusion is inductive.                                                    *)

\* Nobody has started.
LEMMA InitExclusion == ASSUME WindowsInit PROVE Exclusion
BY DEF WindowsInit, Init, Exclusion, Silent, Held, Mutual

\* The steps of a worker.
LEMMA WorkerExclusion ==
    ASSUME TypeOK, Exclusion, NEW w \in Workers, WorkerStep(w),
           Recorded
    PROVE  Exclusion'
<1>1. Moved(w)
    BY Moves
<1>2. Silent'
    BY <1>1 DEF Moved, Exclusion, Silent
<1>3. ASSUME pauses' = 0, overtaken' = {} PROVE Held' /\ Mutual'
  <2>1. Held /\ Mutual /\ Silent /\ ~Overtaken
      BY <1>1, <1>3, NothingForgotten DEF Moved, Exclusion
  <2>2. CASE pc[w] \in Holders
    <3>1. \A u \in Workers : pc'[u] \in Holders => u = w
        BY <1>1, <2>1, <2>2 DEF Moved, Mutual
    <3>2. pc'[w] \in Holders => Founded(w)'
        BY <2>1, <2>2, FoundedKept DEF Held
    <3> QED BY <3>1, <3>2 DEF Held, Mutual
  <2>3. CASE pc[w] \notin Holders
    <3>1. CASE \E v \in Workers : pc[v] \in Holders
      <4>1. PICK v \in Workers : pc[v] \in Holders /\ Founded(v)
          BY <2>1, <3>1 DEF Held
      <4>2. lock' = lock /\ runtime' = runtime
          BY <2>1, <2>3, <4>1, HolderUndisturbed
      <4>3. pc'[w] \notin Holders
          BY <1>1, <2>3, <4>1 DEF Moved, Founded
      <4>4. \A u \in Workers : pc'[u] \in Holders => u = v
          BY <1>1, <2>1, <4>1, <4>3 DEF Moved, Mutual
      <4>5. pc'[v] = pc[v]
          BY <1>1, <2>3, <4>1 DEF Moved
      <4>6. Founded(v)'
          BY <4>1, <4>2, <4>5 DEF Founded
      <4> QED BY <4>4, <4>6 DEF Held, Mutual
    <3>2. CASE \A v \in Workers : pc[v] \notin Holders
      <4>1. \A u \in Workers : pc'[u] \in Holders => u = w
          BY <1>1, <3>2 DEF Moved
      <4>2. pc'[w] \in Holders => Founded(w)'
          BY <1>1, <2>3, NewFounded DEF Moved
      <4> QED BY <4>1, <4>2 DEF Held, Mutual
    <3> QED BY <3>1, <3>2
  <2> QED BY <2>2, <2>3
<1> QED BY <1>2, <1>3 DEF Exclusion

\* Requests, and deadlines that only a live worker meets.
LEMMA OthersExclusion ==
    ASSUME TypeOK, Exclusion, Ask \/ WriteRequest \/ Lapse \/ Age, Recorded
    PROVE  Exclusion'
<1>1. pc' = pc /\ beat' = beat /\ (overtaken' = {} => overtaken = {}) /\ (pauses' = 0 => pauses = 0)
  <2>1. pauses' = 0 => pauses = 0
      BY BoundsAssumption DEF Ask, WriteRequest, Lapse, Age, files, counts, Passes, TypeOK
  <2>2. overtaken' = {} => overtaken = {}
      BY NothingForgotten
  <2>3. pc' = pc /\ beat' = beat
      BY DEF Ask, WriteRequest, Lapse, Age, files, counts
  <2> QED BY <2>1, <2>2, <2>3
<1>2. Silent'
    BY <1>1 DEF Exclusion, Silent
<1>3. ASSUME pauses' = 0, overtaken' = {} PROVE Held' /\ Mutual'
  <2>1. Held /\ Mutual
      BY <1>1, <1>3 DEF Exclusion
  <2>2. ASSUME NEW w \in Workers, pc[w] \in Holders
        PROVE  Founded(w)'
    <3>1. Founded(w)
        BY <2>1, <2>2 DEF Held
    <3>2. CASE Ask \/ WriteRequest
        BY <1>1, <3>1, <3>2 DEF Ask, WriteRequest, files, Founded
    <3>3. CASE Lapse
      <4>1. pc[w] \in Starting
        <5> SUFFICES ASSUME pc[w] \notin Starting PROVE FALSE
            OBVIOUS
        <5>1. Owns(w) /\ runtime.token = w
            BY <2>2, <3>1 DEF Founded, Owns
        <5>2. pauses' = pauses + 1
            BY <2>2, <3>3, <5>1 DEF Lapse, Passes
        <5> QED BY <1>3, <5>2 DEF TypeOK
      <4> QED BY <1>1, <3>1, <3>3, <4>1 DEF Lapse, Founded
    <3>4. CASE Age
      <4>1. pc[w] \notin Starting
          BY <1>3, <3>4 DEF Age, Passes, TypeOK
      <4>2. lock' \in Locks /\ lock'.owner = lock.owner
          BY <3>4, LockFields DEF Age, TypeOK
      <4>3. lock' # None
          BY <4>2, LockFields
      <4> QED BY <1>1, <2>2, <3>1, <3>4, <4>1, <4>2, <4>3 DEF Age, Founded
    <3> QED BY <3>2, <3>3, <3>4
  <2>3. Held'
      BY <1>1, <2>2 DEF Held
  <2> QED BY <1>1, <2>1, <2>3 DEF Mutual
<1> QED BY <1>2, <1>3 DEF Exclusion

\* As long as nobody was overtaken or slept, one worker at most is between the lock
\* and its last word, and the files are as it made them (watch.go:752-806).
THEOREM ExclusionHolds == WindowsSpec => [](TypeOK /\ Exclusion)
<1>1. WindowsInit => TypeOK /\ Exclusion
    BY InitType, InitExclusion DEF WindowsInit
<1>2. TypeOK /\ [WindowsNext]_<<vars, overtaken>> => TypeOK'
  <2> SUFFICES ASSUME TypeOK, [WindowsNext]_<<vars, overtaken>> PROVE TypeOK'
      OBVIOUS
  <2>1. CASE UNCHANGED vars
      BY <2>1 DEF vars, files, counts, TypeOK
  <2> QED BY <2>1, WorkerType, OthersType DEF WindowsNext, Next, Finished
<1>3. TypeOK /\ Exclusion /\ [WindowsNext]_<<vars, overtaken>> => Exclusion'
  <2> SUFFICES ASSUME TypeOK, Exclusion, [WindowsNext]_<<vars, overtaken>> PROVE Exclusion'
      OBVIOUS
  <2>1. CASE UNCHANGED <<vars, overtaken>>
      BY <2>1 DEF vars, files, counts, Exclusion, Silent, Held, Founded, Mutual
  <2>2. CASE WindowsNext /\ Finished
    <3>1. UNCHANGED vars /\ (overtaken' = {} => overtaken = {})
        BY <2>2, NothingForgotten DEF WindowsNext, Recorded, Finished
    <3> QED BY <3>1 DEF vars, files, counts, Exclusion, Silent, Held, Founded, Mutual
  <2> QED BY <2>1, <2>2, WorkerExclusion, OthersExclusion DEF WindowsNext, Recorded, Next, WorkerStep
<1> QED BY <1>1, <1>2, <1>3, PTL DEF WindowsSpec

\* "Es laeuft hoechstens eine Aktualisierung gleichzeitig"
\* (docs/file-watcher-proposal.md) fails only where one of the steps of
\* Hit acts on what it saw too long ago (watch.go:777, :797-799,
\* supervisor.go:326-337), or a live worker sleeps through a deadline.
THEOREM OnlyOvertakenOverlap == WindowsSpec => []OverlapIsOvertaken
<1>1. TypeOK /\ Exclusion => OverlapIsOvertaken
  <2> SUFFICES ASSUME TypeOK, Exclusion, overtaken = {} PROVE OneUpdate
      BY DEF OverlapIsOvertaken
  <2>1. CASE pauses = 0
      BY <2>1 DEF Exclusion, Mutual, OneUpdate
  <2>2. CASE pauses > 0
      BY <2>2 DEF OneUpdate
  <2> QED BY <2>1, <2>2 DEF TypeOK
<1> QED BY <1>1, ExclusionHolds, PTL

\* Until then no lock that a starter would judge stale is that of a worker at work
\* (watch.go:763-775).
THEOREM StaleLockIsUnused == WindowsSpec => []StaleIsUnused
<1>1. TypeOK /\ Exclusion => StaleIsUnused
  <2> SUFFICES ASSUME TypeOK, Exclusion, Stale, overtaken = {}, ~(pauses > 0),
                      NEW w \in Workers, pc[w] \in Working
               PROVE  FALSE
      BY DEF StaleIsUnused
  <2>1. pauses = 0
      BY DEF TypeOK
  <2>2. Founded(w)
      BY <2>1 DEF Exclusion, Held
  <2> QED BY <2>2, FoundedNotStale
<1> QED BY <1>1, ExclusionHolds, PTL

=============================================================================
