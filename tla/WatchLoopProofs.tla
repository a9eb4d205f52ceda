-------------------------- MODULE WatchLoopProofs --------------------------
(***************************************************************************)
(* Theorems about the rebuild loop, for any set of files and any number of *)
(* edits and failures: its types, that what it publishes is a state the    *)
(* project was in, and that an idle worker owes nothing.  The last two     *)
(* hold as long as no edit restores an earlier content; then contents only *)
(* grow, and everything the worker has read lies between what it knew      *)
(* before and what is in the files now.                                    *)
(***************************************************************************)
EXTENDS WatchLoopProperties, TLAPS

\* A finished pass over the files has read a tree.
LEMMA PassReadsTree ==
    ASSUME TypeOK, PassDone
    PROVE  got \in Trees
  BY DEF TypeOK, PassDone, Trees

----------------------------------------------------------------------------
(* Types *)

LEMMA InitTyped == Init => TypeOK
<1> SUFFICES ASSUME Init PROVE TypeOK
  OBVIOUS
<1>1. 0 \in Contents
  BY BoundsAssumption DEF Contents
<1>2. sources \in Trees
  BY <1>1 DEF Init, Trees
<1>3. got \in [Files -> Contents \cup {None}]
  BY DEF Init, Unread
<1>4. edits \in 0..MaxEdits /\ failures \in 0..MaxFailures
  BY BoundsAssumption DEF Init
<1>. QED  BY <1>2, <1>3, <1>4 DEF Init, TypeOK, TreeOrNone

\* What an update leaves behind is typed, whatever its outcome.
LEMMA AppliedTyped ==
    ASSUME TypeOK, NEW ok \in BOOLEAN, Applied(ok),
           UNCHANGED <<sources, stop, edits>>,
           built' \in TreeOrNone, failures' \in 0..MaxFailures
    PROVE  TypeOK'
  BY DEF TypeOK, Applied, GoTo, Unread, TreeOrNone

LEMMA StepTyped == TypeOK /\ [Next]_vars => TypeOK'
<1> SUFFICES ASSUME TypeOK, [Next]_vars
             PROVE  TypeOK'
  OBVIOUS
<1> USE FilesAssumption, BoundsAssumption, NoneAssumption
<1>1. CASE ReadFile
  <2>1. PICK f \in Files : got' = [got EXCEPT ![f] = sources[f]]
    BY <1>1 DEF ReadFile
  <2>2. sources[f] \in Contents
    BY DEF TypeOK, Trees
  <2>. QED  BY <1>1, <2>1, <2>2 DEF ReadFile, TypeOK, loop
<1>2. CASE Tick
  BY <1>2 DEF Tick, GoTo, TypeOK, loop, Unread
<1>3. CASE CheckFails
  <2>1. failures' \in 0..MaxFailures
    BY <1>3 DEF CheckFails, Fails, TypeOK
  <2>. QED  BY <1>3, <2>1 DEF CheckFails, CheckFailed, GoTo, TypeOK, Unread
<1>4. CASE StopCheck
  BY <1>4 DEF StopCheck, GoTo, TypeOK, loop, Unread
<1>5. CASE LoseCheck
  BY <1>5 DEF LoseCheck, CheckFailed, GoTo, TypeOK, Unread
<1>6. CASE FinishCheck
  <2>1. got \in TreeOrNone
    BY <1>6, PassReadsTree DEF FinishCheck, TreeOrNone
  <2>. QED  BY <1>6, <2>1 DEF FinishCheck, GoTo, TypeOK, Unread
<1>7. CASE Decide
  <2>1. pc' \in {"idle", "plan"} /\ got' = Unread
    BY <1>7 DEF Decide, DecideFirst, DecideSame, DecideChanged, DecidePending, Apply, GoTo
  <2>2. previous' \in {previous, current} /\ pending' \in {pending, current, None}
    BY <1>7 DEF Decide, DecideFirst, DecideSame, DecideChanged, DecidePending
  <2>3. quiet' \in BOOLEAN /\ first' \in BOOLEAN /\ retry' = retry
    BY <1>7 DEF Decide, DecideFirst, DecideSame, DecideChanged, DecidePending, TypeOK
  <2>. QED  BY <1>7, <2>1, <2>2, <2>3 DEF Decide, TypeOK, TreeOrNone, Unread, Updating
<1>8. CASE SkipUpdate
  BY <1>8, AppliedTyped DEF SkipUpdate, TypeOK
<1>9. CASE StartBuild
  BY <1>9 DEF StartBuild, GoTo, TypeOK, loop, Unread, Updating
<1>10. CASE Extract
  <2>1. got \in TreeOrNone
    BY <1>10, PassReadsTree DEF Extract, TreeOrNone
  <2>. QED  BY <1>10, <2>1 DEF Extract, GoTo, TypeOK, loop, Unread, Updating
<1>11. CASE CompareSources
  <2>1. CASE Applied(FALSE)
    BY <1>11, <2>1, AppliedTyped DEF CompareSources, TypeOK
  <2>2. CASE GoTo(IF pc = "verify" THEN "validate" ELSE "publish") /\ UNCHANGED <<work, loop, lived>>
    BY <1>11, <2>2 DEF CompareSources, GoTo, TypeOK, loop, Unread, Updating
  <2>. QED  BY <1>11, <2>1, <2>2 DEF CompareSources
<1>12. CASE Publish
  <2>1. failures' \in 0..MaxFailures
    <3>1. UNCHANGED failures \/ Fails
      BY <1>12 DEF Publish
    <3>. QED  BY <3>1 DEF Fails, TypeOK
  <2>2. PICK ok \in BOOLEAN : Applied(ok)
    BY <1>12 DEF Publish
  <2>3. built' \in TreeOrNone /\ UNCHANGED <<sources, stop, edits>>
    BY <1>12 DEF Publish, TypeOK
  <2>. QED  BY <2>1, <2>2, <2>3, AppliedTyped
<1>13. CASE UpdateFails
  <2>1. failures' \in 0..MaxFailures
    BY <1>13 DEF UpdateFails, Fails, TypeOK
  <2>. QED  BY <1>13, <2>1, AppliedTyped DEF UpdateFails, TypeOK
<1>14. CASE QuietPasses
  BY <1>14 DEF QuietPasses, TypeOK
<1>15. CASE RetryDue
  BY <1>15 DEF RetryDue, TypeOK
<1>16. CASE Edit
  <2>1. edits' \in 0..MaxEdits
    BY <1>16 DEF Edit, TypeOK
  <2>2. sources' \in Trees
    <3>1. PICK f \in Files, c \in IF Reverts THEN 0..edits' ELSE {edits'} :
              sources' = [sources EXCEPT ![f] = c]
      BY <1>16 DEF Edit
    <3>2. c \in Contents
      BY <2>1 DEF Contents
    <3>. QED  BY <3>1, <3>2 DEF TypeOK, Trees
  <2>3. lived' \subseteq Trees
    BY <1>16, <2>2 DEF Edit, TypeOK
  <2>. QED  BY <1>16, <2>1, <2>2, <2>3 DEF Edit, TypeOK, loop
<1>17. CASE AskToStop
  BY <1>17 DEF AskToStop, TypeOK, loop
<1>18. CASE UNCHANGED vars
  BY <1>18 DEF vars, loop, TypeOK
<1>. QED
  BY <1>1, <1>2, <1>3, <1>4, <1>5, <1>6, <1>7, <1>8, <1>9, <1>10, <1>11, <1>12, <1>13,
     <1>14, <1>15, <1>16, <1>17, <1>18 DEF Next, Worker, Ended

(***************************************************************************)
(* Every variable of the loop keeps to its type.                           *)
(***************************************************************************)
THEOREM TypeCorrect == Spec => []TypeOK
  BY InitTyped, StepTyped, PTL DEF Spec

----------------------------------------------------------------------------
(* The inductive invariant for contents that only grow. *)

AtMost(a, b) == \A f \in Files : a[f] <= b[f]

\* What a pass has read so far.
Read(a) == \A f \in Files : got[f] # None => a[f] <= got[f]

\* What the worker answered, checked, extracted and reads is in that order.
Ordered ==
    /\ \A f \in Files : sources[f] <= edits
    /\ \A f \in Files : got[f] # None => got[f] <= sources[f]
    /\ previous # None => AtMost(previous, sources)
    /\ pc = "check" /\ previous # None => Read(previous)
    /\ pc \in Updating \cup {"decide"} =>
        /\ current \in Trees
        /\ AtMost(current, sources)
        /\ previous # None => AtMost(previous, current)
    /\ pc \in Updating => Read(current)
    /\ pc \in {"verify", "validate", "publish"} =>
        /\ work \in Trees
        /\ AtMost(current, work)
        /\ AtMost(work, sources)

\* While the files are read a second time, some moment of the build lies between
\* what it extracted and what is read now.
Lived ==
    /\ pc \in {"extract", "verify", "validate", "publish"} => sources \in lived
    /\ pc = "verify" =>
        \E t \in lived : AtMost(work, t) /\ AtMost(t, sources) /\ Read(t)
    /\ pc \in {"validate", "publish"} => work \in lived

\* Outside an update, not just at rest, nothing is owed.
Paid ==
    pc \notin Updating /\ previous = sources /\ retry = "none" /\ stop = "none"
        => built = sources

LEMMA AtMostAntisymmetric ==
    ASSUME NEW a \in Trees, NEW b \in Trees, AtMost(a, b), AtMost(b, a)
    PROVE  a = b
<1>1. \A f \in Files : a[f] \in Nat /\ b[f] \in Nat /\ a[f] <= b[f] /\ b[f] <= a[f]
  BY BoundsAssumption DEF Trees, Contents, AtMost
<1>2. \A f \in Files : a[f] = b[f]
  BY <1>1
<1>. QED  BY <1>2 DEF Trees

LEMMA AtMostTransitive ==
    ASSUME NEW a \in Trees, NEW b \in Trees, NEW c \in Trees, AtMost(a, b), AtMost(b, c)
    PROVE  AtMost(a, c)
<1>1. \A f \in Files : a[f] \in Nat /\ b[f] \in Nat /\ c[f] \in Nat
  BY BoundsAssumption DEF Trees, Contents
<1>. QED  BY <1>1 DEF AtMost

LEMMA AtMostReflexive == ASSUME NEW a \in Trees PROVE AtMost(a, a)
  BY BoundsAssumption DEF AtMost, Trees, Contents

\* An edit writes a content that was never there.
LEMMA EditGrows ==
    ASSUME Reverts = FALSE, TypeOK, Ordered, Edit
    PROVE  /\ sources' \in Trees
           /\ AtMost(sources, sources')
           /\ \A f \in Files : sources'[f] <= edits'
           /\ \E f \in Files : sources'[f] = edits + 1
<1>1. PICK f \in Files : sources' = [sources EXCEPT ![f] = edits']
  BY DEF Edit
<1>2. edits \in Nat /\ edits' = edits + 1 /\ edits' \in Contents
  BY BoundsAssumption DEF Edit, TypeOK, Contents
<1>3. \A g \in Files : sources[g] \in Nat /\ sources[g] <= edits
  BY BoundsAssumption DEF TypeOK, Trees, Contents, Ordered
<1>4. sources' \in Trees
  BY <1>1, <1>2 DEF TypeOK, Trees
<1>5. \A g \in Files : sources'[g] = IF g = f THEN edits + 1 ELSE sources[g]
  BY <1>1, <1>2 DEF TypeOK, Trees
<1>. QED  BY <1>2, <1>3, <1>4, <1>5 DEF AtMost

\* Leaving an update forgets everything the order speaks of but what is answered.
LEMMA AppliedOrdered ==
    ASSUME TypeOK, Ordered, pc \in Updating, NEW ok \in BOOLEAN, Applied(ok),
           UNCHANGED <<sources, edits>>
    PROVE  Ordered'
<1>1. pc' = "idle" /\ got' = Unread /\ previous' \in {previous, current}
  BY DEF Applied, GoTo
<1>2. previous' # None => AtMost(previous', sources)
  BY <1>1 DEF Ordered
<1>. QED  BY <1>1, <1>2 DEF Ordered, AtMost, Unread, Updating

LEMMA InitOrdered == Init => Ordered
  BY BoundsAssumption DEF Init, Ordered, Unread, Updating, Read

LEMMA StepOrdered ==
    ASSUME Reverts = FALSE
    PROVE  TypeOK /\ Ordered /\ [Next]_vars => Ordered'
<1> SUFFICES ASSUME TypeOK, Ordered, [Next]_vars
             PROVE  Ordered'
  OBVIOUS
<1> USE NoneAssumption
<1>1. CASE ReadFile
  <2>1. PICK f \in Files : got[f] = None /\ got' = [got EXCEPT ![f] = sources[f]]
    BY <1>1 DEF ReadFile
  <2>2. \A g \in Files : got'[g] = IF g = f THEN sources[f] ELSE got[g]
    BY <2>1 DEF TypeOK
  <2>3. sources[f] \in Nat
    BY BoundsAssumption DEF TypeOK, Trees, Contents
  <2>4. \A g \in Files : got'[g] # None => got'[g] <= sources[g]
    BY <2>2, <2>3 DEF Ordered
  <2>5. ASSUME NEW a, AtMost(a, sources), Read(a)
        PROVE  \A g \in Files : got'[g] # None => a[g] <= got'[g]
    BY <2>2, <2>5 DEF AtMost, Read
  <2>6. pc = "check" /\ previous # None => Read(previous)'
    BY <1>1, <2>5 DEF ReadFile, Ordered, loop, Read
  <2>7. pc \in Updating => Read(current)'
    BY <1>1, <2>5 DEF ReadFile, Ordered, loop, Read
  <2>. QED  BY <1>1, <2>4, <2>6, <2>7 DEF ReadFile, Ordered, loop, AtMost
<1>2. CASE Tick \/ StopCheck \/ CheckFails \/ LoseCheck
  <2>1. pc' \in {"idle", "check", "ended"} /\ got' = Unread
    BY <1>2 DEF Tick, StopCheck, CheckFails, LoseCheck, CheckFailed, GoTo
  <2>2. UNCHANGED <<sources, previous, edits>>
    BY <1>2 DEF Tick, StopCheck, CheckFails, LoseCheck, loop
  <2>. QED  BY <2>1, <2>2 DEF Ordered, AtMost, Read, Unread, Updating
<1>3. CASE FinishCheck
  <2>1. pc = "check" /\ pc' = "decide" /\ got' = Unread /\ current' = got
        /\ UNCHANGED <<sources, previous, edits>>
    BY <1>3 DEF FinishCheck, GoTo
  <2>2. got \in Trees /\ \A f \in Files : got[f] # None
    BY <1>3, PassReadsTree DEF FinishCheck, PassDone
  <2>3. AtMost(got, sources) /\ (previous # None => AtMost(previous, got))
    BY <2>1, <2>2 DEF Ordered, AtMost, Read
  <2>. QED  BY <2>1, <2>2, <2>3 DEF Ordered, AtMost, Unread, Updating
<1>4. CASE Decide
  <2>1. pc = "decide" /\ pc' \in {"idle", "plan"} /\ got' = Unread
        /\ UNCHANGED <<sources, current, edits>> /\ previous' \in {previous, current}
    BY <1>4 DEF Decide, DecideFirst, DecideSame, DecideChanged, DecidePending, Apply, GoTo
  <2>2. /\ current \in Trees
        /\ AtMost(current, sources) /\ AtMost(current, current)
        /\ previous # None => AtMost(previous, current) /\ AtMost(previous, sources)
    BY <2>1, AtMostReflexive DEF Ordered
  <2>3. previous' # None => AtMost(previous', current) /\ AtMost(previous', sources)
    BY <2>1, <2>2
  <2>. QED  BY <2>1, <2>2, <2>3 DEF Ordered, AtMost, Read, Unread, Updating
<1>5. CASE SkipUpdate \/ Publish \/ UpdateFails
  BY <1>5, AppliedOrdered DEF SkipUpdate, Publish, UpdateFails, Updating
<1>6. CASE StartBuild
  BY <1>6 DEF StartBuild, GoTo, Ordered, AtMost, Read, Unread, Updating, loop
<1>7. CASE Extract
  <2>1. pc = "extract" /\ pc' = "verify" /\ got' = Unread /\ work' = got
        /\ UNCHANGED <<sources, current, previous, edits>>
    BY <1>7 DEF Extract, GoTo, loop
  <2>2. got \in Trees /\ \A f \in Files : got[f] # None
    BY <1>7, PassReadsTree DEF Extract, PassDone
  <2>3. AtMost(current, got) /\ AtMost(got, sources)
    BY <2>1, <2>2 DEF Ordered, AtMost, Read, Updating
  <2>. QED  BY <2>1, <2>2, <2>3 DEF Ordered, AtMost, Read, Unread, Updating
<1>8. CASE CompareSources
  <2>1. CASE Applied(FALSE)
    BY <1>8, <2>1, AppliedOrdered DEF CompareSources, Updating
  <2>2. CASE GoTo(IF pc = "verify" THEN "validate" ELSE "publish") /\ UNCHANGED <<work, loop, lived>>
    BY <1>8, <2>2 DEF CompareSources, GoTo, Ordered, AtMost, Read, Unread, Updating, loop
  <2>. QED  BY <1>8, <2>1, <2>2 DEF CompareSources
<1>9. CASE QuietPasses \/ RetryDue \/ AskToStop \/ UNCHANGED vars
  <2>1. UNCHANGED <<sources, pc, got, work, current, previous, edits>>
    BY <1>9 DEF QuietPasses, RetryDue, AskToStop, vars, loop
  <2>. QED  BY <2>1 DEF Ordered, AtMost, Read
<1>10. CASE Edit
  <2>1. UNCHANGED <<pc, got, work, current, previous>>
    BY <1>10 DEF Edit, loop
  <2>2. sources' \in Trees /\ sources \in Trees /\ AtMost(sources, sources')
        /\ \A f \in Files : sources'[f] <= edits'
    BY <1>10, EditGrows DEF TypeOK
  <2>3. ASSUME NEW a \in Trees, AtMost(a, sources)
        PROVE  AtMost(a, sources')
    BY <2>2, <2>3, AtMostTransitive
  <2>4. \A f \in Files : got[f] # None => got[f] <= sources'[f]
    <3>1. TAKE f \in Files
    <3>2. HAVE got[f] # None
    <3>3. got[f] \in Nat /\ sources[f] \in Nat /\ sources'[f] \in Nat
      BY <2>2, <3>2, BoundsAssumption DEF TypeOK, Trees, Contents
    <3>. QED  BY <2>2, <3>2, <3>3 DEF Ordered, AtMost
  <2>5. previous # None => previous \in Trees
    BY DEF TypeOK, TreeOrNone
  <2>6. previous # None => AtMost(previous, sources')
    BY <2>3, <2>5 DEF Ordered
  <2>7. pc \in Updating \cup {"decide"} => AtMost(current, sources')
    BY <2>3 DEF Ordered
  <2>8. pc \in {"verify", "validate", "publish"} => AtMost(work, sources')
    BY <2>3 DEF Ordered
  <2>. QED  BY <2>1, <2>2, <2>4, <2>6, <2>7, <2>8 DEF Ordered, AtMost, Read
<1>. QED
  BY <1>1, <1>2, <1>3, <1>4, <1>5, <1>6, <1>7, <1>8, <1>9, <1>10 DEF Next, Worker, Ended

----------------------------------------------------------------------------
(* What is published has existed. *)

LEMMA InitLived == Init => Lived
  BY DEF Init, Lived

LEMMA StepLived ==
    ASSUME Reverts = FALSE
    PROVE  TypeOK /\ Ordered /\ Lived /\ [Next]_vars => Lived'
<1> SUFFICES ASSUME TypeOK, Ordered, Lived, [Next]_vars
             PROVE  Lived'
  OBVIOUS
<1>1. CASE ReadFile
  <2>1. UNCHANGED <<sources, pc, work, lived>>
    BY <1>1 DEF ReadFile
  <2>2. PICK f \in Files : got[f] = None /\ got' = [got EXCEPT ![f] = sources[f]]
    BY <1>1 DEF ReadFile
  <2>3. \A g \in Files : got'[g] = IF g = f THEN sources[f] ELSE got[g]
    BY <2>2 DEF TypeOK
  <2>4. ASSUME pc = "verify"
        PROVE  \E t \in lived : AtMost(work, t) /\ AtMost(t, sources) /\ Read(t)'
    <3>1. PICK t \in lived : AtMost(work, t) /\ AtMost(t, sources) /\ Read(t)
      BY <2>4 DEF Lived
    <3>2. \A g \in Files : got'[g] # None => t[g] <= got'[g]
      BY <2>3, <3>1 DEF AtMost, Read
    <3>. QED  BY <3>1, <3>2 DEF Read
  <2>. QED  BY <2>1, <2>4 DEF Lived, AtMost
<1>2. CASE Tick \/ StopCheck \/ CheckFails \/ LoseCheck \/ FinishCheck \/ Decide
           \/ SkipUpdate \/ Publish \/ UpdateFails
  <2>1. pc' \in {"idle", "check", "ended", "decide", "plan"}
    BY <1>2 DEF Tick, StopCheck, CheckFails, LoseCheck, CheckFailed, FinishCheck, Decide,
       DecideFirst, DecideSame, DecideChanged, DecidePending, Apply, SkipUpdate, Publish,
       UpdateFails, Applied, GoTo
  <2>. QED  BY <2>1 DEF Lived
<1>3. CASE StartBuild
  BY <1>3 DEF StartBuild, GoTo, Lived
<1>4. CASE Extract
  <2>1. pc = "extract" /\ pc' = "verify" /\ got' = Unread /\ work' = got
        /\ UNCHANGED <<sources, lived>>
    BY <1>4 DEF Extract, GoTo
  <2>2. got \in Trees /\ \A f \in Files : got[f] # None
    BY <1>4, PassReadsTree DEF Extract, PassDone
  <2>3. AtMost(got, sources) /\ AtMost(sources, sources)
    BY <2>2, AtMostReflexive DEF Ordered, AtMost, TypeOK
  <2>4. sources \in lived
    BY <2>1 DEF Lived
  <2>5. Read(sources)'
    BY <2>1 DEF Read, Unread
  <2>. QED  BY <2>1, <2>3, <2>4, <2>5 DEF Lived, AtMost, Read
<1>5. CASE CompareSources
  <2>1. CASE Applied(FALSE)
    BY <2>1 DEF Applied, GoTo, Lived
  <2>2. CASE Unchanged /\ GoTo(IF pc = "verify" THEN "validate" ELSE "publish")
             /\ UNCHANGED <<work, loop, lived>>
    <3>1. sources \in lived /\ UNCHANGED sources
      BY <1>5 DEF CompareSources, Lived
    <3>2. pc' \in {"validate", "publish"}
      BY <2>2 DEF GoTo
    <3>3. work \in lived
      <4>1. CASE pc = "validate"
        BY <4>1 DEF Lived
      <4>2. CASE pc = "verify"
        <5>1. PICK t \in lived : AtMost(work, t) /\ Read(t)
          BY <4>2 DEF Lived
        <5>2. got = work /\ AtMost(t, work)
          BY <1>5, <2>2, <5>1 DEF CompareSources, Unchanged, PassDone, Read, AtMost
        <5>3. t \in Trees /\ work \in Trees
          BY <4>2 DEF TypeOK, Ordered
        <5>4. t = work
          BY <5>1, <5>2, <5>3, AtMostAntisymmetric
        <5>. QED  BY <5>4
      <4>. QED  BY <1>5, <4>1, <4>2 DEF CompareSources
    <3>. QED  BY <2>2, <3>1, <3>2, <3>3 DEF Lived
  <2>. QED  BY <1>5, <2>1, <2>2 DEF CompareSources
<1>6. CASE QuietPasses \/ RetryDue \/ AskToStop \/ UNCHANGED vars
  <2>1. UNCHANGED <<sources, pc, got, work, lived>>
    BY <1>6 DEF QuietPasses, RetryDue, AskToStop, vars
  <2>. QED  BY <2>1 DEF Lived, AtMost, Read
<1>7. CASE Edit
  <2>1. UNCHANGED <<pc, got, work>> /\ lived' = IF lived = {} THEN {} ELSE lived \cup {sources'}
    BY <1>7 DEF Edit
  <2>2. sources' \in Trees /\ AtMost(sources, sources')
    BY <1>7, EditGrows
  <2>3. ASSUME NEW t \in lived, AtMost(t, sources)
        PROVE  t \in lived' /\ AtMost(t, sources')
    BY <2>1, <2>2, <2>3, AtMostTransitive DEF TypeOK
  <2>4. pc = "verify" =>
          \E t \in lived' : AtMost(work, t) /\ AtMost(t, sources') /\ Read(t)
    BY <2>3 DEF Lived
  <2>. QED  BY <2>1, <2>4 DEF Lived, AtMost, Read
<1>. QED
  BY <1>1, <1>2, <1>3, <1>4, <1>5, <1>6, <1>7 DEF Next, Worker, Ended

(***************************************************************************)
(* As long as no edit restores an earlier content, what an update          *)
(* publishes is a state the whole project was in while the update ran,     *)
(* however many files it reads and however they change under it.           *)
(***************************************************************************)
THEOREM PublishedExisted ==
    ASSUME Reverts = FALSE
    PROVE  Spec => []PublishedStateExisted
<1>1. Init => TypeOK /\ Ordered /\ Lived
  BY InitTyped, InitOrdered, InitLived
<1>2. TypeOK /\ Ordered /\ Lived /\ [Next]_vars => (TypeOK /\ Ordered /\ Lived)'
  BY StepTyped, StepOrdered, StepLived
<1>3. Lived => PublishedStateExisted
  BY DEF Lived, PublishedStateExisted
<1>. QED  BY <1>1, <1>2, <1>3, PTL DEF Spec

----------------------------------------------------------------------------
(* Nothing is owed. *)

LEMMA InitPaid == Init => Paid
<1> SUFFICES ASSUME Init PROVE previous # sources
  BY DEF Paid
<1>. QED  BY InitTyped, NoneAssumption DEF Init, TypeOK

\* An update that made the output from a tree between the check it answers and
\* what is in the files has paid for that check.
LEMMA AppliedPaid ==
    ASSUME TypeOK, Ordered, pc \in Updating, Applied(TRUE), UNCHANGED <<sources, stop>>,
           built' \in Trees, AtMost(current, built'), AtMost(built', sources)
    PROVE  Paid'
<1> SUFFICES ASSUME previous' = sources, stop = "none"
             PROVE  built' = sources
  BY DEF Paid
<1>1. current = sources
  BY DEF Applied
<1>. QED  BY <1>1, AtMostAntisymmetric DEF TypeOK

LEMMA StepPaid ==
    ASSUME Reverts = FALSE
    PROVE  TypeOK /\ Ordered /\ Paid /\ [Next]_vars => Paid'
<1> SUFFICES ASSUME TypeOK, Ordered, Paid, [Next]_vars
             PROVE  Paid'
  OBVIOUS
<1>1. CASE ReadFile \/ QuietPasses \/ UNCHANGED vars
  BY <1>1 DEF ReadFile, QuietPasses, vars, loop, Paid
<1>2. CASE Tick \/ StopCheck \/ CheckFails \/ LoseCheck \/ FinishCheck
  <2>1. pc \notin Updating
    BY <1>2 DEF Tick, StopCheck, CheckFails, LoseCheck, FinishCheck, Updating
  <2>2. UNCHANGED <<sources, built, previous, retry, stop>>
    BY <1>2 DEF Tick, StopCheck, CheckFails, LoseCheck, FinishCheck, loop
  <2>. QED  BY <2>1, <2>2 DEF Paid
<1>3. CASE Decide
  <2>1. pc = "decide" /\ UNCHANGED <<sources, built, retry, stop>>
    BY <1>3 DEF Decide, DecideFirst, DecideSame, DecideChanged, DecidePending
  <2>2. CASE stop # "none"
    BY <2>1, <2>2 DEF Paid
  <2>3. CASE stop = "none"
    <3>1. pc' = "plan" \/ previous' = previous
      BY <1>3, <2>3 DEF Decide, DecideFirst, DecideSame, DecideChanged, DecidePending,
         Apply, GoTo
    <3>. QED  BY <2>1, <3>1 DEF Paid, Updating
  <2>. QED  BY <2>2, <2>3
<1>4. CASE SkipUpdate
  <2>1. built' = got /\ pc \in Updating /\ Applied(TRUE) /\ UNCHANGED <<sources, stop>>
    BY <1>4 DEF SkipUpdate, Updating
  <2>2. got \in Trees /\ AtMost(current, got) /\ AtMost(got, sources)
    BY <1>4, <2>1, PassReadsTree DEF SkipUpdate, PassDone, Ordered, AtMost, Read
  <2>. QED  BY <2>1, <2>2, AppliedPaid
<1>5. CASE Publish /\ Applied(TRUE)
  <2>1. built' = work /\ pc \in Updating /\ Applied(TRUE) /\ UNCHANGED <<sources, stop>>
    BY <1>5 DEF Publish, Updating
  <2>2. work \in Trees /\ AtMost(current, work) /\ AtMost(work, sources)
    BY <1>5 DEF Publish, Ordered
  <2>. QED  BY <2>1, <2>2, AppliedPaid
<1>6. CASE Applied(FALSE) /\ (UpdateFails \/ CompareSources \/ Publish)
  <2>1. Applied(FALSE) /\ UNCHANGED stop
    BY <1>6 DEF UpdateFails, CompareSources, Publish
  <2>. QED  BY <2>1 DEF Applied, Paid
<1>7. CASE StartBuild \/ Extract \/ (CompareSources /\ ~Applied(FALSE))
  <2>1. pc' \in Updating
    BY <1>7 DEF StartBuild, Extract, CompareSources, GoTo, Updating
  <2>. QED  BY <2>1 DEF Paid
<1>8. CASE RetryDue
  BY <1>8 DEF RetryDue, Paid
<1>9. CASE Edit
  <2>1. PICK f \in Files : sources'[f] = edits + 1
    BY <1>9, EditGrows
  <2>2. edits \in Nat /\ sources[f] \in Nat
    BY BoundsAssumption DEF TypeOK, Trees, Contents
  <2>3. previous = sources' => previous \in Trees
    BY <1>9, EditGrows
  <2>4. previous # sources'
    <3> SUFFICES ASSUME previous = sources' PROVE FALSE
      OBVIOUS
    <3>1. previous # None /\ previous \in Trees
      BY <2>3, NoneAssumption
    <3>2. previous[f] <= sources[f] /\ sources[f] <= edits
      BY <3>1 DEF Ordered, AtMost
    <3>. QED  BY <2>1, <2>2, <3>2
  <2>5. previous' = previous
    BY <1>9 DEF Edit, loop
  <2>. QED  BY <2>4, <2>5 DEF Paid
<1>10. CASE AskToStop
  BY <1>10 DEF AskToStop, Paid
<1>11. Publish => Applied(TRUE) \/ Applied(FALSE)
  BY DEF Publish
<1>12. UpdateFails => Applied(FALSE)
  BY DEF UpdateFails
<1>. QED
  BY <1>1, <1>2, <1>3, <1>4, <1>5, <1>6, <1>7, <1>8, <1>9, <1>10, <1>11, <1>12
  DEF Next, Worker, Ended

(***************************************************************************)
(* As long as no edit restores an earlier content, an idle worker whose    *)
(* last answered check is what the files are now, with no update to repeat *)
(* and nobody ending it, has made the output from these files.             *)
(***************************************************************************)
THEOREM OwesNothing ==
    ASSUME Reverts = FALSE
    PROVE  Spec => []NothingOwed
<1>1. Init => TypeOK /\ Ordered /\ Paid
  BY InitTyped, InitOrdered, InitPaid
<1>2. TypeOK /\ Ordered /\ Paid /\ [Next]_vars => (TypeOK /\ Ordered /\ Paid)'
  BY StepTyped, StepOrdered, StepPaid
<1>3. Paid => NothingOwed
  BY DEF Paid, NothingOwed, Updating
<1>. QED  BY <1>1, <1>2, <1>3, PTL DEF Spec
=============================================================================
