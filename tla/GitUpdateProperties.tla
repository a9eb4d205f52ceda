------------------------ MODULE GitUpdateProperties ------------------------
(***************************************************************************)
(* What `goregraph git update' promises the user of the repository.        *)
(***************************************************************************)
EXTENDS GitUpdate

Inspections == [branch : Branches \cup {NoBranch}, commit : Commits, target : Branches \cup {NoBranch},
                targetCommit : Commits, exists : BOOLEAN]
Refs == [Branches -> Commits]

\* The types of the variables.
TypeOK ==
    /\ {origin, tracked, local} \subseteq Refs
    /\ head \in Branches \cup {NoBranch} /\ detachedAt \in Commits
    /\ dirty \in BOOLEAN /\ operation \in BOOLEAN
    /\ pc \in {"inspect", "fetch", "inspect_again", "switch", "merge", "final", "done"}
    /\ {initial, fetched} \subseteq Inspections
    /\ result \in {"none", "refused", "failed", "updated", "up_to_date"}
    /\ since \subseteq {"commit", "edit", "operation", "switch"}
    /\ outside \in 0..MaxOutside

\* "only switches or fast-forwards an eligible clean repository" (README.md),
\* whatever the user does meanwhile: a step of the update moves no branch but
\* forward to the fetched commit of the default branch, leaves what is not
\* committed alone, and moves HEAD to the default branch only; and if the user
\* did nothing since the second inspection the repository is clean, nothing is
\* in progress, and no branch but the default one moves.
ByUpdate == pc' # pc
FastForwardsOnly ==
    [][ByUpdate =>
        /\ \A b \in Branches : local'[b] # local[b] =>
              /\ local'[b] = tracked[fetched.target]
              /\ local[b] \subseteq local'[b]
              /\ since = {} => b = fetched.target
        /\ head' # head => head' = fetched.target
        /\ head = NoBranch => head' # NoBranch \/ detachedAt \subseteq detachedAt'
        /\ UNCHANGED <<dirty, operation>>
        /\ <<local, head>>' # <<local, head>> /\ since = {} => ~dirty /\ ~operation]_vars

\* A repository that is reported as updated or up to date is on the default
\* branch and contains what was fetched of it, unless the user left the branch
\* while the update ran.
ReportTrue ==
    result \in {"updated", "up_to_date"} /\ "switch" \notin since =>
        /\ head = fetched.target
        /\ fetched.targetCommit \subseteq local[head]

=============================================================================
