--------------------------- MODULE ForkJobProofs ---------------------------
(***************************************************************************)
(* ForkJob's safety properties.  Nothing is assumed: a job may be of any   *)
(* kind, and the repository, the processes and the system calls may do     *)
(* anything the module lets them do, any number of times.                  *)
(***************************************************************************)
EXTENDS ForkJob, TLAPS

\* The invariant holds before the job begins.
LEMMA InitFork == Init => ForkInv
<1> SUFFICES ASSUME Init PROVE ForkInv
  OBVIOUS
<1>1. {dir, changed, killed, quiet, spawned} \subseteq BOOLEAN
  BY Zenon DEF Init
<1>2. TypeOK
  BY <1>1 DEF Init, TypeOK, Steps, Cow, NoFork, Entries, Sources
<1> QED BY <1>2 DEF Init, ForkInv, NothingLeft, Verified, Applied

\* Admission, the choice of the substrate and the making of the fork.
LEMMA MakeStep ==
  ASSUME ForkInv,
         Begin \/ Choose \/ CopyLeaf \/ CopySrc \/ MakeDirs \/ Mount \/ Fuse \/ ForkFails
  PROVE  ForkInv'
<1> USE DEF ForkInv, TypeOK, NothingLeft, Steps, Verified, Applied, Cow, Entries, Sources,
            Goto, Raise, rest, unforked, making, made, pinned
<1>1. CASE Begin
  BY <1>1 DEF Begin, Admitted
<1>2. CASE Choose
  BY <1>2 DEF Choose, Decide
<1>3. CASE CopyLeaf
  BY <1>3 DEF CopyLeaf
<1>4. CASE CopySrc
  BY <1>4 DEF CopySrc
<1>5. CASE MakeDirs
  BY <1>5 DEF MakeDirs
<1>6. CASE Mount
  BY <1>6 DEF Mount
<1>7. CASE Fuse
  BY <1>7 DEF Fuse
<1>8. CASE ForkFails
  <2>1. dir' \in BOOLEAN
    BY <1>8, Zenon DEF ForkFails
  <2> QED BY <1>8, <2>1 DEF ForkFails
<1> QED BY <1>1, <1>2, <1>3, <1>4, <1>5, <1>6, <1>7, <1>8

\* The streamed write is applied to the fork.
LEMMA ApplyStep ==
  ASSUME ForkInv, ValidateFork \/ ValidateRepo \/ StatLeaf \/ Replace
  PROVE  ForkInv'
<1> USE DEF ForkInv, TypeOK, NothingLeft, Steps, Verified, Applied, Cow, Entries, Sources,
            Goto, Raise, rest, applying, pinned
<1>1. CASE ValidateFork
  BY <1>1 DEF ValidateFork
<1>2. CASE ValidateRepo
  BY <1>2 DEF ValidateRepo
<1>3. CASE StatLeaf
  BY <1>3 DEF StatLeaf
<1>4. CASE Replace
  <2>1. fork' \in [leaf : Entries, src : Sources, up : BOOLEAN]
    BY <1>4 DEF Replace
  <2>2. fork.src = fork'.src
    BY <1>4 DEF Replace
  <2> QED BY <1>4, <2>1, <2>2 DEF Replace
<1> QED BY <1>1, <1>2, <1>3, <1>4

\* The command is checked, started, drained and judged.
LEMMA RunStep ==
  ASSUME ForkInv,
         ValidateHandle \/ Verify \/ Spawn \/ Communicated \/ Drained \/ DrainLate \/ Compare
  PROVE  ForkInv'
<1> USE DEF ForkInv, TypeOK, NothingLeft, Steps, Verified, Applied, Cow, Entries, Sources,
            Goto, Raise, rest, unforked, checking, running, pinned
<1>1. CASE ValidateHandle
  BY <1>1 DEF ValidateHandle
<1>2. CASE Verify
  <2>1. changed' \in BOOLEAN
    BY <1>2, Zenon DEF Verify
  <2> QED BY <1>2, <2>1 DEF Verify, Src
<1>3. CASE Spawn
  BY <1>3 DEF Spawn
<1>4. CASE Communicated
  BY <1>4 DEF Communicated
<1>5. CASE Drained
  BY <1>5 DEF Drained
<1>6. CASE DrainLate
  BY <1>6 DEF DrainLate
<1>7. CASE Compare
  BY <1>7 DEF Compare
<1> QED BY <1>1, <1>2, <1>3, <1>4, <1>5, <1>6, <1>7

\* The fork is taken down.
LEMMA TeardownStep ==
  ASSUME ForkInv, Umount \/ RemoveTree
  PROVE  ForkInv'
<1> USE DEF ForkInv, TypeOK, NothingLeft, Steps, Verified, Applied, Cow, Entries, Sources,
            Goto, Left, rest, removing, pinned
<1>1. CASE Umount
  BY <1>1 DEF Umount
<1>2. CASE RemoveTree
  <2>1. dir' \in BOOLEAN
    BY <1>2, Zenon DEF RemoveTree
  <2> QED BY <1>2, <2>1 DEF RemoveTree
<1> QED BY <1>1, <1>2

\* What the command's processes and the agent do meanwhile.
LEMMA OthersStep ==
  ASSUME ForkInv, StartsAnother \/ WritesFork \/ RepoChanges \/ \E p \in procs : Ends(p)
  PROVE  ForkInv'
<1> USE DEF ForkInv, TypeOK, NothingLeft, Steps, Verified, Applied, Cow, rest, unforked, running, pinned
<1>1. CASE StartsAnother
  <2>1. /\ procs # {} /\ ~killed /\ procs' \subseteq {"shell", "piped", "detached"}
        /\ UNCHANGED <<running, pc, answer, changed, spawned>>
    BY <1>1 DEF StartsAnother
  <2> QED BY <2>1
<1>2. CASE WritesFork
  BY <1>2 DEF WritesFork
<1>3. CASE RepoChanges
  <2>1. quiet' \in BOOLEAN
    BY <1>3, Zenon DEF RepoChanges
  <2> QED BY <1>3, <2>1 DEF RepoChanges
<1>4. CASE \E p \in procs : Ends(p)
  BY <1>4 DEF Ends
<1> HIDE DEF ForkInv
<1> QED BY <1>1, <1>2, <1>3, <1>4

\* The invariant is inductive.
LEMMA ForkStep == ForkInv /\ [Next]_vars => ForkInv'
<1> SUFFICES ASSUME ForkInv, [Next]_vars PROVE ForkInv'
  OBVIOUS
<1>1. CASE UNCHANGED vars
  BY <1>1 DEF vars, ForkInv, TypeOK, NothingLeft, Verified, Applied, pinned
<1>2. CASE Next
  BY <1>1, <1>2, MakeStep, ApplyStep, RunStep, TeardownStep, OthersStep DEF Next, JobStep, Finished
<1> QED BY <1>1, <1>2

-----------------------------------------------------------------------------
(* Theorems *)

\* The invariant of a job and its fork holds always: in particular a job ends without a
\* directory or a mount of its own, or says that it left one (fork.py:355-356, 397-405).
THEOREM ForkInvHolds == Spec => []ForkInv
BY InitFork, ForkStep, PTL DEF Spec

\* Project code runs speculatively only under a contract that pins its source, with the
\* reviewed source, whatever is done to the repository meanwhile.
THEOREM OnlyReviewedCodeRuns == Spec => []CodeIsReviewed
<1>1. ForkInv => CodeIsReviewed
  BY DEF ForkInv, CodeIsReviewed, Verified, Admitted, Src, pinned
<1> QED BY <1>1, ForkInvHolds, PTL

\* A result is given with no process of the group left, and a pinned one only of a fork
\* that was not changed; a failure with no process left that was not killed.
THEOREM AnswersAreFinal == Spec => []AnswerIsFinal
<1>1. ForkInv => AnswerIsFinal
  BY DEF ForkInv, AnswerIsFinal
<1> QED BY <1>1, ForkInvHolds, PTL

\* A result after a streamed write is of a write to a file with one name.
THEOREM WritesHaveOneName == Spec => []WriteHasOneName
<1>1. ForkInv => WriteHasOneName
  BY DEF ForkInv, WriteHasOneName
<1> QED BY <1>1, ForkInvHolds, PTL

\* No fork is removed beneath a mount, nor beneath a process that was not killed.
THEOREM ForksRemovedQuietly == Spec => RemovedQuietly
<1>1. ASSUME ForkInv, [Next]_vars
      PROVE  [dir /\ ~dir' => (procs # {} => killed) /\ mounts = 0 /\ mounts' = 0]_vars
  <2>1. CASE UNCHANGED dir
    BY <2>1
  <2>2. CASE RemoveTree
    BY <1>1, <2>2 DEF RemoveTree, ForkInv
  <2>3. CASE dir' = TRUE
    BY <2>3
  <2>4. \/ UNCHANGED dir \/ RemoveTree \/ dir' = TRUE
    BY <1>1 DEF Next, JobStep, Begin, Choose, CopyLeaf, CopySrc, MakeDirs, Mount, Fuse, ForkFails,
                ValidateFork, ValidateRepo, StatLeaf, Replace, ValidateHandle, Verify, Spawn,
                Communicated, Drained, DrainLate, Compare, Umount, StartsAnother, WritesFork, Ends,
                RepoChanges, Finished, vars, rest, unforked, making, applying, checking, running, removing
  <2> QED BY <2>1, <2>2, <2>3, <2>4
<1> QED BY <1>1, ForkInvHolds, PTL DEF Spec, RemovedQuietly

=============================================================================
