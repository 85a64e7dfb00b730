------------------------------ MODULE ForkJob ------------------------------
(***************************************************************************)
(* One speculative job on a pool thread or in a brokered worker            *)
(* (src/sfx/fork.py, substrate.py, chain.py:52, src/eval/sfx_daemon_run.py,*)
(* drain.py, spec_worker.py): a copy-on-write fork of the repository is    *)
(* made, the streamed write is applied to it, one command runs in it, and  *)
(* it is taken down.  Beside it the agent's own commands change the        *)
(* repository, and the command's processes run on after their shell.       *)
(*                                                                         *)
(* The repository is reduced to the two files that matter: the one the     *)
(* streamed write goes to, by what kind of entry it is, and the source of  *)
(* a reviewed script.  A system call may fail at any step.                 *)
(***************************************************************************)
EXTENDS Integers

VARIABLES
  pc,          \* the step of the job
  job,         \* what the job is: a streamed write or not, and its command
  repo,        \* the repository: the entry to be written, the script's source
  substrate,   \* ForkHandle.substrate
  dir,         \* the fork's directory under the scratch root exists
  mounts,      \* overlays mounted on the fork's merged/
  fork,        \* the fork's own copies of the two files
  changed,     \* the fork was changed since fs_hash was taken
  procs,       \* the command's process group
  killed,      \* SIGKILL was sent to the group: whoever is still in it is dying
  answer,      \* the result, or the kind of the exception
  quiet,       \* history: the repository was not changed during this job
  spawned      \* history: the command was started

vars == <<pc, job, repo, substrate, dir, mounts, fork, changed, procs, killed, answer,
          quiet, spawned>>

Entries == {"missing", "plain", "symlink", "aliased"}     \* aliased: st_nlink > 1
Sources == {"reviewed", "edited"}
Cow == {"clonefile", "reflink"}
NoFork == [leaf |-> "missing", src |-> "edited", up |-> FALSE]

\* A command's kind, what the script contracts say of it, and whether it is literal,
\* eligible and free of paths that leave the working tree.
Command == [kind : {"code", "read"},
            contract : {"undeclared", "violated", "unpinned", "pinned"},
            wellFormed : BOOLEAN]

Steps == {"idle", "admit", "choose", "copy_leaf", "copy_src", "mkdir", "mount", "fuse",
          "validate_fork", "validate_repo", "stat", "replace", "handle", "verify", "spawn",
          "communicate", "drain", "compare", "umount", "rmtree", "end"}

TypeOK ==
  /\ pc \in Steps
  /\ job \in [write : BOOLEAN, cmd : Command]
  /\ repo \in [leaf : Entries, src : Sources]
  /\ substrate \in Cow \cup {"none", "overlayfs"}
  /\ dir \in BOOLEAN
  /\ mounts \in 0..2
  /\ fork \in [leaf : Entries, src : Sources, up : BOOLEAN]
  /\ changed \in BOOLEAN
  /\ procs \subseteq {"shell", "piped", "detached"}
  /\ answer \in {"none", "ok", "declined", "failed", "left"}
  /\ killed \in BOOLEAN /\ quiet \in BOOLEAN /\ spawned \in BOOLEAN

Init ==
  /\ pc = "idle"
  /\ job \in [write : BOOLEAN, cmd : Command]
  /\ repo \in [leaf : Entries, src : Sources]
  /\ substrate = "none"
  /\ dir = FALSE /\ mounts = 0 /\ fork = NoFork
  /\ changed = FALSE
  /\ procs = {} /\ killed = FALSE
  /\ answer = "none"
  /\ quiet = TRUE /\ spawned = FALSE

\* What is seen at the fork's path.  An overlay's lower directory is the repository
\* itself; a file that was copied up hides it.  Without a fork it is the repository.
Leaf == IF substrate \in Cow \/ fork.up THEN fork.leaf ELSE repo.leaf
Src == IF substrate \in Cow THEN fork.src ELSE repo.src

pinned == job.cmd.contract = "pinned"

unforked == <<substrate, dir, mounts, fork>>
rest == <<job, repo, quiet, killed>>

Goto(step) == pc' = step /\ UNCHANGED answer

\* An exception: whatever was made of the fork is taken down.
Raise(kind) ==
  /\ pc' = IF substrate = "none" THEN "end" ELSE "umount"
  /\ answer' = kind

-----------------------------------------------------------------------------
(* Admission and the choice of the substrate *)

\* _validate_speculative_command: code, and any declared script, needs a contract that
\* pins its source.
Admitted(cmd) ==
  /\ cmd.wellFormed
  /\ cmd.contract # "violated"
  /\ cmd.kind = "code" \/ cmd.contract # "undeclared" => cmd.contract = "pinned"

\* run_hop_in_fork checks its command only in the fork; _run beforehand, and runs what
\* needs no fork in the repository itself.
Begin ==
  /\ pc = "idle"
  /\ \/ job.write /\ Goto("choose")
     \/ ~job.write /\ ~Admitted(job.cmd) /\ Raise("declined")
     \/ ~job.write /\ Admitted(job.cmd) /\ Goto(IF pinned THEN "choose" ELSE "spawn")
  /\ UNCHANGED <<rest, unforked, changed, procs, spawned>>

\* _decide_substrate, of the capabilities that were probed.
Decide(caps) ==
  IF "clonefile" \in caps THEN "clonefile"
  ELSE IF {"large_repo", "overlay"} \subseteq caps THEN "overlayfs"
  ELSE IF "reflink" \in caps THEN "reflink"
  ELSE IF "overlay" \in caps THEN "overlayfs"
  ELSE "none"

Capabilities == SUBSET {"clonefile", "reflink", "overlay", "large_repo"}

\* A pinned script of _run wants no overlay; a handle made by fork is looked at later.
Choose ==
  /\ pc = "choose"
  /\ \E caps \in Capabilities :
       LET chosen == Decide(caps) IN
       \/ chosen = "none" /\ Raise("failed") /\ UNCHANGED substrate
       \/ chosen = "overlayfs" /\ ~job.write /\ Raise("declined") /\ UNCHANGED substrate
       \/ /\ chosen # "none" /\ (chosen = "overlayfs" => job.write)
          /\ substrate' = chosen
          /\ Goto(IF chosen = "overlayfs" THEN "mkdir" ELSE "copy_leaf")
  /\ UNCHANGED <<rest, dir, mounts, fork, changed, procs, spawned>>

-----------------------------------------------------------------------------
(* Making the fork *)

made == IF job.write THEN "validate_fork" ELSE "handle"
making == <<rest, substrate, changed, procs, spawned>>

\* _clonefile_fork, _reflink_fork: entry by entry.  Links are copied as links; an alias
\* inside the repository is one in the fork, an alias elsewhere is left behind.
CopyLeaf ==
  /\ pc = "copy_leaf"
  /\ dir' = TRUE
  /\ \E leaf \in IF repo.leaf = "aliased" THEN {"aliased", "plain"} ELSE {repo.leaf} :
       fork' = [fork EXCEPT !.leaf = leaf]
  /\ Goto("copy_src")
  /\ UNCHANGED <<making, mounts>>

CopySrc ==
  /\ pc = "copy_src"
  /\ fork' = [fork EXCEPT !.src = repo.src]
  /\ Goto(made)
  /\ UNCHANGED <<making, dir, mounts>>

\* _overlayfs_fork
MakeDirs ==
  /\ pc = "mkdir"
  /\ dir' = TRUE
  /\ Goto("mount")
  /\ UNCHANGED <<making, mounts, fork>>

\* mount, then fuse-overlayfs: a call that failed or timed out may have mounted, and
\* _verify_canonical may reject what a good one did.
Mount ==
  /\ pc = "mount"
  /\ \/ mounts' = 1 /\ (Goto(made) \/ Raise("failed"))
     \/ mounts' \in {0, 1} /\ Goto("fuse")
  /\ UNCHANGED <<making, dir, fork>>

Fuse ==
  /\ pc = "fuse"
  /\ \/ mounts' = mounts + 1 /\ Goto(made)
     \/ mounts' \in {mounts, mounts + 1} /\ Raise("failed")
  /\ UNCHANGED <<making, dir, fork>>

\* Giving up with what was made so far.
ForkFails_NoTeardown ==
  /\ pc \in {"copy_leaf", "copy_src", "mkdir"}
  /\ dir' \in {dir, TRUE}
  /\ pc' = "end" /\ answer' = "failed"
  /\ UNCHANGED <<making, mounts, fork>>

\* A copy, a directory or the check of the fork's path fails.
ForkFails ==
  /\ pc \in {"copy_leaf", "copy_src", "mkdir"}
  /\ dir' \in {dir, TRUE}
  /\ Raise("failed")
  /\ UNCHANGED <<making, mounts, fork>>

-----------------------------------------------------------------------------
(* FilesystemSubstrate.apply *)

applying == <<rest, substrate, dir, mounts, changed, procs, spawned>>

\* validate_write_path, in the fork and in the repository it was made of.
Private(leaf) == leaf \in {"missing", "plain"}

ValidateFork ==
  /\ pc = "validate_fork"
  /\ IF Private(Leaf) THEN Goto("validate_repo") ELSE Raise("failed")
  /\ UNCHANGED <<applying, fork>>

\* Looking only at the copy.
ValidateRepo_Skip ==
  /\ pc = "validate_repo"
  /\ Goto("stat")
  /\ UNCHANGED <<applying, fork>>

ValidateRepo ==
  /\ pc = "validate_repo"
  /\ IF Private(repo.leaf) THEN Goto("stat") ELSE Raise("failed")
  /\ UNCHANGED <<applying, fork>>

\* write_text_in_fork: the entry must not be a link; a temporary file is made.
StatLeaf ==
  /\ pc = "stat"
  /\ \/ Leaf # "symlink" /\ Goto("replace")
     \/ Raise("failed")
  /\ UNCHANGED <<applying, fork>>

\* os.replace puts the temporary file in the place of the entry, whatever it is by now;
\* or it fails and the temporary file is removed.
Replace ==
  /\ pc = "replace"
  /\ \/ Goto("handle") /\ fork' = [fork EXCEPT !.leaf = "plain", !.up = TRUE]
     \/ Raise("failed") /\ UNCHANGED fork
  /\ UNCHANGED applying

-----------------------------------------------------------------------------
(* _run_in_fork *)

checking == <<rest, unforked, procs, spawned>>

\* Leaving the handle to whoever chose the substrate.
ValidateHandle_Skip ==
  /\ pc = "handle"
  /\ Goto("verify")
  /\ UNCHANGED <<checking, changed>>

ValidateHandle ==
  /\ pc = "handle"
  /\ IF pinned /\ substrate \notin Cow THEN Raise("declined") ELSE Goto("verify")
  /\ UNCHANGED <<checking, changed>>

\* Admission, the source's digest, the search for aliases, and fs_hash.
Verify ==
  /\ pc = "verify"
  /\ \/ Admitted(job.cmd) /\ (pinned => Src = "reviewed" /\ Private(Leaf)) /\ Goto("spawn")
     \/ Raise("declined")
  /\ changed' = FALSE
  /\ UNCHANGED checking

running == <<rest, unforked>>

Spawn ==
  /\ pc = "spawn"
  /\ procs' = {"shell"} /\ spawned' = TRUE
  /\ Goto("communicate")
  /\ UNCHANGED <<running, changed>>

\* A process of the command starts another of its group, which shares its output if it
\* has it itself, or not; ends; or writes in the fork, as long as that is there.  "piped"
\* and "detached" are all the processes of their kind.  A killed process starts no other,
\* but a system call it is in may still be done.
StartsAnother ==
  /\ procs # {} /\ ~killed
  /\ \/ procs # {"detached"} /\ procs' = procs \cup {"piped"}
     \/ procs' = procs \cup {"detached"}
  /\ UNCHANGED <<running, pc, answer, changed, spawned>>

Ends(p) ==
  /\ p \in procs
  /\ procs' = procs \ {p}
  /\ UNCHANGED <<running, pc, answer, changed, spawned>>

WritesFork ==
  /\ procs # {} /\ dir
  /\ changed' = TRUE
  /\ UNCHANGED <<running, pc, answer, procs, spawned>>

\* run_drained: communicate ends when nobody holds the output any more.
Communicated ==
  /\ pc = "communicate"
  /\ procs \cap {"shell", "piped"} = {}
  /\ Goto("drain")
  /\ UNCHANGED <<running, changed, procs, spawned>>

\* Returning with the shell.
Drained_Shell ==
  /\ pc = "drain"
  /\ Goto("compare")
  /\ UNCHANGED <<running, changed, procs, spawned>>

Drained ==
  /\ pc = "drain"
  /\ procs = {}
  /\ Goto("compare")
  /\ UNCHANGED <<running, changed, procs, spawned>>

\* Polling the group to empty, however long it takes.
DrainLate_Patient ==
  /\ pc = "drain"
  /\ procs # {}
  /\ UNCHANGED vars

\* The group outlived the drain: it is sent SIGKILL, and run_drained raises without
\* waiting for it to die.
DrainLate ==
  /\ pc = "drain"
  /\ procs # {}
  /\ killed' = TRUE
  /\ Raise("failed")
  /\ UNCHANGED <<job, repo, quiet, unforked, changed, procs, spawned>>

\* The fork is hashed again; the output may turn out not to be reusable.
Compare ==
  /\ pc = "compare"
  /\ \/ pinned /\ changed /\ Raise("failed")
     \/ ~(pinned /\ changed) /\ (Raise("ok") \/ Raise("declined"))
  /\ UNCHANGED <<running, changed, procs, spawned>>

-----------------------------------------------------------------------------
(* _teardown *)

removing == <<rest, substrate, fork, changed, procs, spawned>>
Left == pc' = "end" /\ answer' = "left"

\* Removing the directory whatever the mount point is.
Umount_Blind ==
  /\ pc = "umount"
  /\ Goto("rmtree")
  /\ mounts' \in {mounts, IF mounts = 0 THEN 0 ELSE mounts - 1}
  /\ UNCHANGED <<removing, dir>>

\* _overlay_umount: once, and merged/ must not be a mount point afterwards.  The call
\* may time out, having unmounted or not.
Umount ==
  /\ pc = "umount"
  /\ mounts' \in IF mounts = 0 THEN {0} ELSE {mounts - 1, mounts}
  /\ \/ mounts' = 0 /\ Goto("rmtree")
     \/ mounts > 0 /\ Left
  /\ UNCHANGED <<removing, dir>>

RemoveTree ==
  /\ pc = "rmtree"
  /\ \/ dir' = FALSE /\ Goto("end")
     \/ dir /\ UNCHANGED dir /\ Left
  /\ UNCHANGED <<removing, mounts>>

-----------------------------------------------------------------------------
(* The agent's own commands *)

RepoChanges ==
  /\ pc \notin {"idle", "end"}
  /\ repo' \in [leaf : Entries, src : Sources]
  /\ quiet' = FALSE
  /\ UNCHANGED <<pc, job, unforked, changed, procs, killed, answer, spawned>>

Finished ==
  /\ pc = "end" /\ procs = {}
  /\ UNCHANGED vars

JobStep ==
  \/ Begin \/ Choose
  \/ CopyLeaf \/ CopySrc \/ MakeDirs \/ Mount \/ Fuse \/ ForkFails
  \/ ValidateFork \/ ValidateRepo \/ StatLeaf \/ Replace
  \/ ValidateHandle \/ Verify \/ Spawn
  \/ Communicated \/ Drained \/ DrainLate \/ Compare
  \/ Umount \/ RemoveTree

Next ==
  \/ JobStep
  \/ StartsAnother \/ WritesFork \/ \E p \in procs : Ends(p)
  \/ RepoChanges
  \/ Finished

\* The thread goes on and the drain has a deadline.  Nothing is assumed of the command:
\* communicate waits without a limit for whoever holds its output (drain.py:32), and a
\* process, killed or not, may stay for ever.
Fairness == WF_vars(JobStep)

Spec == Init /\ [][Next]_vars /\ Fairness

-----------------------------------------------------------------------------
(* Properties *)

\* Project code runs speculatively only under a contract that pins its source, and as
\* long as it runs the source it may read is the reviewed one, whatever is done to the
\* repository meanwhile (sfx_daemon_run.py:117-126, 147-149, 171).
CodeIsReviewed ==
  procs # {} /\ (job.cmd.kind = "code" \/ job.cmd.contract # "undeclared") =>
    pinned /\ Src = "reviewed"

\* A result is complete: it is given with no process of the command's group left, so
\* nothing changes it any more, and a pinned one left its fork as it was (drain.py:4-7,
\* spec_worker.py:206-217).  Whatever else is answered, the processes that are left have
\* been killed: none goes on working for a job that was given up (drain.py:44-49).
AnswerIsFinal ==
  /\ answer # "none" /\ procs # {} => killed
  /\ answer = "ok" => procs = {} /\ spawned /\ (pinned => ~changed)

\* A result after a streamed write comes from a fork in which the write had the effect
\* it has in the repository: on a file that has no other name.
WriteHasOneName ==
  answer = "ok" /\ job.write /\ quiet => Private(repo.leaf)

\* A job leaves no directory and no mount behind, except when it says so
\* (fork.py:355-356, 397-405).
NothingLeft == pc = "end" /\ answer # "left" => ~dir /\ mounts = 0

\* The steps from the verification of a command, and of a streamed write, to its result.
Verified == {"spawn", "communicate", "drain", "compare"}
Applied == {"stat", "replace", "handle", "verify"} \cup Verified

\* No job leaves anything behind unsaid.  It is so, and the properties above hold, because
\* each step of the job goes with what there is of its fork: nothing before a substrate is
\* chosen, at most one mount beneath fuse-overlayfs, none beneath a removal; processes
\* only between the start of the command and the end of its drain, but for those that
\* die of its kill, after which there is no result; and, once a pinned command is
\* verified and as long as a process of it is left, a reviewed source that is the fork's
\* own.
ForkInv ==
  /\ TypeOK
  /\ NothingLeft
  /\ substrate = "none" => ~dir /\ mounts = 0
  /\ pc \in {"idle", "choose"} => substrate = "none"
  /\ pc \in {"copy_leaf", "copy_src", "mkdir", "mount", "fuse"} => substrate # "none"
  /\ pc \in {"mkdir", "mount", "rmtree"} => mounts = 0
  /\ pc = "fuse" => mounts < 2
  /\ procs # {} => pc \in {"communicate", "drain"} \/ killed
  /\ killed => spawned /\ answer \in {"failed", "left"}
  /\ pc \in {"communicate", "drain", "compare"} => spawned
  /\ answer # "none" => pc \in {"umount", "rmtree", "end"}
  /\ answer = "ok" => spawned /\ (pinned => ~changed)
  /\ pc = "verify" /\ pinned => substrate \in Cow
  /\ pc \in Verified \/ procs # {} =>
       /\ Admitted(job.cmd)
       /\ pinned => substrate \in Cow /\ fork.src = "reviewed"
  /\ (pc \in Applied \/ answer = "ok") /\ job.write /\ quiet => Private(repo.leaf)

\* A fork's directory is removed only with nothing mounted on it, and beneath no process
\* that is still at work: whoever is in it is dying of the drain's kill (fork.py:323-333,
\* drain.py:44-49).
RemovedQuietly ==
  [][dir /\ ~dir' => (procs # {} => killed) /\ mounts = 0 /\ mounts' = 0]_vars

\* Every job ends, with a fork or without, whatever fails and whoever outlives its shell;
\* only a command whose output somebody holds for ever holds it up.
JobEnds ==
  \/ <>(pc = "end")
  \/ <>[](pc = "communicate" /\ procs \cap {"shell", "piped"} # {})

=============================================================================
