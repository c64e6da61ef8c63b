----------------------------- MODULE Workspaces -----------------------------
(***************************************************************************)
(* Where workers work: the declared workspace of a start and its check     *)
(* (validateWorkerWorkspace), the worktree the broker cuts for it and      *)
(* gives back (SessionWorkspaceCoordinator, GitWorktreeProvisioner), the   *)
(* canary that a Scout changed nothing, and `cyberdeck worktree prune`     *)
(* (GitWorktreeInventory, retentionVerdict).                               *)
(*                                                                         *)
(* One repository, one branch name and the sibling directory the naming    *)
(* policy derives from it.  A commit is a number: `branch` counts the      *)
(* commits made on the branch since its base.  Git itself is external; its *)
(* commands are atomic and refuse what they refuse without --force.        *)
(***************************************************************************)
EXTENDS Naturals, FiniteSets

CONSTANTS
    Starts,         \* start requests, also the sessions they become
    Scouts,
    Scenes,         \* [about, base: "merged" or "ahead" of the checkout's HEAD]
    MaxCommits,     \* bound
    MaxFaults,      \* bound: failures and writes that should not happen
    Absent          \* no branch, worktree, directory, capture

ASSUME AbsentIsNoNumber == Absent \notin Nat

VARIABLES
    scene,
    branch,     \* Absent, or the commits on the branch beyond its base
    pushed,     \* how many of them a remote has
    tree,       \* the worktree: Absent or [dirty, provenance, detached, loose, maker]
    starts,     \* stage of each start
    live,       \* sessions with a process, and their directory: "tree" or "sub"
    prune,      \* the prune command: stage and what it has read
    files,      \* version of the repository's observable state
    capture,    \* stateInflight: Absent or [read, value]
    scouts,     \* stage, baseline and verdict of each Scout
    asked,      \* the workspace request that was checked
    made,       \* history: commits made on the branch
    destroyed,       \* history: what prune destroyed
    faults

git == <<branch, pushed, tree>>
canary == <<files, capture, scouts>>
workspacesVars == <<scene, git, starts, live, prune, canary, asked, made, destroyed, faults>>

Fault == faults < MaxFaults /\ faults' = faults + 1
NoPrune == [stage |-> "idle", live |-> FALSE, inside |-> {}, dirty |-> FALSE, ahead |-> 0, pushed |-> FALSE]
NoScout == [stage |-> "new", baseline |-> 0, wrote |-> FALSE, shared |-> FALSE, verdict |-> "none"]

(***************************************************************************)
(* The declared workspace                                                  *)
(***************************************************************************)
\* "root" holds the repository "repo" with its common directory "git", and
\* the worktree "tree" with the directory "sub" in it.
Places == {"root", "repo", "git", "tree", "sub"}
Within == {<<"root", p>> : p \in Places} \cup {<<"repo", "git">>, <<"tree", "sub">>} \cup {<<p, p>> : p \in Places}
Covered(roots, p) == \E r \in roots : <<r, p>> \in Within

Requests == [provisioning : {"pre-provisioned", "worker-provisioned", "cyberdeck-provisioned"},
             cwd : {"repo", "tree", "sub"}, sandbox : {"read-only", "workspace-write"},
             roots : SUBSET {"git", "tree", "root"}]

\* checkWorkerWorkspaceShape
Shape(r) ==
    CASE r.provisioning = "pre-provisioned" /\ ~Covered({"tree"}, r.cwd) -> "WORKSPACE_CWD_OUTSIDE_WORKTREE"
      [] r.provisioning # "pre-provisioned" /\ Covered({"tree"}, r.cwd) -> "WORKSPACE_CWD_OUTSIDE_WORKTREE"
      [] OTHER -> "ok"

\* validateWorkerWorkspace: the first reason to refuse.  The base resolves.
Validate(r) ==
    IF Shape(r) # "ok" THEN Shape(r)
    ELSE IF r.provisioning = "worker-provisioned" /\ r.sandbox # "workspace-write" THEN "WORKSPACE_PROVISIONING_REQUIRES_WRITE"
    ELSE IF r.provisioning = "worker-provisioned" /\ ~Covered({r.cwd} \cup r.roots, "tree") THEN "WORKSPACE_TARGET_NOT_WRITABLE"
    ELSE IF r.provisioning = "worker-provisioned" /\ ~Covered({r.cwd} \cup r.roots, "git") THEN "WORKSPACE_GIT_DIR_NOT_WRITABLE"
    ELSE IF r.provisioning = "cyberdeck-provisioned" /\ branch # Absent THEN "WORKSPACE_BRANCH_EXISTS"
    ELSE IF r.provisioning = "cyberdeck-provisioned" /\ tree # Absent THEN "WORKSPACE_TARGET_EXISTS"
    ELSE IF r.provisioning = "pre-provisioned" /\ tree = Absent THEN "WORKSPACE_WORKTREE_MISSING"
    ELSE IF r.provisioning = "pre-provisioned" /\ tree.detached THEN "WORKSPACE_BRANCH_MISMATCH"
    ELSE "ok"

\* workspaceWritableRoots: only a worker launched in its worktree has it already.
WritableRoots(r) == IF r.provisioning = "worker-provisioned" THEN r.roots ELSE r.roots \ {"tree"}

\* startWorker checks the request of scene "check".
Check(r) ==
    /\ scene.about = "check" /\ asked = Absent
    /\ asked' = [request |-> r, answer |-> Validate(r),
                 grant |-> IF r.sandbox = "workspace-write"
                           THEN WritableRoots(r) \cup {IF r.provisioning = "cyberdeck-provisioned" THEN "tree" ELSE r.cwd}
                           ELSE {}]
    /\ UNCHANGED <<scene, git, starts, live, prune, canary, made, destroyed, faults>>

(***************************************************************************)
(* Provisioning                                                            *)
(***************************************************************************)
At(s, stage) == scene.about = "start" /\ starts[s] = stage
Goes(s, stage) == starts' = [starts EXCEPT ![s] = stage]
Cut(s) == tree' = [dirty |-> FALSE, provenance |-> FALSE, detached |-> FALSE, loose |-> 0, maker |-> s]

\* The check of a cyberdeck-provisioned start; time passes before it is cut.
Admit(s) ==
    /\ At(s, "asked")
    /\ Goes(s, IF branch = Absent /\ tree = Absent THEN "cutting" ELSE "refused")
    /\ UNCHANGED <<scene, git, live, prune, canary, asked, made, destroyed, faults>>

\* git worktree add -b: refuses a branch or a directory that exists.
Provision(s) ==
    /\ At(s, "cutting")
    /\ IF branch = Absent /\ tree = Absent
       THEN branch' = 0 /\ Cut(s) /\ Goes(s, "marking")
       ELSE UNCHANGED <<branch, tree>> /\ Goes(s, "refused")
    /\ UNCHANGED <<scene, pushed, live, prune, canary, asked, made, destroyed, faults>>

\* Provenance, which may fail without failing the start.
WriteProvenance(s) ==
    /\ At(s, "marking") /\ Goes(s, "journaling")
    /\ \/ tree' = (IF tree = Absent THEN tree ELSE [tree EXCEPT !.provenance = TRUE]) /\ faults' = faults
       \/ tree' = tree /\ Fault
    /\ UNCHANGED <<scene, branch, pushed, live, prune, canary, asked, made, destroyed>>

\* workspaceProvisioned is journaled, or the worktree is given back.
Journal(s) ==
    /\ At(s, "journaling")
    /\ \/ Goes(s, "launching") /\ faults' = faults
       \/ Goes(s, "returning") /\ Fault
    /\ UNCHANGED <<scene, git, live, prune, canary, asked, made, destroyed>>

Launch(s) ==
    /\ At(s, "launching")
    /\ \/ Goes(s, "running") /\ live' = [live EXCEPT ![s] = "tree"] /\ faults' = faults
       \/ Goes(s, "returning") /\ live' = live /\ Fault
    /\ UNCHANGED <<scene, git, prune, canary, asked, made, destroyed>>

\* git worktree remove refuses a worktree that is dirty.
TreeRemoved == tree' = IF tree # Absent /\ ~tree.dirty THEN Absent ELSE tree

\* git branch -d refuses a branch that is checked out, or not contained in the
\* HEAD of the checkout it runs in (the branch has no upstream of its own).
BranchDeleted ==
    branch' = IF branch = 0 /\ tree = Absent /\ scene.base = "merged" THEN Absent ELSE branch

\* discard, for a worktree this start created.
DiscardTree(s) ==
    /\ At(s, "returning") /\ TreeRemoved /\ Goes(s, "branching")
    /\ UNCHANGED <<scene, branch, pushed, live, prune, canary, asked, made, destroyed, faults>>

DiscardBranch(s) ==
    /\ At(s, "branching") /\ BranchDeleted /\ Goes(s, "over")
    /\ UNCHANGED <<scene, pushed, tree, live, prune, canary, asked, made, destroyed, faults>>

(***************************************************************************)
(* Workers in the worktree, and prune                                      *)
(***************************************************************************)
Pruning == scene.about = "prune"
Working(s) == Pruning /\ tree # Absent /\ live[s] # Absent

\* A worker starts in the worktree as a pre-provisioned one.
Enter(s, dir) ==
    /\ Pruning /\ tree # Absent /\ ~tree.detached /\ live[s] = Absent /\ starts[s] = "asked"
    /\ live' = [live EXCEPT ![s] = dir] /\ Goes(s, "running")
    /\ UNCHANGED <<scene, git, prune, canary, asked, made, destroyed, faults>>

Exit(s) ==
    /\ Pruning /\ live[s] # Absent
    /\ live' = [live EXCEPT ![s] = Absent] /\ Goes(s, "over")
    /\ UNCHANGED <<scene, git, prune, canary, asked, made, destroyed, faults>>

Edit(s) ==
    /\ Working(s) /\ ~tree.dirty
    /\ tree' = [tree EXCEPT !.dirty = TRUE]
    /\ UNCHANGED <<scene, branch, pushed, starts, live, prune, canary, asked, made, destroyed, faults>>

Commit(s) ==
    /\ Working(s) /\ tree.dirty /\ branch + tree.loose < MaxCommits
    /\ IF tree.detached
       THEN tree' = [tree EXCEPT !.dirty = FALSE, !.loose = @ + 1] /\ UNCHANGED <<branch, made>>
       ELSE tree' = [tree EXCEPT !.dirty = FALSE] /\ branch' = branch + 1 /\ made' = made + 1
    /\ UNCHANGED <<scene, pushed, starts, live, prune, canary, asked, destroyed, faults>>

Push(s) ==
    /\ Working(s) /\ ~tree.detached /\ pushed < branch
    /\ pushed' = branch
    /\ UNCHANGED <<scene, branch, tree, starts, live, prune, canary, asked, made, destroyed, faults>>

Detach(s) ==
    /\ Working(s) /\ ~tree.detached /\ tree.loose = 0
    /\ tree' = [tree EXCEPT !.detached = TRUE]
    /\ UNCHANGED <<scene, branch, pushed, starts, live, prune, canary, asked, made, destroyed, faults>>

Seen(stage) == Pruning /\ prune.stage = stage

\* liveWorktreeCwds: sessions without a recorded exit, by their directory.
ListLive ==
    /\ Seen("idle") /\ tree # Absent /\ tree.provenance
    /\ prune' = [NoPrune EXCEPT !.stage = "status", !.live = \E s \in Starts : live[s] = "tree",
                                !.inside = {s \in Starts : live[s] # Absent}]
    /\ UNCHANGED <<scene, git, starts, live, canary, asked, made, destroyed, faults>>

\* git status in the worktree; a worktree that cannot be read counts as dirty.
ReadStatus ==
    /\ Seen("status")
    /\ prune' = [prune EXCEPT !.stage = "count", !.dirty = tree # Absent /\ tree.dirty]
    /\ UNCHANGED <<scene, git, starts, live, canary, asked, made, destroyed, faults>>

\* Commits beyond the recorded base commit, and whether the upstream has them.
ReadCommits ==
    /\ Seen("count")
    /\ prune' = [prune EXCEPT !.stage = "verdict",
                              !.ahead = IF tree.detached THEN branch + tree.loose ELSE branch,
                              !.pushed = ~tree.detached /\ pushed = branch /\ pushed > 0]
    /\ UNCHANGED <<scene, git, starts, live, canary, asked, made, destroyed, faults>>

\* Bug: commits that are not pushed do not count.
KeepIgnoringCommits == prune.live \/ prune.dirty

\* retentionVerdict
Keep == prune.live \/ prune.dirty \/ (prune.ahead > 0 /\ ~prune.pushed)

\* The verdict, and git worktree remove without --force.
RemoveTree ==
    /\ Seen("verdict")
    /\ IF Keep \/ tree = Absent \/ tree.dirty
       THEN UNCHANGED <<tree, destroyed>> /\ prune' = NoPrune
       ELSE /\ tree' = Absent
            /\ destroyed' = destroyed \cup {<<"under", s>> : s \in {s \in prune.inside : live[s] # Absent}}
                            \cup (IF tree.detached /\ prune.ahead > branch THEN {<<"counted", "commits">>} ELSE {})
            /\ prune' = [prune EXCEPT !.stage = IF prune.ahead = 0 THEN "branch" ELSE "idle"]
    /\ UNCHANGED <<scene, branch, pushed, starts, live, canary, asked, made, faults>>

RemoveBranch ==
    /\ Seen("branch") /\ BranchDeleted /\ prune' = NoPrune
    /\ UNCHANGED <<scene, pushed, tree, starts, live, canary, asked, made, destroyed, faults>>

(***************************************************************************)
(* The Scout canary                                                        *)
(***************************************************************************)
Scouting(s, stage) == scene.about = "scout" /\ scouts[s].stage = stage

\* captureWorkspaceState: a capture under way is shared.
Join == capture' = IF capture = Absent THEN [read |-> FALSE, value |-> 0] ELSE capture

StartScout(s) ==
    /\ Scouting(s, "new") /\ Join
    /\ scouts' = [scouts EXCEPT ![s].stage = "baseline"]
    /\ UNCHANGED <<scene, git, starts, live, prune, files, asked, made, destroyed, faults>>

ReadState ==
    /\ capture # Absent /\ ~capture.read
    /\ capture' = [read |-> TRUE, value |-> files]
    /\ UNCHANGED <<scene, git, starts, live, prune, files, scouts, asked, made, destroyed, faults>>

\* verifyScoutWorkspace
Verdict(baseline, after) == IF after = baseline THEN "ok" ELSE "changed"

\* The capture settles for everyone who waits for it, or fails for all.
Captured ==
    /\ capture # Absent /\ capture.read
    /\ capture' = Absent
    /\ \/ /\ faults' = faults
          /\ scouts' = [s \in Scouts |->
                 CASE scouts[s].stage = "baseline" -> [scouts[s] EXCEPT !.stage = "running", !.baseline = capture.value]
                   [] scouts[s].stage = "verify" -> [scouts[s] EXCEPT !.stage = "over",
                                                       !.verdict = Verdict(scouts[s].baseline, capture.value)]
                   [] OTHER -> scouts[s]]
       \/ /\ Fault
          /\ scouts' = [s \in Scouts |->
                 IF scouts[s].stage \in {"baseline", "verify"} THEN [scouts[s] EXCEPT !.stage = "over", !.verdict = "failed"]
                 ELSE scouts[s]]
    /\ UNCHANGED <<scene, git, starts, live, prune, files, asked, made, destroyed>>

\* The provider's sandbox failed to stop a write.
ScoutWrites(s) ==
    /\ Scouting(s, "running") /\ Fault
    /\ files' = files + 1 /\ scouts' = [scouts EXCEPT ![s].wrote = TRUE]
    /\ UNCHANGED <<scene, git, starts, live, prune, capture, asked, made, destroyed>>

ScoutEnds(s) ==
    /\ Scouting(s, "running") /\ Join
    /\ scouts' = [scouts EXCEPT ![s].stage = "verify", ![s].shared = capture # Absent]
    /\ UNCHANGED <<scene, git, starts, live, prune, files, asked, made, destroyed, faults>>

WorkspacesInit ==
    /\ scene \in Scenes
    /\ pushed = 0 /\ faults = 0 /\ files = 0 /\ capture = Absent /\ asked = Absent /\ made = 0 /\ destroyed = {}
    /\ IF scene.about = "prune"
       THEN branch = 0 /\ tree = [dirty |-> FALSE, provenance |-> TRUE, detached |-> FALSE, loose |-> 0, maker |-> "first"]
       ELSE branch \in (IF scene.about = "check" THEN {Absent, 0} ELSE {Absent}) /\ tree = Absent
    /\ starts = [s \in Starts |-> "asked"] /\ live = [s \in Starts |-> Absent]
    /\ prune = NoPrune
    /\ scouts = [s \in Scouts |-> NoScout]

WorkspacesNext ==
    \/ \E r \in Requests : Check(r)
    \/ \E s \in Starts : \/ Admit(s) \/ Provision(s) \/ WriteProvenance(s) \/ Journal(s)
                         \/ Launch(s) \/ DiscardTree(s) \/ DiscardBranch(s)
    \/ \E s \in Starts : \/ \E dir \in {"tree", "sub"} : Enter(s, dir)
                         \/ Exit(s) \/ Edit(s) \/ Commit(s) \/ Push(s) \/ Detach(s)
    \/ ListLive \/ ReadStatus \/ ReadCommits \/ RemoveTree \/ RemoveBranch
    \/ \E s \in Scouts : StartScout(s) \/ ScoutWrites(s) \/ ScoutEnds(s)
    \/ ReadState \/ Captured

WorkspacesSpec == WorkspacesInit /\ [][WorkspacesNext]_workspacesVars

----------------------------------------------------------------------------
\* Prune destroys no commit: those on the branch are still there or on a
\* remote, whatever was committed while it read the worktree, and those of a
\* detached HEAD that it counted (retentionVerdict, GitWorktreeInventory.remove).
PruneKeepsCommits ==
    Pruning => /\ IF branch = Absent THEN made <= pushed ELSE branch = made
               /\ <<"counted", "commits">> \notin destroyed

=============================================================================
