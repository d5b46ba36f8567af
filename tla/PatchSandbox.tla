---------------------------- MODULE PatchSandbox ----------------------------
(***************************************************************************)
(* verifier/sandbox.py: each proposal with a unified diff is tried on two  *)
(* temporary copies of the project, one for the baseline and one for the   *)
(* patch.  A copy is made file by file while its owner may go on editing.  *)
(* A tree is a function from paths to contents; only the files the copy    *)
(* takes are in it.                                                        *)
(***************************************************************************)
EXTENDS Naturals, Sequences, FiniteSets, Functions

CONSTANTS
  Workspaces,      \* [tree, submission]: a project and the proposals to try on it
  Passing,         \* the copied trees on which the tests pass
  BuiltPaths,      \* paths under a directory the copy skips (build, dist, ...)
  MaxCopyFiles,    \* the limit on copied files
  MaxEdits,        \* bound on the edits made meanwhile
  Contents         \* what a file can hold after an edit

NotFiles == {"symlink", "directory"}

VARIABLES
  tree,         \* the project: path -> contents, "symlink" or "directory"
  edits,        \* edits left
  submission,   \* the proposals
  trying,       \* the proposal under trial
  step,         \* where verify_fix stands
  baseline, patched,  \* the two copies
  toCopy,       \* paths the walk has still to visit
  before,       \* ghost: the patched copy before the patch
  marks         \* the annotation of each proposal dealt with

sandboxVars == <<tree, edits, submission, trying, step, baseline, patched, toCopy, before, marks>>

NoTree == [p \in {} |-> 0]
Mark(status, applied) == [status |-> status, applied |-> applied, baseline |-> baseline,
                          before |-> before, after |-> patched]
Current == submission[trying]

SandboxInit ==
  /\ tree = NoTree /\ submission = <<>>
  /\ edits = MaxEdits /\ trying = 1 /\ step = "submit"
  /\ baseline = NoTree /\ patched = NoTree /\ before = NoTree /\ toCopy = {}
  /\ marks = <<>>

(* verify_all_proposals, over the proposals the debate ended with.         *)
Submit ==
  /\ step = "submit" /\ step' = "guards"
  /\ \E w \in Workspaces : tree' = w.tree /\ submission' = w.submission
  /\ UNCHANGED <<edits, trying, baseline, patched, toCopy, before, marks>>

-----------------------------------------------------------------------------
RegularFiles == {p \in DOMAIN tree : tree[p] \notin NotFiles}

(* _resolve_project_file: a regular file inside the project, not a link.   *)
Resolves(proposal) == ~proposal.absolute /\ proposal.path \in RegularFiles

(* _validate_patch_paths: well-formed headers that name the target only.   *)
HeadersAreSafe(proposal) == proposal.patch.headers = {proposal.path}

(* The early returns of verify_fix, all of them "skipped".                 *)
Refused(proposal) ==
  \/ proposal.path = "" \/ ~Resolves(proposal)
  \/ proposal.patch.kind # "diff"      \* absent, blank or too large
  \/ ~HeadersAreSafe(proposal)
  \/ ~proposal.command                 \* none given and none detected

(* finally: both copies go, whatever happened, and the next one is taken.  *)
Settle(mark) ==
  /\ marks' = Append(marks, mark)
  /\ trying' = trying + 1 /\ step' = "guards"
  /\ baseline' = NoTree /\ patched' = NoTree /\ before' = NoTree /\ toCopy' = {}
  /\ UNCHANGED <<tree, edits, submission>>

Guards ==
  /\ step = "guards" /\ trying <= Len(submission)
  /\ IF Refused(Current)
       THEN Settle(Mark("skipped", FALSE))
       ELSE /\ step' = "copy baseline" /\ toCopy' = DOMAIN tree
            /\ UNCHANGED <<tree, edits, submission, trying, baseline, patched, before, marks>>

(* _copy_project visits the paths (sorted; here in any order): links and   *)
(* skipped directories are left out, one file too many is an error.        *)
Copied(path) == path \in RegularFiles \ BuiltPaths
WithCopy(copy, path) == [p \in DOMAIN copy \cup {path} |-> IF p = path THEN tree[path] ELSE copy[p]]

CopyFile(now, copy, copyAfter) ==
  /\ step = now /\ toCopy # {}
  /\ \E path \in toCopy :
       LET full == Cardinality(DOMAIN copy) >= MaxCopyFiles IN
       /\ toCopy' = toCopy \ {path}
       /\ copyAfter = IF Copied(path) /\ ~full THEN WithCopy(copy, path) ELSE copy
       /\ step' = IF Copied(path) /\ full THEN "over limit" ELSE step
  /\ UNCHANGED <<tree, edits, submission, trying, before, marks>>

CopyToBaseline == CopyFile("copy baseline", baseline, baseline') /\ UNCHANGED patched
CopyToPatched  == CopyFile("copy patched", patched, patched') /\ UNCHANGED baseline

CopyRaises == step = "over limit" /\ Settle(Mark("error", FALSE))

SecondCopy ==
  /\ step = "copy baseline" /\ toCopy = {}
  /\ step' = "copy patched" /\ toCopy' = DOMAIN tree
  /\ UNCHANGED <<tree, edits, submission, trying, baseline, patched, before, marks>>

TargetMissing ==
  /\ step = "copy patched" /\ toCopy = {}
  /\ Current.path \notin DOMAIN patched
  /\ Settle(Mark("skipped", FALSE))

BothCopied ==
  /\ step = "copy patched" /\ toCopy = {}
  /\ Current.path \in DOMAIN patched
  /\ step' = "baseline tests" /\ before' = patched
  /\ UNCHANGED <<tree, edits, submission, trying, baseline, patched, toCopy, marks>>

-----------------------------------------------------------------------------
(* run of a backend: the command's own verdict, or a timeout, or an error  *)
(* starting it.                                                            *)
Outcomes(succeeds) == {IF succeeds THEN "passed" ELSE "failed", "timeout", "error"}
TestOutcomes(copy) == Outcomes(copy \in Passing)

(* A mutant: the baseline's outcome is not looked at.                      *)
BaselineIgnored ==
  /\ step = "baseline tests" /\ step' = "apply"
  /\ UNCHANGED <<tree, edits, submission, trying, baseline, patched, toCopy, before, marks>>

BaselineTests ==
  /\ step = "baseline tests"
  /\ \E outcome \in TestOutcomes(baseline) :
       IF outcome # "passed"
         THEN Settle(Mark("baseline_failed", FALSE))
         ELSE /\ step' = "apply"
              /\ UNCHANGED <<tree, edits, submission, trying, baseline, patched, toCopy, before, marks>>

(* _apply_patch: git may be missing, "git apply --check" may refuse the    *)
(* patch, and either call may time out; all of it is status "failed".      *)
ApplyFails ==
  /\ step = "apply"
  /\ Settle(Mark("failed", FALSE))

ApplyPatch ==
  /\ step = "apply"
  /\ patched[Current.path] = Current.patch.expects
  /\ patched' = [patched EXCEPT ![Current.path] = Current.patch.gives]
  /\ step' = "patched tests"
  /\ UNCHANGED <<tree, edits, submission, trying, baseline, toCopy, before, marks>>

PatchedTests ==
  /\ step = "patched tests"
  /\ \E outcome \in TestOutcomes(patched) : Settle(Mark(outcome, TRUE))

EditProject ==
  /\ edits > 0 /\ trying <= Len(submission)
  /\ edits' = edits - 1
  /\ \E path \in DOMAIN tree :
       \/ /\ tree[path] \notin NotFiles
          /\ \E c \in Contents \ {tree[path]} : tree' = [tree EXCEPT ![path] = c]
       \/ tree' = [p \in DOMAIN tree \ {path} |-> tree[p]]
  /\ toCopy' = toCopy \cap DOMAIN tree'
  /\ UNCHANGED <<submission, trying, step, baseline, patched, before, marks>>

SandboxNext ==
  \/ Submit \/ Guards \/ CopyToBaseline \/ SecondCopy \/ CopyToPatched \/ CopyRaises
  \/ TargetMissing \/ BothCopied \/ BaselineTests \/ ApplyFails \/ ApplyPatch
  \/ PatchedTests \/ EditProject

SandboxSpec == SandboxInit /\ [][SandboxNext]_sandboxVars

SandboxEnd == step = "guards" /\ trying > Len(submission)

-----------------------------------------------------------------------------
(* A verdict about a patch is earned: "passed" only when the tests pass on *)
(* an unpatched copy and on the patched one, and the patch was made for    *)
(* what that copy held; and when both copies are of the same tree,         *)
(* "failed" after the patch was applied is the patch's own doing.  Between *)
(* two proposals no copy is left.                                          *)
PatchVerdictsAreEarned ==
  /\ \A i \in DOMAIN marks :
       LET mark == marks[i]
           proposal == submission[i] IN
       /\ mark.status \in {"passed", "timeout"} \/ mark.applied =>
            /\ mark.applied
            /\ mark.baseline \in Passing
            /\ mark.before[proposal.path] = proposal.patch.expects
            /\ \A p \in DOMAIN mark.before \ {proposal.path} : mark.after[p] = mark.before[p]
       /\ mark.status = "passed" => mark.after \in Passing
       /\ mark.status = "failed" /\ mark.applied /\ mark.baseline = mark.before =>
            mark.before \in Passing /\ mark.after \notin Passing
  /\ step = "guards" => baseline = NoTree /\ patched = NoTree
=============================================================================
