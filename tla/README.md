# SmartBench in TLA+

SmartBench audits source repositories. Deterministic analyzers state facts,
language models may only propose hypotheses, and deterministic gates decide what
reaches a report. This directory holds TLA+ models of the program, the TLC
configurations that check them, and proofs of the central results.

Paths below are relative to `src/smartbench/` unless they name another directory.
`PROJECT.json` lists the components, the runs, the source lines each definition
stands for, the hazards of the code with the properties that cover them, and the
theorems.

To check a module: `tlc -config Debate.cfg Debate`. To check the proofs: `tlapm` on
each of `DebateProofs.tla`, `AuditProofs.tla`, `ShardedReviewProofs.tla`,
`AuditTrialsProofs.tla`, `UserFilesProofs.tla`, `ProcessProofs.tla`, `AnalysisProofs.tla`
and `Lists.tla`.

## The system

An audit (`quick`, or the wizard; `cli/phases.py`) takes a checkout, scans it
(`detector/`), asks the diagnostic tools (`diagnostics/`), builds a code graph and a
vector index (`graph/`, `rag/`) and an `AnalysisSession`: frontends lower the source to
a semantic IR, and rules of the deterministic engine produce findings. In each
trial the ProjectReader asks a model for resource protocols, which a resolver, a
validator and the lifecycle analyzer accept or reject; findings and graph facts make
an evidence pack; a debate of three model roles reviews it, over the whole pack
or once per shard of a plan; a verifier checks the claims of each proposal and a
sandbox tries its patch. Findings are adjudicated, the audit is reported and
recorded, and a recorded one may stage a consent request to the maintainers.
The other commands (`unified`, `preflight`, `intent`, `feedback`, `consent`, `trajectory`)
work on the same stores.

| Component | State | What is hard | Model |
|---|---|---|---|
| Debate engine, `engine/debate.py` | proposals, judged suggestions, review status | any role may fail, answer rubbish, or invent citations | `Debate`, `ReviewContract` |
| LLM client, `llm/client.py` | deadline, provider, attempt, token budget | retries, back-off, fallback and budget growth under one deadline | `LLMClient` |
| Shard plan, `sharding/plan.py` | groups, shards | termination of the merge loop, bounds, identifiers | `ShardPlan` |
| Sharded review, `sharding/runner.py`, `merge.py`, `llm/trials.py` | outcomes, merged report, usage counters | arrival order, failed and skipped shards, unlocked counters | `ShardedReview` |
| Session and trials, `core/session.py`, `llm/trials.py`, `cli/phases.py` | findings, reader stage, evidence pack, trial records | repair loop, state shared by trials | `AuditTrials` |
| Audit pipeline, `cli/phases.py`, `cli/wizard.py`, `trajectory/build.py` | checkout, session, review, what is kept | each optional stage may fail after the review was paid for | `AuditPipeline` |
| Deterministic engine, `core/engine/engine.py`, `cli/unified.py` | frontend status, agenda of rules, errors, outputs | isolation of what fails, honest status | `Engine` |
| ProjectReader, `engine/project_reader.py`, `core/session.py` | inventory, candidates, decisions, repairs | a model's answer must bind to evidence, whatever it says | `ProjectReader`, `Protocols` |
| Frontends, `frontends/python.py`, `go.py` | operations and arcs | break, continue, return through loops, switch and try | `Lowering` |
| Semantic analyses, `analysis/*.py` | control-flow graph, dominators, call frames, links | a wrong graph query silently changes a verdict | `ControlFlow`, `FlowRules`, `CallFlow`, `Linker`, `RetryLoops` |
| Taint flow, `flow/` | values and traces per variable | reassignment, combination, callbacks | `TaintFlow` |
| Adjudication and intent, `analysis/adjudication.py`, `intent.py` | intent memory, facts of the scan | precedence, bounds of the scan | `IntentMemory`, `Adjudication` |
| Upstream and branch checkers, `frontends/*_checker.py`; `preflight` | rows, memory | long lookups against a memory others write | `Preflight` |
| Feedback, `feedback/` | append-only log, priors | check and append are two steps; torn lines | `UserStores`, `FeedbackPolicy` |
| Trajectories, `trajectory/` | documents, index log | death between document and index | `UserStores`, `AuditPipeline` |
| Consent queue, `consent/` | one JSON file and its temporary file | processes without a lock, death between steps | `ConsentQueue` |
| Verifier, `verifier/` | caches, results, score | files change while they are cached; thresholds | `Claims` |
| Patch sandbox, `verifier/sandbox.py`, `sandbox_backends.py` | two copies, two test runs | failures on either side, edits between the copies | `PatchSandbox` |
| Retrieval, `rag/` | vectors, metadata, vocabulary, state file | stale or half-written index, substituted models | `VectorIndex`, `Retrieval` |
| Code graph, `graph/` | nodes, edges | sampling, resolution of calls, budgets | `Retrieval`, `GraphSearch` |
| Project detection, `detector/` | fingerprint | caps, thresholds, precedence of passes | `ProjectScanner` |
| Diagnostic tools, `diagnostics/` | results per tool | selection, failure isolation | `Diagnostics` |
| Bounded subprocesses, `subprocess_utils.py` | pipes, reader threads, process group | deadlock on pipes, timeouts, descendants | `RunBounded` |
| Semantic IR, `ir/` | data; assessment of capabilities | degradation per language | in `Engine` |
| Prompts, reporting, display, wizard texts | text | nothing is decided there | not modelled |
| Experiments and benchmarks | offline evaluation | used by no command | not modelled |

## The modules

**`Debate`** is `DebateEngine.debate`. `stage` is the step about to be made, `attempt`
the failed calls of the current role; one action stands for a failed or a
successful call, each verifier pass, and the end. A suggestion is what it cites
and whether the verifier annotated it; a model's answer is any set of
suggestions. **`ReviewContract`** is the abstract promise: one publication, of
acceptable suggestions only, after a complete review. `ImplementsContract` is the
refinement.

**`LLMClient`** is `call_llm` from the configuration to the text: providers sorted by
role preference, bounded attempts, waits, one deadline, the doubled token budget
after an empty completion. Time is counted in ticks and passes only in requests
and waits. **`ShardedReview`** takes a plan of `NumShards` and runs the dispatch
loop, the worker threads and the collection as separate actions, then merges;
the accumulator's `+=` is two steps, as CPython may switch threads at the calls in
between. **`ShardPlan`** is `build_shard_plan`: grouping, one iteration of the merge loop
per step, chunking. **`AuditTrials`** is the loop of trials over one session; what
the gates say of a candidate is a fixed property of the repository there, and
**`ProjectReader`** has the gates themselves: the inventory cut to its bounds, the
parsing of an answer, `_resolve_candidate`, `_validate_candidate`, the repair loop.
**`Protocols`** is what both it and the lifecycle analyzer share: the mining of
protocols, the matching of acquisitions, and which uses no cleanup dominates
(by `ControlFlow`'s queries).

**`Engine`** is `diagnose_project` and `diagnose_file` with the command that reports the
result: parse each language, link, each rule with its assessment against what
the frontend supports, state-rule files, filter, evidence packs, statistics,
adjudication, trajectory, outputs, exit code. A rule returns any set of the units
of its languages; frontends, files, linker, rules, evidence and outputs may fail.

**`ControlFlow`** has the queries of `analysis/control_flow.py` and `_dominators()` as a
state machine, one action per visited operation. **`Lowering`** builds the graph: the
recursive descent of the frontends is a stack of open constructs, and a body is met
token by token, so TLC enumerates programs. **`FlowRules`** adds the guard rule, the
lifecycle verdict, and an execution of the tokens by the meaning of the language,
which does not look at the graph: what the analyses say is compared with what
happens. **`CallFlow`** is the ICFG and its bounded search with frames, compared with a
closure over runs that has no frames. **`Linker`** is the linker's rounds, one call per
step. **`RetryLoops`** is the search for a retry without a pause, one state of its stack
per step, compared with all roads from the failure to the loop head.
**`TaintFlow`** evaluates the statements of a function over `TaintTracker`'s values,
compared with what each argument is computed from.

**`IntentMemory`** holds the file of the user's declared intents, how an entry matches,
and what a torn file means. **`Adjudication`** is the bounded scan for documented
intents and the label of each finding. **`Preflight`** is the command: branch checks,
upstream searches with their answers and limits, the record of discussed findings,
verdicts, and the order feedback gives them (**`FeedbackPolicy`**), while `intent add`
writes the same file. **`UserStores`** is the feedback log, and the trajectory documents
with their index, as processes over files: a handle keeps writing to its inode after
a rename, an append may be cut. **`ConsentQueue`** is built the same way over the queue
and its shared temporary file, with mails that may be delivered although sending
raised.

**`Claims`** checks claims against a disk that may change between two checks, with the
verifier's caches, the code graph and type evidence, then weighs them.
**`PatchSandbox`** copies the project file by file while its owner edits it.
**`VectorIndex`** is the index of `rag/`, a step per file written, with sessions that overlap
or die and machines that lost a model. **`Retrieval`** and **`GraphSearch`** answer questions:
the sample of files, call resolution, expansion, shares of seeds and of the
context, chunks, search, ranking and formatting, each against a reference.
**`ProjectScanner`** and **`Diagnostics`** go from the walk over a checkout to the report of
its tools. **`AuditPipeline`** runs the stages round a review, from the command line to
the recorded trajectory; the modules above model what happens inside a stage.

Where code branches on data the models make a nondeterministic choice; text,
logging, and counters that only feed statistics are left out. History variables
are marked in their declarations.

Where the program relies on something coarser than one would think, so do the models: the
branch results of `Preflight` are kept by file and line; a recorded path of
`IntentMemory` is a pattern, and the constant `Wildcards` gives the names it matches; names of the
graph are found by a part of them (`NamedIn` of `GraphSearch`); shard ids are texts that
are assembled, and the directories named like another's chunk are among the inputs of `ShardPlan`;
chunks are the lines they show to their end, after the cut at their length; the errors of
frontends are read off the merged IR; and files are decoded before they are
read, so `UserStores`, `Preflight` and `AuditPipeline` tell a text that does not parse from
one that does not decode.

## The runs

Components that do not share state are checked in one run: the variable `kind` of
`MCReviews`, `MCUserCommands`, `MCAnalyses` and `MCEvidence` says which one a behaviour is
about, and the others keep their initial values. Properties of one component are
conjoined where they concern one promise (`QueueIsSound` is "what was staged is
kept", "a second mail needs a death" and "what is recorded as sent was sent", with
the type invariant); each part is defined and explained in its module.

| Run | Bounds | What it shows |
|---|---|---|
| `debate` | one fact, one other identifier, two attempts per role | Whatever the roles answer: `EvidenceGate` (no ungrounded suggestion reaches the Critique, the Judge or the report), `FindingsAreReviewed`, `DebateReturns`, `ImplementsContract`. One fact and one invention make the four kinds of citation set the gate tells apart; with two attempts both "try again" and "give up" happen. |
| `reviews` | calls: up to 3 entries of which 2 are looked at, 0 or 2 retries, a deadline of 3 ticks, latencies 0 and 1, budget 2 doubling to a cap of 3. Reviews: 3 shards, 1 or 2 workers, one key with two strengths. Trials: 2 candidates, one finding of each kind of rule, 1 repair, 1 or 3 trials | `RequestsFollowTheRules`, `OutcomeIsJustified`, `CallReturns`; `NothingIsHidden`, `ReportIsDeterministic`, `ReviewReturns`; `TrialsAreSound`, `FindingsAreKept`, `AuditReturns`. The deadline falls in every place: before the first retry, in a wait, in a request; there are more shards than workers, duplicates and failures. |
| `run_bounded` | limit 2, blocks of 2, pipes of 1, at most 4 and 2 bytes | `RunIsClean`, `RunReturns`. Output below, at and above the limit, blocks across the boundary, a full pipe. |
| `flow` | every Python or Go function of up to 5 operations, its own included, that has an event and an action, among them calls inside other statements, exceptions in a try and jumps through a finally clause | `GraphIsSound`, `UnreportedIsSafe`, `DominatorsAreExact`, `DominatorsEnd`. Five operations hold a guarded action inside a loop, a switch or a try, a jump, or an acquisition with its cleanup, and each of the shapes the graph is known to miss. |
| `user_commands` | 2 commands, 2 records, 3 lines, 2 faults; 2 preflights over up to 3 findings, two of them on one line and one in a file whose name is a pattern, 1 kill (of commands that do not overlap); 2 repositories, 2 trajectories, limits 1 and 5, 2 kills or failed writes, 3 mails | `StoredOnce`, `IndexMatchesDocuments`; `VerdictsAreOwn`, `FeedbackOnlyOrders`, `MemoryIsKept`; `QueueIsSound`, `RequestedIsFinal`. Commands and records are interchangeable, and no liveness is checked there, so symmetry is sound. Two records are enough for one line to swallow another; overlapping consent commands stage one repository only (`OverlapStages`), and overlapping writers of the memory are not killed, which the theorems do not exclude. |
| `analyses` | see the sections of `MCAnalyses` | `ReportIsHonest`, `ReaderIsGrounded`, `PathsAreMatched`, `LinkIsComplete`, `RetriesAreFound`, `FlowVerdictsAreExact`, `PlanIsSound`, `DecisionsAreEarned`. Each part enumerates its inputs: eight command lines over no to two languages and state-rule files; 54 acquisitions under every pair of proposals and 512 inventories; 16 call graphs with every pair of operations; every order of four of seven calls; error paths of up to three operations; functions of four statements; 5 files in 3 directories with chunk sizes and caps 1 to 3; three files under bounds of two files and three facts. |
| `evidence` | see the sections of `MCEvidence` | `PatchVerdictsAreEarned`, `VerdictsAreEarned`, `RetrievalIsExact`, `ServedIndexIsSound`, `DiagnosisIsFaithful`, `AuditIsAccounted`. One edit during the copies and two copied files at most; claims of every kind by threes, one edit of the disk, a cache of one file; questions at and round each budget; two index sessions, two edits, four kinds of machine; mixtures round the thresholds of 15 % and 60 %, and files beyond the last directory or the last file of the walk; files cut at every line of a chunk; one ordinary audit and those that differ from it in a respect. |

For every property a mutation of the modelled code is listed that breaks it.

Runs that show a disagreement between the code and what it says:

| Run | Property | What TLC finds |
|---|---|---|
| `shard_plan_hang` | `PlanIsBuilt` | `sharding/plan.py:88`: when `misc` is the smallest group and the plan is still too long, the loop pops and recreates it for ever. |
| `sharded_usage` | `NoUsageIsLost` | `llm/trials.py:33`: two threads read the token count, both write; one record is lost. |
| `consent_concurrent` | `StagedIsListed` | `consent/queue.py:108`: of two commands that overlap, one writes back a queue without what the other staged, or moves a half-written temporary file. |
| `run_bounded_timeout` | `TimeoutIsRaised` | `subprocess_utils.py:129`: `close()` waits for a reader inside `read()`, which waits for a descendant outside the process group; a timed-out run does not return. |
| `audit_recording` | `RecordingNeverFailsTheAudit` | `cli/phases.py:1107`: the trajectory is built outside the guard round the store; a suggestion whose `evidence` is no list ends the audit in an exception after the review, and `--output` is not written. |

### Fairness

- `Debate`: `WF(Next)`. One thread runs straight to its return; model calls end, by the
  deadline of the client.
- `MCReviews`: weak fairness of the steps of a call, of the trials, of the caller of a
  sharded review and of each worker: each call and trial runs in one thread, and
  the operating system schedules all threads. Nothing forces a deadline to pass.
- `RunBounded`: weak fairness of the caller, the readers, and the child's writing and
  exit (unless it hangs, which is a choice of its own). Descendants are under no
  obligation: they may run for ever, and `RunReturns` says who must be gone for the
  run to return.
- `FlowRules`: weak fairness of the dominator passes only, which run in the calling thread.
- `ShardPlan` has fairness only for `shard_plan_hang`, so that the counterexample is
  a cycle of loop iterations, not a program that stopped.
- The other systems have none: nobody must run another command, and the analyses
  are checked for what they answer.

Deadlock is checked in `analyses` and `evidence`, where every behaviour ends in its
part's end; the other systems may stop anywhere.

## What is proved

Every theorem is about all values of the constants, within the named assumptions
of the module that declares them. They all follow one argument: an inductive
invariant holds at the start, every action keeps it (one lemma per action), and
it implies the property. Each of these invariants was first checked by TLC on the
instance of the run that checks the property.

| Theorem | States | Inductive invariant |
|---|---|---|
| `DebateProofs`: `TypeCorrect`, `EvidenceIsEnforced`, `ReviewIsEnforced`, `DebateImplementsContract` | `TypeOK`, `EvidenceGate`, `FindingsAreReviewed`, the refinement of `ReviewContract` | `IInv` |
| `DebateProofs`: `VerdictsAreAlwaysEarned` | `VerdictsAreEarned` | `KInv` |
| `AuditProofs`: `RequestsAlwaysFollowTheRules`, `OutcomeIsAlwaysJustified` | `RequestsFollowTheRules`, `OutcomeIsJustified` | `IInv` of that module |
| `ShardedReviewProofs`: `NothingIsEverHidden`, `ReportIsAlwaysDeterministic` | `NothingIsHidden`, `ReportIsDeterministic` | `RInv` |
| `ShardedReviewProofs`: `PlanIsAlwaysSound` | `PlanIsSound` | `PInv` |
| `AuditTrialsProofs`: `TrialsAreAlwaysSound`, `FindingsAreAlwaysKept` | `TrialsAreSound`, the action property `FindingsAreKept` | `TInv` |
| `AuditTrialsProofs`: `PatchVerdictsAreAlwaysEarned` | `PatchVerdictsAreEarned` | `XInv` |
| `AuditTrialsProofs`: `ReportIsAlwaysHonest` | `ReportIsHonest` | `EInv` |
| `UserFilesProofs`: `QueueIsAlwaysSound`, `RequestedIsAlwaysFinal` | `QueueIsSound`, the action property `RequestedIsFinal` | `CInv` |
| `UserFilesProofs`: `RecordsAreAlwaysStoredOnce`, `IndexAlwaysMatchesDocuments` | `StoredOnce`, `IndexMatchesDocuments` | `SInv` |
| `UserFilesProofs`: `VerdictsAreAlwaysOwn`, `MemoryIsAlwaysKept`, `FeedbackAlwaysOnlyOrders` | `VerdictsAreOwn`, `MemoryIsKept`, `FeedbackOnlyOrders` | `MInv` |
| `AuditProofs`: `AuditIsAlwaysAccounted` | `AuditIsAccounted` | `AInv` |
| `AuditProofs`: `DiagnosisIsAlwaysFaithful` | `DiagnosisIsFaithful` | `DiagnosisInv` |
| `AuditProofs`: `RetrievalIsAlwaysExact` | `RetrievalIsExact` | `ReplyIsAnswer` |
| `ProcessProofs`: `RunIsAlwaysClean` | `RunIsClean` | `BInv` |
| `ProcessProofs`: `ServedIndexIsAlwaysSound` | `ServedIndexIsSound` | `VInv` |
| `AnalysisProofs`: `DominatorsCorrect` | `DominatorsAreExact` | `DInv` |
| `AnalysisProofs`: `LinkIsAlwaysComplete` | `LinkIsComplete` | `LInv` |
| `AnalysisProofs`: `DecisionsAreAlwaysEarned` | `DecisionsAreEarned` | `JInv` |
| `AnalysisProofs`: `ReaderIsAlwaysGrounded` | `ReaderIsGrounded` | `RInv` |
| `AnalysisProofs`: `PathsAreAlwaysMatched` | `PathsAreMatched` | `PInv` |
| `AnalysisProofs`: `RetriesAreAlwaysFound` | `RetriesAreFound` | `SInv` |

Why the properties are not inductive by themselves, and what is added:

- **Debate** (`DebateAssumption`: facts and inventions are disjoint, at least one
  attempt). The proposals were gated when they arrived, since the Critique sees
  those of an earlier step; a pack exists whenever the policy wants one; the
  Proposer answered in every later stage; results are empty until the last step,
  so that one step publishes; what the verifier left without annotation has a
  logged failure. The refinement maps a debate that has not ended to "reviewing"
  and uses `IInv` at the step that writes the result.
- **LLM client** (`LLMClientAssumption`). A request obeys the rules because of the one
  before it, which the state only implies: the deadline had not passed when it was
  sent (`SentInTime`); it is in flight, may be retried as it is, or its provider was
  left (`LastIsRemembered`); the attempts to the current provider are the last
  requests and are as many as `attempt` says (`AttemptCounts`); requests went to the
  providers in order, to none beyond the current one (`ProvidersInOrder`).
- **Sharded review** (`ShardedReviewAssumption`). What was dispatched is below `next`, and
  what was collected has one outcome (`ShardsAreTracked`); the report is the merge of
  them; the counter and what each thread has read of it never exceed what was
  reported (`CountersAreBehind`); with one worker at most one addition is under way
  (`OneAtATime`), which is why usage is lost only by threads that overlap. That the
  report does not depend on arrival follows because it is computed from the
  outcomes in the order of the shards, which is unique.
- **Shard plan** (`ShardPlanAssumption`). Through every merge the groups partition the
  files (`GroupsPartitionFiles`), a group other than `misc` is one directory
  and once two were merged the directories alone had made too many shards
  (`GroupsAreDirectories`); there are no shards during the merges, and then they are
  the chunks of the groups (`ShardsAreChunks`). The theorem says nothing of termination: the loop
  does not always end (`shard_plan_hang`).
- **Trials** (`TrialsAssumption`). One record for each finished trial, and a stage that
  holds findings of supported candidates only; which trials call a finding
  stable is then a question about lists of records.
- **Patch sandbox** (no assumption). A mark is earned when it is given
  (`MarksAreEarned`), because at each step of the trial the baseline and the patched
  tree are those of the proposal being tried (`TrialIsEarned`).
- **Engine** (`EngineAssumption`: requests, rules and files have the fields the code
  reads, and the files of a project are finite). A rule still to run has an id that no
  returned finding has, because ids are taken once, language by language and file by
  file (`AgendaIsSound`): this is why nothing is reported twice. That the errors told are those of the
  first parsed language holds by what the merge keeps, and is part of the property because the
  docstring says otherwise. What is reported is at
  each phase what rules returned, the sure part of it, or that and the reader's
  findings (`ReportedIsReturned`); the statistics lag behind it in known phases only
  (`CountsAgree`); saved files hold it (`OutputsAgree`). As long as there is no error, every
  rule that is due has run or is still on the agenda (`NothingUnsaid`).
- **Consent queue** (`ConsentAssumption`). What each command has in hand at each step
  (`InOrder`); every document, in memory or on disk, whole or about to be, claims
  only mails that were sent (`Honest`), which needs no condition on overlaps; a
  command alone owns the temporary file, and the document it will write keeps every entry of
  the queue (`Alone`); a mail is recorded, about to be, or its command has died
  (`MailsAreCounted`); and what was staged is listed. The last three hold until commands overlap.
- **Stores** (`StoreAssumption`). What a process is about to do fits what it has read and
  what is on disk (`StepsFitTheStore`); a reported record ends a line, and what stands before it in that line was cut
  (`LinesAreAccounted`); the copies of an event are counted with the commands about to
  write one more (`CopiesAreBounded`), whether or not the file decodes; documents come before their index lines
  (`DocumentsComeFirst`); a process without company writes to files of its own
  (`UnsharedIsPrivate`); and a document without a line has its writer still running, or there was a
  fault (`DocumentsAreKept`).
- **Preflight** (`PreflightAssumption`: findings have what the report's schema gives them;
  `MemoryAssumption`: patterns match names). The answers of the upstream searches are indexed
  by the finding that was asked about (`AnswersAreOwn`): the lookups follow the order of the
  findings, and a limit cuts the rest off without shifting them. What the branches told is
  indexed by file and line, and there it is the lookup of the last of the findings so far
  (`FixesAreKnown`). As long as commands do not overlap and none is killed, the memory has only
  entries that some command reported saved (`MemoryIsKnown`); commands that do not overlap
  write one at a time, and then what is about to be written, or what is there, has
  everything that was reported saved (`OneWriter`), until one is killed.
- **Claims** (`ClaimsAssumption`: a project's files have lengths, claims have the fields the
  extractor reads, similarity lies between 0 and 1, as `rag/retriever.py:472-478`
  clamps it). The verifier has a result for every claim before the one it is at
  (`AtItsClaim`), the lengths in its cache are of contents the disk has held
  (`SeenIsPast`), and each result was earned by such contents
  (`ResultsAreEarned`): earned results stay earned, since the disk's past only grows
  and its files only become fewer. The verdict then follows from a bound on
  the sum of weights in the number of verified results (`TotalIsBounded`).
- **Adjudication** (`AdjudicationAssumption`). While the scan runs, the intents are what
  the files before its place state, cut at the limit (`ScanIsFaithful`), and it stops
  early only at a bound; what was decided is the label of a finding under
  everything the scan had found (`DecidedByRule`). That the strongest intent of a
  file is heard is then about lists: the texts of the files joined in order.
- **ProjectReader** (`ReaderAssumption`: operations, types and candidates have the fields
  the code reads, and a project knows finitely many types; nothing is assumed of
  what the model proposes). That the inventory is whole is about a loop and an order: the
  order of groups has every group, those with a cleanup first, since what it
  bisects and spreads is listed once and completely (`MidpointOrderIsWhole`, `SpreadIsWhole`);
  the loop takes whole groups within both limits, and a group that did not fit
  then does not fit what was taken later (`TakenIsWhole`, `FewerFactsFit`). The judges
  agree for every candidate and everything learnt, by the modes and outcomes of the resolver
  (`ResolvedIsValid`, `LearntIsSupported`). What was ever supported is what the last
  answer got supported, because the model is asked again only while nothing is
  (`SupportIsRecorded`), and the requests are bounded by the repairs (`CallsAreCounted`).
- **Audit pipeline** (`PipelineAssumption`). What the debate answered is what every later
  stage holds, at most in another order (`AnswerIsKept`); the checkout is gone
  once the audit has ended; an end without an answer has its reason (`EndIsExplained`), which
  after the review is an odd suggestion or a feedback file that does not decode;
  what is recorded is the audit's own document (`DocumentIsKept`).
- **Bounded subprocesses** (`RunAssumption`). What a reader holds is the head and tail of
  the bytes it took, whatever the sizes of blocks (`KeptIsHeadAndTail`, whose
  arithmetic is most of the proof); a stream that ended
  was emptied and has no writer (`EndsAreFinal`); a killed group has no
  survivors (`GroupIsKilled`).
- **Vector index** (no assumption). The state file comes last (`StateComesLast`): if it
  is there, such vectors and metadata as are on disk are whole and of the build it
  describes. A session that builds has removed and written exactly the files its
  step implies (`BuildsSoundly`), one that reads has read what is there
  (`ReadsSoundly`), one that serves holds what it checked (`ServesSoundly`). All of
  it holds until two builds overlap, as the property says.
- **Dominators** (`ControlFlowAssumption`: operations are numbers), for graphs with
  unreachable parts too, and without any operation that lacks predecessors. Paths
  are spoken of by cuts: `d` is on every path to `n` when a set without `d` and `n`
  holds every other entry and is closed under arcs that avoid `d`, which avoids
  induction over paths in both directions. Whatever a cut shows to be necessary is
  still in the sets (`KeepsTheNecessary`: a visit intersects the sets of
  predecessors outside the cut); what the current pass visited without a change
  satisfies its equation (`Settled`). At the end the operations whose set lacks `d`
  are such a cut.
- **Linker** (`LinkAssumption`: functions and calls have names, and a call stands in a
  function). Each call is linked, in this round's list, or put off to the next, once
  (`CallsAreTracked`); a call that was put off means no single function as long
  as the round has taught no type (`PutOffForReason`); every way to resolve a call keeps its last name
  (`LinkedByName`).
- **Path search** (`CallFlowAssumption`: arcs lead from operations to operations and calls to
  functions, which is all the constructor keeps). A path that is found is a
  run: the operation and the open calls of every state that waits or was seen are somewhere
  on a run, each frame standing for a call that the function below it reaches
  (`SearchIsRealised`); what a function does between a call and its return is a run of
  the callee with less depth left. That none is missed needs the other direction: what may follow a state
  that was seen was seen or waits (`SearchIsComplete`), so an empty queue leaves a set
  closed under the arcs, and by induction over the depth that is left it has
  everything a function reaches by itself or by calls that return (`SeenWithin`), then call by call
  every run's end (`SeenHasTheRuns`). The property computes reachability in as many rounds as
  there are operations; that this is enough is a counting argument (`ClosureIsClosed`).
- **Retries** (`RetryAssumption`: a function has finitely many arcs among its operations, and
  its loop is one of them). The search may go round in circles, the roads of the property
  have no operation twice. Where a state waits that nothing on the way speaks against, a road
  of quiet operations leads (`StackIsApproached`): one more arc lengthens it, or leads to one of its
  operations, and then its beginning is the road (`RoadsGoOn`); no road is longer than the
  function has operations. Conversely nothing quiet that follows what was seen is
  neither seen nor waiting, as long as the trial reports nothing (`TrialIsComplete`), so an empty stack
  means that no quiet road comes back (`NothingIsMissed`). Every trial is to come, under way,
  reported, or without such a road (`TrialsAreTracked`).
- **Scan and diagnostic tools** (`ScannerAssumption`: the limits are naturals, no file's
  language is called mixed or unknown, a checkout has a root directory, and
  manifests are finitely many, of the kinds the scanner reads, with finitely many words). What a pass
  found stays as it was found until the scan ends (`ScanInv`), and the results so far, in order, followed by
  the tools still to run are the tools chosen for the request (`ToolInv`); the report shows each result.
  The rest is about what the passes compute. To outnumber is a strict order of the languages,
  ties going to the one met first, so the first of the sorted list has the most files, and
  the languages named are that one and the significant ones (`NamedLanguages`), whether
  or not the project is called mixed; with a language at 60 % no other can be. `Concrete` loses
  none of them, so a tool that speaks one of the project's languages is chosen, once. The estimate of lines
  is a mean of samples times the number of files: the mean is at most the longest file and,
  when all are equally long, exactly that.
- **Retrieval** (`RetrievalAssumption`: limits are naturals, files and nodes are listed once, lines
  are counted from 1, a block is longer than its overlap, likeness is counted in tenths). The
  invariant only says that the reply is the answer to the question (`ReplyIsAnswer`); the proof is that
  each answer, a loop over rounds, files, blocks or sections, is what its reference says. *Sample:*
  rounding moves a position by at most half a place, so what is picked of a class of files is in order,
  from end to end, with gaps below the mean (`RoundedIsNear`, `SpreadIsEven`), and the classes fill the number
  allowed one after the other (`SharesFill`, `SampleIsFull`). *Calls:* a function is searched exactly on
  the lines where no later one has begun (`ScopeIsOpen`). *Expansion:* after each round the visited nodes
  are those within so many hops (`HopsAddSteps`, `RoundsAreRight`). *Search, ranking, selection, seeds:* tuples
  of numbers that differ are in a strict order, so a ranking is a sorted list and its beginning leaves
  nothing better out (`RanksAreOrdered`, `BestComeFirst`); more likeness cannot give fewer points
  (`LikenessIsNested`); a quota for each file named leaves room for all of them (`ReservedFit`).
  *Context:* headers that are shown to their end lie one after the other in what is shown, so they
  take no more than its length (`SectionsAreInTurn`, `HeadersFit`), and the two cuts together keep the budget.
  *Chunks:* a line is shown by every chunk that begins at most so many characters before its
  end (`TooFar` names the others), and blank pieces have no lines to show.
  *Format:* in each file the blocks shown are a beginning that fits, and the next block does not
  (`SectionIsABeginning`).

Loops over lists are recursive functions (`f[n \in Nat]`). `LoopIsDefined` in **`Lists`** shows
that such a function has the values its steps give it, by looking at the least
number at which it would not; after that a claim about a loop is a claim about the
least index that breaks it (`LeastNatural`), and `UpToNumber` is induction over the numbers up to a
bound, told of a set. `AtPositionsIsSubsequence` is about the
lists the models filter, which are given by the positions they keep.
`SetToSeqListsTheSet`, `SortedListsTheSet` and the facts about appending, joining and
reordering serve several modules.

Where a proof showed that a model or a property could say more, it does now:
`DuplicatesNeedAnOverlap` bounds the copies of a record by the number of processes,
and `LossesNeedACut` the lost records by the cuts (`UserStores`); `ServedIndexIsSound`
demands equal vectors and metadata without exception; the number of chunks of a group in
`ShardPlan` is the cardinality of what was cut; the inventory of `ProjectReader` is the
set of operations shown, and its orders are sorted lists of `Lists`, the place of an
item in a bisection being the number of halvings before it is the middle; `CallFlow`
takes arcs in the order of target, kind and call, as the code sorts them, where it had
taken those to one target in any order; and `Engine` takes the rules language by
language, as the code does, since that each id is taken once had to be shown for the
order in which they come. `ProjectScanner`, `Diagnostics`, `Retrieval` and `GraphSearch` have their lists
by the positions they keep, too. In `Retrieval` the proof found two cases of `Truncate` that held at
once (a text that fits a budget below the marker), which a CASE leaves open though the code takes the
first; and in `GraphSearch` that a file with another stem may be the better match, so `AsLike` now asks
whether the stem is a word of the question, which is what the score adds points for.

### Only model-checked

- All liveness properties (`DebateReturns`, `CallReturns`, `ReviewReturns`, `RunReturns`,
  `AuditReturns`, `DominatorsEnd`): the prover does no fairness argument.
- `FlowVerdictsAreExact`: `TaintFlow` evaluates nested expressions with RECURSIVE
  operators, of which the prover cannot reason.
- `GraphIsSound` and `UnreportedIsSafe`: they compare the graph of a function with its
  execution token by token, and the invariant would have to describe every
  half-built graph on the stack of open constructs.

## Other disagreements met on the way

No run stands for these; they were read in the code. The models do what the code
does, and the properties say what holds all the same.

Calls and reviews:

- `llm/client.py:176`: the tokens of an empty completion are never recorded,
  though `docs/ARCHITECTURE.md:347-349` has each trial record its usage.
- `llm/client.py:364`: a `Retry-After` of `nan` passes `min` and `max` and makes
  `time.sleep` raise.
- `sharding/plan.py:101`: the id of a shard is `group` or `group:n`; a directory `src:1` beside a large
  `src` gives two shards one id, under which outcomes are merged and reported. `IdsDiffer` says that this is
  the only way. As ids are texts, `src:10` comes before `src:2` in the merge (`merge.py:61`);
  `ShardedReview` takes the order of the plan, and what it shows only needs an order that does not depend on arrival.
- `sharding/plan.py:88`: 900 files in one directory make 23 shards, whatever
  `max_shards` says (`sharding/README.md:12-14`).
- `sharding/runner.py:42` against 25-27: the deadline is looked at when a shard
  is submitted, and submitting does not block; queued shards start after it.
- `sharding/merge.py:103`: a shard whose debate failed counts as completed
  (`sharding/README.md:19-20`, `docs/USAGE_GUIDE.md:73-74`); `cli/display.py:298`
  compares with "complete", the merge writes "completed".
- `sharding/merge.py:142`: findings without rule and location share one key.
- `core/session.py:331`: a trial's ProjectReader findings stay in the session and
  are evidence for later trials, though `llm/trials.py:3` and
  `docs/ARCHITECTURE.md:347-348` speak of one deterministic analysis. A trial that
  raises loses the records of the earlier ones.
- A suggestion with `"line_start": 1e999` raises `OverflowError` in
  `suggestion_signature` (`llm/trials.py`) and in the sharded merge (`merge.py:180`),
  and skips adjudication for all. Evidence given as a text is recorded character
  by character. A review whose suggestions were all rejected is recorded with the
  deterministic findings in their place.
- The replay of an unchanged checkout reports `only_recorded` when the recorded
  audit held ProjectReader findings, and it uses the default configuration.

Engine and ProjectReader:

- `core/engine/engine.py:200-202`: frontend errors are collected after the graphs were merged,
  and a merge keeps the meta of the first (`graph/schema.py:251`): files of a second language that
  do not parse are never told, though the docstring (553-560) calls a "repository where N files failed
  to parse indistinguishable from a clean repository" what the collection prevents.
  `OnlyTheFirstIsTold` says exactly what is told, and `CleanMeansComplete` what a run without
  errors means after that.
- `core/engine/engine.py`: a rule that raises leaves the status "full" (445-466);
  a language without adapter and files beyond `max_files` are skipped silently,
  and a project none of whose languages has a frontend reports no error;
  `diagnose_file` never collects frontend errors; `stats["errors"]` is computed
  before adjudication can fail; `build_trajectory` is outside the guard.
- `ir/schema.py:199`: `languages or self.languages`: a rule whose own languages all
  failed to parse is assessed against the other languages.
- `cli/unified.py` prints "No issues found!" although errors were collected.
- ProjectReader: a `TypeError` inside the model call causes a second request; an
  unexpected exception leaves the stage "not_run"; an answer without
  `architecture_summary` is rejected whole.

Analyses:

- `frontends/python.py:672-675`, `frontends/go.py:617-627`: a call inside another
  statement gets an arc to its host "so CFG reachability can prove paths through
  expression-level calls as well", but no arc leads to it, so nothing reaches it:
  `x = action()` or `return action()` after the event is never reported, and the
  call is one more entry for the dominators. The `flow` run lowers and executes such
  statements; `UnreportedIsSafe` names them as actions that escape the rules.
- `analysis/control_flow.py:175`: an outcome that leads out of the function or
  back to the loop has no branch arc, so `event(); if ok: action()` at the end of
  a body is reported as unguarded.
- `analysis/control_flow.py:232`: in a function whose body starts with a loop only
  the function and its parameters lack predecessors, nothing connects them to the
  body, and `dominates()` is true of nearly everything. `DominatorsAreExact`
  holds all the same: it speaks of the entries the code chooses.
- `frontends/python.py:441`: an exception reaches its handler in the graph only from
  the try itself, so an action in a handler after `event(); check()` in the body is not
  seen behind the event. At `frontends/python.py:478-500` the end of a finally
  clause leads on to the next statement, also when a return, break or continue waits for
  it, and a break or continue in the clause itself leads nowhere. The reference
  execution of `FlowRules` takes all these steps and marks them (`Stray`); `GraphIsSound`
  exempts the step itself and `UnreportedIsSafe` what follows it until the
  next event. Without the marks TLC finds counterexamples of five operations.
- `analysis/resource_lifecycle.py:114`: cleanups on several branches that protect
  a use together are not accepted, since no single one dominates; a finding is
  then no "path witness".
- Linker: a call linked by a receiver type stays linked when a second type
  appears; `A.run(obj, x)` binds `obj` to the first parameter. ICFG: a callee
  without an explicit return never returns.
- `analysis/retry_loops.py:363`: the first operation of an error path is not looked
  at as a mitigation (docstring, lines 10-13); operations after an inner loop are
  not part of the outer one.
- Taint: an assignment to several targets leaves their old values, an augmented
  one replaces the value; a sink inside the assignment that rebinds its argument
  is judged after it; branches are read in source order.

Adjudication, feedback and stores:

- `analysis/intent.py:173` tests the names of directories to skip against the
  absolute path, so a checkout below a directory `build` or `vendor` is never
  scanned. Lines 11-12 say that missing intent always yields "unknown"; the code
  may answer "actionable". `lstrip("./")` makes `.a` and `a` one path.
- `feedback/store.py:34-37` and `trajectory/store.py:77-80` decode the whole file and catch
  `OSError` only, while lines are written with `ensure_ascii=False`: an append that is cut inside
  a character makes every later read raise, though "Corrupt lines are skipped"
  (`feedback/store.py:5`). `StoredOnce` says that a cut costs at most one record its line, and that
  such a cut hides all the others; the ranking of an audit reads the file outside any guard
  (`cli/phases.py:1071-1090`) and then ends the audit after its review. A document that does not decode makes
  the export of trajectories raise (`trajectory/store.py:103-105`). `splitlines` also parts lines at
  U+2028 and its like, which JSON does not escape; the models' texts have none.
- `cli/main.py:1277` and `1306`: branch results are kept by file and line, the last one wins. Of
  two findings on a line the one may be shown as fixed by the other's fix, or its own fix may be
  lost (`FixesAreOfTheLine`).
- `analysis/adjudication.py:84` and `359` match recorded paths by `fnmatch`: `pages/[id].tsx`, recorded
  as discussed, does not match itself and is searched again, and it matches `pages/i.tsx`.
  `MemoryIsKept` speaks of paths that match themselves (`FindsItself`). (On Windows `fnmatch` also
  ignores case; not modelled.)
- A memory file that was cut may parse as a list with an entry nobody declared (a YAML document
  that ends after an entry's label covers every finding), or may not decode, and then every command that
  loads it raises (`analysis/adjudication.py`, `load`).
- `consent/email.py:208`: a death between mail and record leads to a second mail
  ("One email per repository", `email.py:4-5`). `DuplicatesNeedADeath` says this
  is the only way when commands do not overlap.
- `feedback/policy.py:72`: the `*` fallbacks of the docstring are never
  aggregated; an "actionable" event of the exact key can lower a score.
- `preflight` answers "submit" for findings beyond `--max-findings`, for failed
  lookups and for closed issues; a recorded discussion without rule and path
  covers every finding; the memory is saved without an atomic replace.
- `frontends/git_branch_checker.py:179`: a local branch `dev/x` makes `dev` count as
  known, so it is not fetched; the search in history sees a file, not a function.

Verifier, sandbox, retrieval:

- `verifier/`: words of the problem text become claims about code; `verify_critique`
  passes "file:line" unparsed; a proposal without claims is listed as verified;
  the caches are never refreshed; names with the same stem resolve by list order;
  a "code_pattern" claim is verified by part of a name.
- `verifier/sandbox_backends.py`: the container backend runs `git apply` in
  `python:3.12-slim`, which may have no git; a missing git is "failed". A removed
  line that starts with `-- ` reads as a header. The project may be edited between
  the two copies (`PatchVerdictsAreEarned` says what a verdict then means).
- `rag/`: vector blocks are compared with the untruncated graph context;
  `expand` with no hops drops its seeds; gaps between functions are never chunked; a
  recorded TF-IDF index raises without scikit-learn; two indexers share temporary
  names; a file edited during the hash keeps its old chunks; an E5 index can be
  queried with the fallback model.
- `rag/chunker.py:279, 330, 351`: a chunk is cut at its length in characters, so the lines of a
  long function after the cut are in no chunk; `RetrievalIsExact` excepts them (`TooFar`), those that are
  blank, and those of files after the limit of chunks is met. `graph/schema.py:223-244`: a hotspot is any function with
  the name in its own.
- `graph/`: a block too long for the budget is counted although left out, and the
  truncation marker is never printed.
- `detector/`: the build system is the first of a Python set although the
  docstring calls the scan deterministic; caps on files are silent, and the first 20000 directories are walked (`fp.truncated` says so).
  `diagnostics/`:
  tools that ran nothing report success; the CLI and LIBRARY branches of the
  framework pass cannot be reached.

## What is not modelled, and why

- Text: prompts, rules' patterns over source text, reports, displays, wizard
  questions, redaction patterns, the patterns that find intents and claims. The
  models choose what a text says; nothing else is decided by it.
- Numeric ranking: embeddings, TF-IDF weights. What is kept is which chunks
  are compared, the order given by scores, and the cuts.
- In `Lowering`: try/else, several handlers, while/else (the frontend drops it),
  Go's select, fallthrough and initialisers, Go's panics; the handler of a try
  is taken to catch everything. The JavaScript frontend makes no
  operations. As bounds, every function has an event and an action, and only the
  last case of a switch may be empty.
- `flow/taint.py`'s `TypeScriptTaintVisitor` and `PythonTaintVisitor` and `flow/scope.py`:
  nothing in the program constructs them.
- The parsing of source into graph nodes and edges (`graph/builder.py`), the Chroma
  backend and the RAG evaluator, the registry of models (`llm/provider.py`), what the
  scanner reads in README and configuration files: data for decisions that are
  modelled.
- `scope_evidence_pack` of the sharded review selects data and has no protocol.
- In `Retrieval`, the newlines between the parts of an answer and the label over the blocks of the
  vector source, which the code does not count either. In `ProjectReader`, the estimate by which the code
  sums the sizes of groups (`engine/project_reader.py:308-361`): it counts references that groups
  share more than once and so may take fewer groups than fit; the model's groups
  share none. The smaller caps of single diagnostic tools.
- Dry runs of the consent command change nothing.
- Experiments and benchmarks evaluate recorded runs offline and are used by no
  command.

Of the hazards `PROJECT.json` lists, three have no property, because the model does
what the code does: the tokens of empty completions, the merged status of
failed debates, and trials that see what earlier ones found. The disagreements at
`client.py:364`, `runner.py:42` and `merge.py:142` are told above only.

## Plan

What could follow. The invariant of half-built graphs that `GraphIsSound` would need, and
`TaintFlow` with its expressions flattened into a list, so that it needs no recursion.

In the model: several handlers and try/else in `Lowering`; the builder of the code graph as a step
before `Retrieval`.
