# A verification of the workflow backend

TLA+ models of the part of this repository that is hard to test: the workflows
of the backend, the requests that start them, and the background runs that
carry them out. TLC checks the models on small instances; TLAPS proves the most
important properties for all instances.

Contents: [the system](#the-system) ·
[the modules](#the-modules) · [the runs](#the-runs) ·
[what disagrees with the documentation](#what-disagrees-with-the-documentation) ·
[the proofs](#the-proofs) · [what is not modelled](#what-is-not-modelled) ·
[the plan](#the-plan)

## The system

An instructor uploads a course description (RPS). The backend converts it
(Docling), has a language model analyze it, has the model plan the course from
the analysis, validates the plan, and waits for the instructor to approve or
reject it; later stages write content and put it into Moodle. FastAPI answers
the requests; what takes long is a background task of the same event loop, with
a database session of its own. Requests and runs meet in the database only.

| Component | State | Operations | Works with |
|---|---|---|---|
| Workflow (`services/workflow/domain`, `service`, `repository`) | table `workflows`: status, progress, Moodle target | `begin_run`, `begin_stage`, `complete_stage`, `mark_retrying`, `resume_stage`, `wait_for_review`, `fail_run`, `claim_planning`, `set_moodle_course_id` | all the others |
| Orchestrator (`services/workflow/orchestrator`) | the context of a run: a copy of the workflow's row | `execute_workflow` and the handlers of four stages | workflow, RPS, course plans |
| Events (`workflow_events`, `broker`, WebSocket) | the history of a workflow; a bounded queue per subscriber | record, publish, subscribe | orchestrator, frontend |
| Course plans (`services/course_plan`) | table `course_plans`: numbered versions with a status and a verdict; `course_plan_weeks` | `start_planning`, `prepare_planning`, `validate_plan`, `create_version`, `approve`, `reject` | workflow, orchestrator, content |
| RPS documents (`services/rps`) | table `rps`: status, conversion, analysis, workflow, `updated_at` as a lease; files of the storage | `upload_rps`, `begin_processing`, `convert`, `begin_analysis`, `analyze`, `attach_workflow`, `document_to_yaml` | orchestrator, workflow, converter |
| Analysis and planner (`services/analysis`, `course_plan/planner`), model calls (`services/llm`) | none | attempts with a bounded number of repairs, tries within an attempt | model providers |
| Content (`services/content`, `scripts/run_content_workflow`) | contents with a review status | generate, validate, submit, approve, reject, retry | course plans |
| Moodle (`services/moodle_*`) | the mapping of entities; the rest is in Moodle | `save_section`, `create_course`, `save` | Moodle |
| Instructor setup (`services/instructor`) | two rows per instructor | `update_setup`, `ensure_default_setup` | planning |
| Users (`services/user`, `auth`, `seed`) | table `user` | create, update, activate, login, check of a token, seed | all routes |
| Frontend (`useWorkflowMonitor`, `monitoringSocket`) | the newest known state of a workflow | polls, socket frames, resynchronisation | events |

What makes it correct, component by component:

- *Workflow*: only one run at a time carries a workflow on; its status shows
  that; no failure leaves it in a stage forever; the progress shown to an
  instructor who is asked to review is complete.
- *Course plans*: versions are numbered without gaps, never overwritten, at
  most one is approved, only a valid one, and only the latest.
- *RPS documents*: a status never promises a result that is not there, nor an
  analysis that belongs to an earlier conversion, nor files that were not
  written; a document that is marked as being worked on is settled.
- *Events and frontend*: the history explains the status; what a page shows
  never goes back, and in the end it is what the server has to tell.
- *The contract between the stages*: a plan is marked as valid if and only if it
  fits the analysis and the setup it was made from; what is stored is what was
  validated; the next stage can read it.
- *Content*: a text that is approved was itself validated and submitted, as far
  as the consoles see what they write over, and what is reported as generated is
  stored.
- *Moodle, instructors, users*: of the requests that add sections at once the
  last finds its own, and none takes one that was there before it began; rows that
  belong together come together, a role that was withdrawn counts at once, a seed takes over nobody's
  account.
- *Model calls*: no more requests than the limits allow, none after an error
  that will not go away.

What makes it hard:

- **Saves write whole rows.** `repository.update` fetches the row again and
  assigns every column from the record the caller holds. The session keeps
  entities by weak reference and nothing holds on to them (`expire_on_commit`
  is off, the domain record is a copy), so the row fetched for the save is the
  one in the database *now*; every column in which the record differs from it
  is written. A save therefore restores the whole row to what the caller read,
  however long ago that was.
- **Checks and writes are apart.** Only `claim_status` is a conditional
  `UPDATE`. Everything else reads, decides and saves in separate steps.
- **The lease is `updated_at`.** A document counts as being worked on while its
  row was updated recently. A save that changes no column emits no `UPDATE` and
  does not renew it.
- **A crash loses the runs and keeps the rows.** Nothing repairs them at start.

## The modules

| Module | Models | How |
|---|---|---|
| `WorkflowRecord` | `services/workflow/domain.py` | one operator per method, from the record to the record; guards that raise are named in the comments and stand in the actions that call |
| `RpsDocument` | `services/rps/domain.py` | the same for the document; `May...` operators are the checks that raise |
| `CoursePlanning` | `services/course_plan`, its routes, the planning half of the orchestrator | state machine; extends `WorkflowRecord` |
| `RpsPipeline` | `services/rps/service.py`, its routes, the RPS half of the orchestrator | state machine; extends `WorkflowRecord` and `RpsDocument` |
| `Backend` | both on the same rows | extends `RpsPipeline`, instantiates `CoursePlanning`, whose `analyzed` becomes the status of the document |
| `PlanLedger` | what planning promises | abstract state machine: holders and a sequence of versions |
| `CoursePlanning_ledger` | that `CoursePlanning` keeps it | `INSTANCE PlanLedger WITH` the holders and the versions of the tables |
| `WorkflowEvents` | events, their timestamps, the broker | state machine of the runs of one workflow; extends `WorkflowRecord` |
| `WorkflowMonitor` | the page that watches | extends `WorkflowEvents` by the page, its syncs and its socket |
| `ContentReview` | `services/content`, the console script | state machine of its own |
| `MoodleSite`, `InstructorSetup`, `Uploads`, `Accounts`, `ModelCalls`, `DocumentConversion`, `RpsExport`, `PlanContract` | one service each | small state machines with variables of their own |
| `Services` | the choice of one of those eight | their disjunction |
| `Ranking` | the sorts of `mergeEvents`, `_build_weeks` and `document_to_yaml` | operators: a set in order, by the rank of each element |
| `MC...` | | instances for TLC |
| `..._proofs` | | lemmas and theorems |

In all state machines a request and the run it schedules are one record with a
control state; an action is what happens between two awaits at which another
request may change what this one has read. Commits follow one another so closely
that a read followed at once by its use is one action, and a save is an action
of its own whenever the record it saves was read by an earlier one. Where a run
keeps a copy of the row across its stages (`WorkflowContext.workflow`) the copy
is part of the record: `ctx`. Operators that begin with a comment "Mutated" are
deliberately wrong variants that the properties have to tell from the code; no
specification uses them. What the code sorts is put in order by rank (`Ranking`):
the *i*-th element is the one with *i* elements not after it. It is what the
sort functions of the community modules return, in a form the provers can work
with; a reduce over events is a recursive function (`Replay`), not an operator.

**CoursePlanning.** `workflows`, `plans`: the two tables. `analyzed`: whether
the RPS of the workflow is analyzed, which the planning checks and another part
of the system changes (`AnalysisChanges`). `planner`, `review`, `update`: the
three kinds of requests. A planning request goes
`idle → checked → claimed → loaded → begun → preparing → generating ⇄ retrying`,
`generating → planned → validating → storing → stored → finished → ended`; every
arrow is a statement of `start_planning`, `claim_planning`,
`run_course_planning_workflow` or `execute_workflow`, and most of them save the
row. A review goes `idle → admitted → decided → ended`: it reads the workflow,
then the latest version, then writes. An update reads the row and writes it
back with another target. `Crash` ends what is under way and leaves the tables.
A generated version is valid or not by choice; an attempt succeeds, may be
repaired, or fails by choice.

**RpsPipeline.** One document (documents do not influence one another).
`document` and `fresh`: its row, and whether the lease is running; `workflows`
and `created`: the rows of the workflows; `request`: the requests. A conversion
is named by the request that made it and an analysis by the conversion it was
made from, which is all that the properties need to know of their content; a
workflow has the name of the request that created it. `Init` allows each state
in which an earlier request may have left the document. The actions of the
request are those of `process_rps` and `reanalyze_rps`; `RunStep` is the
background run, from `_run_in_background` to `wait_for_review`, with the
document read and saved inside its stages by `convert` and `analyze`. A request
that is refused changes nothing and is not represented, except where the
refusal comes after something was kept.

`WorkflowStatus` has the statuses some orchestrated run enters; the enumeration
in the code has four more for stages that are not implemented.

**Backend.** The variables of `RpsPipeline` plus `plans`, `planner` and `review`.
The request of a reanalysis needs no claim and is admitted while the workflow is
being planned; both runs then save the same row of `workflows`. A crash takes
all of them. `Backend` has no changes of the Moodle target and no leases; the
modules it is composed of have them.

**PlanLedger** says in seventy lines what an instructor may rely on: at most one
holder per workflow, only the holder adds a version, version *n* is the *n*-th
entry and stays there, a verdict never changes, a decision never becomes a
draft, one version is approved at the most. `CoursePlanning_ledger` maps the
runs under way to holders and the rows, in the order of their numbers, to
entries. Most steps of a run are stutters; `ClaimPlanning` is `Claim`, the last
save of a run is `Release`, `StoreVersion` is `AddVersion`, `Decide` is
`DecideVersion`. Without updates of the Moodle target only: they break the lock.

**WorkflowEvents.** `_update` commits the row and `_record` the event
afterwards: `out` is what the session of a run still owes. Both timestamps are
the database's `now()`, the beginning of a transaction, and a session begins its
next transaction when it refreshes what it has committed; `clock` counts
commits. `tail` is the session of the previous run while it owes its last event:
the next run may be claimed before it is written. `queue` is the broker's queue
for one client. Faults: an event cannot be recorded, a stage fails, the process
dies. **WorkflowMonitor** adds `page` (what the reducer holds), `call` (a sync:
two GET requests, each reading when it likes, of which the later sync
invalidates the earlier) and `sock`. The browser polls until the page shows a
workflow that is finished.

**ContentReview.** A console of the script is one session for all it does. The
session keeps a content alive while the script refers to it, so `get_by_id` may
return a copy that is old, and a flush writes the columns that differ from that copy
only. Two records that the code does not keep hold the past for the properties: `been[i].past` holds which text the row *i* had with which status, and
`been[i].blind` the texts involved in a flush that wrote over what its session had
not seen (`Seen`). A week is generated in attempts, several weeks at once up to
`Concurrency`; the saves come afterwards, one by one, each committed for itself,
and a refused commit rolls back and forgets. A week that failed is passed over by
the loop. The plan is one whose weeks can be read at all (see the findings).

**The eight services** share no variable: in the code, too, none of their
operations reads or writes what another one of them keeps. An interleaving of
two of them therefore shows nothing that either does not show alone, and
`Services` chooses one of them at the start.

- `MoodleSite`: a Moodle that others change; every call is a step and may fail,
  a write before or after it took effect. `mapping` is the table with its two
  unique constraints. `own`, which only the property reads, is the section that
  Moodle added for a request: Moodle does not tell, and `_add_section` takes the
  last of those that are new.
- `InstructorSetup`: two rows, each selected twice by an update; the commit
  writes the columns whose merged value differs from the second reading.
- `Uploads`: hash, search, file, row, with failures between them.
- `Accounts`: users, requests with a token (an id), runs of the seed. Operations
  of the user service are single steps.
- `ModelCalls`: one task with its attempts and the tries of each, every reply a
  provider may give, and the error each is turned into.
- `DocumentConversion`: processes with their lazily built converter and its
  lock, workers that convert the same document, the three artifacts, the row.
- `RpsExport`: `document_to_yaml` as operators on documents made of texts and
  tables (`SourceItem`, `SourceTable`: any labels, any layers, a page that is 0
  where Docling names none). A text is its words, whether it is short, and whether
  it names the lecturer. What the pattern takes for a name is no part of its
  `words`; see below for how much that may be.
- `PlanContract`: an analysis, a setup, the request built from both, the plan of
  the model, `validate_plan`, the stored weeks, and what the generation of
  material reads of them.

## The runs

`CHECK_DEADLOCK FALSE` stands in all configurations: the requests of a model are
a finite set, and when they are through the system may stop.

| Run | Instance | States | Shows |
|---|---|---|---|
| `CoursePlanning_runs` | 3 planners, 2 reviews, 1 repair, 1 crash | 591 000 | `TypeOK`, `PlanningExclusive`, `HeldMeansRunning`, `CopyCurrent`, `RunningMeansHeld`, `WaitingMeansDone` |
| `CoursePlanning_history` | 2 planners, 2 reviews, 1 update | 700 000 | `VersionsNumbered`, `OneApproved`, `OnlyPassedApproved`, `HistoryKept` |
| `CoursePlanning_settles` | 2 planners, 2 reviews, 1 repair, 1 crash; fair | 215 000 | `PlanningSettles`, `ImplementsLedger` |
| `RpsPipeline_races` | 1 processing, 2 reanalyses, 1 lease that runs out | 1 383 000 | `ResultsMatchStatus`, `RestingMeansDone`, `MarkedMeansServed` |
| `RpsPipeline_schemas` | 2 processings, 2 schemas, 1 repair, 1 crash; fair | 253 000 | `TypeOK`, `ResultsMatchStatus`, `DocumentSettles` |
| `Backend` | 1 reanalysis, 2 planners, 1 review, 1 crash; fair | 244 000 | `WorkflowsComeToRest`, `PlansSound`, `WorkflowsSettle` |
| `WorkflowMonitor_frames` | an analysis or a planning, 2 attempts, queue of 2, 1 fault | 2 130 000 | `HistoryTells`, `RestIsTold`, `NeverBackwards` |
| `WorkflowMonitor_converges` | an analysis, queue of 1, 1 fault, answers 2 commits late; fair | 223 000 | `MonitorConverges` |
| `ContentReview_reviews` | 2 consoles, 3 weeks (2 regular), 1 repair, 2 texts, 1 refused commit | 1 756 000 | `ApprovedAfterReview`, `ReportsAreSaved` |
| `Services` | the eight services, see below | 1 648 000 | thirteen properties, one or two per service |
| `CoursePlanning_double_run` | 2 planners, 1 review, 1 update | | violates `PlanningExclusive` |
| `Services_plan_unread` | `PlanContract` alone | | violates `ApprovedPlansAreRead` |

Why the bounds are enough to be worth something. Workflows do not influence one
another, so one is enough. What is at stake is who saves over whom; two
processes of a kind make the conflict and a third one shows what follows it.
Three planners are a first plan, a second one after its rejection, and a rival;
two reviews are two that race, or one that lets the next planner in.
`CoursePlanning_history` has an update in it so that the claim is *not* a lock:
the properties of the versions have to hold even when two runs store them at
once, which is when `StoreConflict` happens. One expired lease is a takeover,
with the old worker still running; the takeover after a crash, and of one
processing by another, is left to `ResultsAreBacked`, which is proved for any
number of leases, crashes and requests. Two schemas are needed for a conversion
that must not be reused. One repair covers the way into `RETRYING` and back. In
`Backend` the first planner may hold the workflow when the reanalysis starts and
the second one comes because of it. A queue of one overflows at the second
event; the fault of `WorkflowMonitor_converges` is a lost connection, a failed
sync, a lost event or a crash. `MaxFixAttempts`, `PlanFixAttempts`,
`MaxAttempts`, `MaxExpiries`, `MaxCrashes`, `MaxRuns`, `MaxFaults`, `MaxDelay`,
`MaxTexts`, `MaxFailures` are the bounds of these models; `MaxStages` is the
number of stages of the longest run. In `ContentReview_reviews` one console
generates both regular weeks at once and the database refuses either of them,
before or after the other; or one text is generated, reviewed, and written over by
the second one, of either console, through a retry or a new generation. Three
texts and more are left to the theorems.

The instance of `Services`: two callers of Moodle with two sections and two
courses; two editors with two activities; two uploads of two owners with three
contents, one of them unacceptable; one request and one seed among two users;
limits of 0, 1 and 3 tries and of 0 and 2 repairs; two tasks of the server and
one run of the script, which may start two conversions; documents of up to three
texts, or of one text and a table of up to three cells (3 texts on 3 pages are
what `CHROME_MIN_PAGES` needs); seven analyses and all plans of up to two weeks.
The bounds are `MaxSectionIds`, `MaxCourseIds`, `MaxDocuments`, `MaxOutages`,
`MaxUsers`, `MaxConversions`; `MaxWeek` stands for the 60 of the schema and
`MinPages` is `CHROME_MIN_PAGES`.

The requests of a kind are interchangeable; the runs of safety properties use
that symmetry, the liveness runs do not.

**Fairness.** `CoursePlanning!FairSpec` has weak fairness of `RunStep` for each
planner: a claimed run is a task of the event loop, every await in it returns or
times out, and its exceptions are caught. Nobody is obliged to send or to go on
with a request. `RpsPipeline!FairSpec` has weak fairness of `Serve`, the steps
of a request that was sent and of its run: `begin_processing` and the scheduling
of the run are in one handler, which the server carries to its end.
`BackendFairSpec` is both. Leases and crashes are never fair, and the three
properties are relieved by them: nothing in the code picks up what a crash
leaves, and a document must not be settled only thanks to somebody's takeover.
`PlanLedger!LedgerFairSpec` asks that a holder lets go; `ImplementsLedger`
includes it. `MonitorFairSpec` has weak fairness of the runs, of the page's
timers and answers, and of the network that carries a subscription and its
frames; faults are left open.

**Why these properties.** `PlanningExclusive` and `CopyCurrent` are the lock and
what it is for: a run may keep a copy of the row through all its stages only as
long as nobody else writes the row. `RunningMeansHeld` is the other direction: a
status of a stage without a run would never change again. It is stated up to the
first crash, because after a crash it is false. `ResultsMatchStatus` is what is
left of the documents when nothing is atomic: however many requests save however
old copies, the row is always one that some request had a right to save.
`RestingMeansDone` needs its antecedent: between `begin_run` and the first stage
of a reanalysis the workflow still shows `WAITING_FOR_REVIEW` with no progress,
which an instructor may see. `WorkflowsComeToRest` is the same for runs of both
kinds; its exception is real: the loser of a race for a version number leaves
the row in `VALIDATING`, because its session is broken when `fail_run` wants to
save. `HistoryTells` and `RestIsTold` hold although status and event are apart,
because a later event carries a later timestamp and `failure_emitted` keeps the
reports of a failure apart. `NeverBackwards` excepts `late`: a claim whose
transaction is older than the previous run's last commit moves `updated_at`
back, and with it the page. `MonitorConverges` excepts the page that shows a
failure: it has stopped polling, so a lost event leaves it as it is.
`ApprovedAfterReview` speaks of a text and not of its row: a row that was reviewed
once proves nothing about the text that replaced the reviewed one. It excepts the
texts that a flush judged or put in place blindly, which the code does (see the
next section). `ReportsAreSaved` is about `generate_contents` under `rollback`:
that one week is refused may not take back another that was reported.
`CreatorsTakeTheirOwnOrLater` bounds a race that it cannot exclude: two requests
may take one section, but then it is the later one's.
`PassedPlansFit` compares `validate_plan` with the promises of its docstring, in
both directions, and with the inputs the request was built from rather than those
of the moment. `AcademicTextKept` bounds from below what `NamesStayBehind` bounds
from above: the export loses nothing but chrome and identity.

## What disagrees with the documentation

Two runs end in a violation; the trace is the scenario.

1. `CoursePlanning_double_run`: two planning runs on one workflow, although the
   claim is atomic. `PUT /moodle-target` read the row before the claim and saves
   the old status with the new target. (`routes/course_plans.py:247`)
2. `Services_plan_unread`: an approved plan with a topic or a method cannot be
   read by the generation of material, which expects objects with `items` where
   the planning stores lists. The tests replace `_build_week_contexts`.
   (`services/content/generate_service.py:106`, `models/course_plan_week.py:66`)

What follows are behaviours of the models that disagree with a comment or a
document as well and have no run of their own.

- *The version approved may not be the latest any more*: a rejection and a whole
  run fit between `AdmitReview` and `Decide`. (`routes/course_plans.py:193`)
- *An approval may be undone* by a rejection that started before it and is
  written after it: `set_status` has no condition.
  (`course_plan/service.py:364`)
- *A Moodle target is lost* when it is stored while a run works: the run saves
  the old one at its next stage. (`routes/workflows.py:182`)
- *The check of the versions may be old*: `start_planning` checks before the
  claim and not after it (`StartPlanning`, `ClaimPlanning`), so a slow request
  plans a workflow whose latest version is a draft again.
  (`course_plan/service.py:147`)
- *Two conversions of one document*: both requests read the document before
  either marks it (`rps/domain.py:189`). Their files may then be mixed: the
  artifacts of one beside the `source_document` of the other.
- *Processing starts from `ANALYZED` and `ANALYZING` too* (`MayStartProcessing`),
  where `rps/domain.py:187` lists `UPLOADED`, `FAILED` and `PROCESSED`.
- *A workflow is orphaned*: the second of two requests for a converted document
  takes the link; both runs work on its workflow and the first response names
  one that stays `QUEUED`. (`routes/rps.py:250`)
- *Two rows for one file*: two uploads at once both find none.
- *An approved content is overwritten* by a retry or a generation that read it as
  a draft, before it was validated, submitted and approved: `DRAFT` is no change of
  that copy and is not written, so the status stays `APPROVED` while the text, which
  nobody has reviewed, changes. (`content/review_service.py:12`,
  `content/repository.py:105`)
- *A text is approved that its reviewer has not read*: a console holds a copy that waits for
  review, another one has the text replaced by a retry it began earlier, and the
  first one approves by its copy. `_ensure_transition` looks at the copy, and the
  flush writes the status alone. (`content/review_service.py:157`)
- *One request renames the section of another*: of two that add a section at the
  same time each takes the last new one it finds, so both may take, rename and
  answer with the later one, while the earlier one stays unnamed.
  (`moodle_integration_service.py:219`)
- *All activities may be switched off* by two partial updates, each of which is
  valid with what it has read. (`instructor/service.py:11-13`)
- *An analysis that is no JSON is not tried again*: the error is raised inside
  the provider's call and reported at once, where `analysis/service.py:208`
  promises a retry. What line 209 says of errors of the provider ("langsung
  dilaporkan tanpa retry") is true of the attempts and not of the tries within
  `execute_prompt`; after these, a timeout or a rate limit is reported under the
  code of an error that ended the retries, not under its own.
- *Captions of tables are not redacted*, against the promise of lines 15-19 of
  `yaml_export.py`: `NamesStayBehind` is about headings, paragraphs and cells.
  Within a page all tables come after all texts. A running header with a name in
  it is compared in its redacted form with headers that are not, and stays, with
  the name removed.
- *The redaction may take more than the name*: `NAME_TOKEN` is any capitalised word,
  and any number of them is taken, so capitalised words of an academic text that
  follow a name at once go with it, against lines 61-64. In the model they count as
  part of the name (`who`), and `AcademicTextKept` says nothing of them.
  (`yaml_export.py:78-86`)
- *Exam weeks count as regular* when material is generated: `week_type` is a
  column, `generate_contents` looks for it in `metadata`, which the planning
  never writes. Nor does it ask whether the plan is approved.
- *A new analysis or setup does not invalidate a version* that was planned from
  the old one, neither at its validation nor at its approval.
- *An RPS week above 60 can never be planned*: the plan's schema refuses the
  week, the validation misses it.
- *A failure nobody foresaw while the converter is built* is blamed on the
  document (`DocumentConversionError`), not on the environment.
- *An event that cannot be recorded is not told again*: `failure_emitted` is set
  before it is recorded. After a crash between the event of a failure and
  `fail_run` the history tells of a failure that the row does not show.
- `reject_content` does not store its reason; `run_content_generation.py`
  imports a module that is not there; `ensure_default_setup` may overwrite a
  setup saved at the same time; a `PUT` of `{}` creates the rows of the setup.

## The proofs

All theorems are about every set of requests and workflows and every bound.
They assume what the modules state as named assumptions: the bounds are natural
numbers, the identifiers of earlier requests and of "none" are no requests, there
is a schema, a run has between one and two of the known stages, the weeks of an
analysis have numbers from one on, and the documents to export are lists of texts
and tables of the types named in `RpsExport`.

| Theorem | Says | By |
|---|---|---|
| `CoursePlanning_proofs!TypeCorrect` | `[]TypeOK` | `TypeOK` is inductive |
| `CoursePlanning_proofs!PlanningIsExclusive` | `[](PlanningExclusive /\ HeldMeansRunning /\ CopyCurrent)` if `Updates = {}` | `HeldInv` |
| `CoursePlanning_proofs!RunsLeaveNothingBehind` | `[](RunningMeansHeld /\ WaitingMeansDone)` if `Updates = {}` | `HeldInv`, `LeftInv` |
| `CoursePlanning_proofs!VersionsInOrder` | `[](VersionsNumbered /\ OneApproved /\ OnlyPassedApproved)` | `VersionsInv` |
| `CoursePlanning_proofs!HistoryIsKept` | `HistoryKept` | `TypeOK` and a step analysis |
| `CoursePlanning_proofs!PlanningKeepsLedger` | `Ledger!LedgerSpec` if `Updates = {}` | `HeldInv`, `VersionsInv`, step simulation |
| `RpsPipeline_proofs!TypeCorrect` | `[]TypeOK` | `TypeOK` is inductive |
| `RpsPipeline_proofs!ResultsAreBacked` | `[]ResultsMatchStatus` | `ResultsInv` |
| `RpsPipeline_proofs!RestingIsDone` | `[]RestingMeansDone` | `RestInv` |
| `RpsPipeline_proofs!MarkedIsServed` | `[]MarkedMeansServed` | `ServedInv` |
| `Backend_proofs!PlansStaySound` | `[]PlansSound` | `VersionsInv` |
| `Backend_proofs!WorkflowsAreLeftAtRest` | `[]WorkflowsComeToRest` | `CountedInv`, `RowsInv` |
| `WorkflowMonitor_proofs!TheHistoryTells` | `[]HistoryTells` | `EventsInv` |
| `WorkflowMonitor_proofs!RestTells` | `[]RestIsTold` | `EventsInv`, `RowInv`, `ReplayIs` |
| `WorkflowMonitor_proofs!ThePageKeepsUp` | `NeverBackwards` | `EventsInv`, `RowInv`, `PageInv` |
| `ContentReview_proofs!ReviewedBeforeApproved` | `[]ApprovedAfterReview` | `ContentInv` |
| `ContentReview_proofs!GeneratedIsSaved` | `[]ReportsAreSaved` | `ContentInv` |
| `Services_proofs!SetupsAreWhole` | `[]RowsInPairs` | `SetupInv` |
| `Services_proofs!UploadsAreWhole` | `[]DocumentsHaveFiles` | `UploadInv` |
| `Services_proofs!BuiltOnce`, `FinishedIsStored` | `[]BuiltOncePerProcess`, `[]FinishedHasFiles` | `ConversionInv` |
| `Services_proofs!OwnOrLaterIsTaken`, `MappedIsAnswered` | `[]CreatorsTakeTheirOwnOrLater`, `[]AnswersAreMapped` | `MoodleInv` |
| `Services_proofs!ServedByRole` | `[]RolesAreCurrent` | `AccountsInv` |
| `Services_proofs!SeedsSpareOthers` | `SeedSparesOthers` | `AccountsInv` and a step analysis |
| `Services_proofs!CallsAreBounded` | `[]RequestsAreBounded` | `CallsInv` |
| `Services_proofs!VerdictsAreTrue` | `[]PassedPlansFit` | `ContractInv`, `NoIssue` |
| `Services_proofs!ApprovedPlansStand` | `[]ApprovedWeeksStand` | `ContractInv`, `NoIssue`, `RowsAreWeeks` |
| `Services_proofs!NamesAreWithheld`, `AcademicTextArrives` | `[]NamesStayBehind`, `[]AcademicTextKept` | `ExportInv`, `YamlIs` |

`Updates = {}` says that no request changes the Moodle target. It is the point of
these theorems and not a convenience: the first finding is what happens without it.

- `HeldInv`. Exclusion alone is not inductive: a second claim is kept out by the
  status, so the status has to show that the workflow is held; the status stays
  so because the only one who saves the row is the run that holds it, from a copy
  that is current. The three statements support one another, and the proof needs
  all of them at once.
- `LeftInv`. A run may end in six ways. `Counted` says how far the progress of a
  run's copy is at each of its control states, so that `AwaitReview` saves a
  complete one. `NumbersFree` says that the number a run holds is still free
  when it inserts: with the lock `StoreConflict`, the one end that leaves a stage
  behind, cannot happen.
- `VersionsInv`. A run computes its version number before it inserts, and a
  review picks a version before it decides. `NumbersReached` says that the number
  a run holds is still at most one above the versions there are, so that an
  insert which passes the unique constraint leaves no gap; `DecisionsFounded` says
  that the version a review picked is still there and was valid, since versions
  are neither removed nor changed in what they are.
- `PlanningKeepsLedger`. The rows of a workflow, numbered 1 to n, are a sequence
  (`LedgerType`); an insert appends to it (`AddRow`) and a decision changes one
  entry. With `HeldInv` a claim finds no holder and a version is added by the
  holder; every other step is shown to leave both variables of the ledger alone.
- `ResultsInv`. Every copy that some request will save is itself backed
  (`Backed`): whoever saves last, the row is sound. It is needed because no save
  depends on the row it overwrites.
- `RestInv`. Whether a workflow that came to rest shows a complete progress is
  decided by the copy of the run that saved last: `Counted` says how far the
  progress of each run's own copy has to be at each point of its run, and a
  workflow without runs then has the last save of the last of them.
- `ServedInv`. That some request is under way is not inductive: the request has
  to be one that will still write the document. `Minds` says at which control
  states it will, and `Copied` what its copy is by then; a request that ends has
  just saved a settled document, and one that is refused never marked it.
- `Backend_proofs` uses what the two modules prove of their steps, not what they
  prove of their behaviours, since with a reanalysis on the same row the claim is
  no lock. A step of a document's run leaves `plans`, `planner` and `review`
  alone. For the shared row the argument is local to a save: what a run writes is
  its own copy, moved on (`RowEffect` in both directions), so after its save the
  row is at rest or the run goes on (`RowsInv`). The exception, a row left in
  `VALIDATING` by the loser of a race, is carried along as `Left`. The module
  `CoursePlanning` is there twice, as `Plan` and, with its proofs, as `PlanT`; the
  lemmas named `...Same` say that an action of one is that action of the other.
- `EventsInv`. The history is sorted by the times at which transactions began,
  and the last event of a run may be committed after the first ones of the next.
  `TimesInv` says why the order is right all the same: a session that has saved
  once in its run began its transaction after all that is recorded and after what
  the previous run still owes. So an event that is recorded last sorts last, and
  `OverInv` can say that the last word of a finished run, owed or recorded,
  explains its status. `ReportsInv` counts the reports of failures together with
  those that are owed and those that a run may still make: a run has the right to
  one, and whoever uses it, the service or the orchestrator, uses it up. The
  steps of the page leave all of this alone.
- `RowInv`. `RestIsTold` asks that replaying the whole history on the row changes
  nothing. An event older than the row is skipped, and an event that tells no more
  than the row changes nothing but the time; so what has to be invariant is that
  a run that is over leaves only such events (`ToldInv`), for which the row must be
  behind its own run as long as the run goes on (`SavedInv`) and the events
  recorded must be behind the run's next save (`EnteredInv`).
- `PageInv`. That the page does not go back is not inductive, because the page is
  replaced by the answer to a request that was read a while ago. `Covered(t)` says
  that a row saved at *t*, with the events of the page applied on top, is not
  behind the page; `AgeInv` says so of the row there is now, and of the one the
  answer under way will bring. The events a page has once received are merged
  into every answer, which is what carries the case in which the page owes its
  time to an event and not to a row.
- `Ranking_proofs`. The ranks of a finite, totally ordered set are the numbers
  from one to its cardinality: they differ, so there are as many as elements, and
  none is larger (`RanksAreTaken`, a pigeonhole argument). Hence a list in which
  every element has its rank contains all of the set, each once, in order
  (`InPlace`). `CountingUp` is induction for sets of numbers, by the least number
  that is missing; `ReplayIs` and `ReplayKeeps` use it for the reduce.
- In writing these proofs one definition turned out to be unfit:
  `ApplyWorkflowEvent` was a `CASE` whose first arm, the event that is older than
  the snapshot, overlapped the others. TLC takes the first arm that is true, as the
  code returns there; TLA+ leaves open which. It is an `IF` now.
- `ContentInv`. A console decides by copies that may be old, so the table can
  overtake them. What is invariant is a relation between a copy and the *past* of
  its row, in pairs of a text and a status: a copy is a pair the row once had
  (`WasLike`, in `Reading`), and each text of a row has come to the statuses it has
  been in one after the other, unless it is `blind` (`RowInv`). A flush that changes
  the status adds a pair whose predecessor is there, because the copy was such a
  pair, if the text of the row is still that of the copy; if not, the text is blind
  from then on. A flush that replaces the text adds a draft, unless the row's status
  is not that of the copy, and then the new text is blind. A reported text is in a
  past, which only grows.
- `Services_proofs`. `EachAlone`: a step of `Services` is, for each service, a step
  of its own or none, so each invariant is proved from the service's own actions.
  `SetupInv`: a save that selected a row still finds it. `UploadInv`: what a
  request knows of its document, by control state. `ConversionInv`: whoever builds
  holds the lock (`EngineInv`), and a worker that has written *k* artifacts has
  the first *k* names in the storage (`WrittenInv`), since artifacts are replaced
  and never removed. `MoodleInv`: Moodle appends, its ids grow and a deletion keeps the
  order, so the sections stand in the order of their ids; what a caller knows was
  there before its own was added, so its own is new if it is still there, and the
  last of the new ones has no lower id. `AccountsInv`: what a request saw of
  its user is what the user was at some moment since; the row a seed writes has
  the seed's email. `CallsInv`: after *a* attempts and *t* tries no more than
  `retries * (a - 1) + t` requests. `VerdictsAreTrue` has an invariant that only
  says where a verdict comes from; the argument is in `NoIssue`, a lemma about
  `ValidatePlan` for any plan and any analysis that passed: each of the four sets
  of findings is empty exactly if its promise is kept. `TypeOf` picks the week of a
  number, and that there is one only is a counting argument (`WeeksAreSingle`).
  `ApprovedPlansStand` adds that the stored rows are those of the output in order
  (`RowsAreWeeks`) and that a row marked as an exam is one of the analysis
  (`MarkedIsExam`); then the verdict, which an approval requires, says the rest.
  `ExportInv` says where the blocks come from; the argument is about
  `document_to_yaml`, for any document: the blocks are exactly what remains of it
  (`KeptBlocks`), by pages (`YamlIs`), in what remains there is no name
  (`NoNameRemains`), and what is academic remains (`TextRemains`, `CellRemains`).

Only model-checked:

- the liveness properties `PlanningSettles`, `DocumentSettles`, `WorkflowsSettle`
  and `MonitorConverges`, and the fairness in `ImplementsLedger`: fairness and
  `ENABLED` are out of the prover's reach;
- that `Ranked` is what the sorts of Python and JavaScript return, which is a
  reading of the code and not a theorem: that both are stable is why the order of
  `mergeEvents` and of `InReadingOrder` goes by time or page first and then by
  position;
- the two findings.

No module declares a recursive operator.

## What is not modelled

- Errors of the database other than the constraints that are named and the
  failures that `MaxFailures`, `MaxOutages` and `MaxFaults` count. Elsewhere a
  save that fails ends a run as a crash would.
- A deleted owner, RPS or workflow. No route deletes any of them.
- The owner checks of every read: all requests come from the owner.
- The text of everything: files, prompts, analyses, plans, error messages. Of an
  analysis and a plan `PlanContract` has what the validation compares.
- `complete_run` and the statuses of stages that are not implemented; the tables
  without code; `structured_data_to_yaml` and `validate_references`, which
  nothing calls.
- Courses (reads only), the web application's wiring, migrations, the pages and
  the mocks of the frontend; of Moodle the reads, and what `_to_course` and
  its like make of an answer.
- Docling, the providers and Moodle themselves. What others do to Moodle is
  represented by `SectionDeleted` and by the sections that other callers add.
- In `update_user` the time between the read and the write of one request: only
  the seed calls it, and it changes no column that anybody else writes.
- In `WorkflowEvents`, runs that overlap in more than the last event of the
  first one: `CoursePlanning` and `Backend` have those. In `WorkflowMonitor`, the
  rejection of a socket and the cap of 2000 events.
- In `Backend`, leases and Moodle targets.

## The plan

Every invariant and every action property that a passing run checks is a theorem.
What could still be done:

1. The step-by-step part of `MonitorConverges`: a page that has the current row and
   all of the history shows what the server tells. Its conclusion under fairness
   stays with TLC.
2. A history of more than 2000 events, of which `mergeEvents` keeps the last ones.
3. Overlapping runs in `WorkflowEvents`, with the two copies of the row that
   `Backend` has.
