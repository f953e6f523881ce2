# TLA+ models of Boiler Reviews

Boiler Reviews is a Flask application with a PostgreSQL database: students
review courses, moderators decide what is published, aggregates of the approved
reviews are kept incrementally, catalogs of courses are staged and activated,
and a planner, a section scheduler and a degree audit work on the active
catalog.  A background worker runs durable tasks and drains a transactional
outbox.  The code is `src/src/boiler_reviews`; this directory holds TLA+ models of
its state, its concurrency and its algorithms, the TLC configurations that check
them, and proofs of the central properties for every size of the system.

Paths below are relative to `src/src/boiler_reviews` unless they start with `docs`.

## 1. Inventory

| Component | State it keeps | Operations | Interacts with |
| --- | --- | --- | --- |
| Durable task queue (`tasks/queue.py`, `worker.py`) | `durable_tasks`: status, lease owner, `lease_until`, fencing token, `cancel_requested`, result | `enqueue`, `claim`, `heartbeat`, `finish`, `fail`, `request_cancel`, `TaskWorker.run_once` | recovery, handlers, clients that cancel |
| Task recovery (`ops/recovery.py`) | none of its own | `reconcile_expired_tasks` | overwrites rows of the queue |
| Outbox and projections (`tasks/outbox.py`, `tasks/projections.py`) | `outbox_events`: claimed_by, claimed_until, processed_at; audit events | `claim_events`, `process_events`, `claim_projection`, `apply_projection` | filled by review transitions; handlers |
| Review workflow (`reviews/service.py`) | `reviews`, `review_revisions`, `moderation_decisions` | create, edit, submit, moderate | aggregates, outbox, audit |
| Aggregates (`reviews/stats.py`, `reviews/reconcile.py`) | `course_aggregates` | `adjust_aggregate`, `remove_empty_aggregate`, `full_recompute`, `reconcile` | called in decisions, by operators and by the worker |
| Policy, votes, reports (`reviews/policy.py`, `reviews/moderation.py`) | votes, reports | `assert_review_contribution_allowed`, `vote_helpful`, `report_review`, `moderation_queue` | unique keys of the schema |
| Reads and ranking (`reviews/query.py`, `reviews/ranking.py`, `db/repositories.py`) | none | pages, summaries, ranks | which revision readers see |
| Catalog (`catalog/service.py`) | `catalog_snapshots` and their courses | `stage_catalog`, `activate_catalog` | every reader of the active catalog |
| Prerequisites (`catalog/ast.py`, `parser.py`, `graph.py`) | none | parse, evaluate, strict cycles | validation of a catalog, planner |
| Planner (`planning/`) | none | solve, validate, oracle, prechecks, alternatives, diagnostics, audit | CP-SAT solver (a library) |
| Section scheduling (`sections/`) | none | backtracking over sections | linked sections |
| Identity and rate limits (`identity/`) | accounts, buckets in memory | register, log in, take a token | every HTTP request |
| Database (`db/`) | schema, migrations ledger | `session_scope`, migrate, legacy import, health | everything |
| HTTP, configuration, logging, metrics, command line, browser client | sessions and cookies only | translate requests to the services | everything |

What is hard here:

* **Copies.** SQLAlchemy sessions decide on the copy of a row that they loaded
  first (`session.get` returns the identity-map copy), and write changed columns
  by primary key.  Almost no row is locked when it is read.  Every fence, every
  state check and every delta is therefore a check on a copy that may be stale
  when its consequence is written.
* **Leases.** Handlers run outside any lock under leases that may pass while
  they run; processes die between transactions; recovery races with late
  workers.
* **Deltas.** Aggregates are not recomputed but adjusted, along every path a
  review may take through edits, decisions and reversals.
* **Skip-locked claims.** Claims lock more rows than they take, and a batch is
  abandoned at its first problem.
* **Check, then insert.** Creations, votes, registrations and migrations look
  first and write later; unique keys decide in the end, or nothing does.
* **Two descriptions of one thing.** The planner's constraints, its validator, its
  bounded oracle and the degree audit each say what a plan is; they differ in the
  order of courses, in rounding and in what they do with unknowns.

What makes each component correct:

* queue: one lease per token, outcomes only from the current lease, cancelled
  tasks never restart, ended tasks stay ended, no task is stranded;
* outbox: every event is processed, none for nothing, and repeated effects only
  after a fault;
* reviews: only approved content is public, no edit is lost, what awaits moderation is visible to moderators;
* contributions: one review per place, one vote per member, retries get the first
  answer, nobody is granted more than the rate, pages miss nothing;
* aggregates: deltas and full scan agree; a repair repairs;
* catalog: texts mean what the grammar says, impossible catalogs are refused, at
  most one snapshot is active, and never back;
* planner, scheduler, audit: what is claimed of an answer (legal, optimal,
  infeasible) is true by an independent definition;
* start: whatever migrates at once or is interrupted, the schema is the one the
  ledger names, everyone gets to work, and an import is whole or absent.

`PROJECT.json` lists the hazards line by line, with the properties that cover
them or the reason why none does.

## 2. Modules

| Module | Models | Extends / instantiates |
| --- | --- | --- |
| `TaskQueue` | queue, worker loop, recovery, cancellation, clock and crashes | `TaskLifecycle` as its abstract specification |
| `TaskLifecycle` | the state diagram of a task in `docs/architecture.md`, without workers, sessions or leases | |
| `Aggregates` | the aggregate table's arithmetic, the full scan, the transition matrix | |
| `Reviews` | the review workflow, one atomic transaction per request | `Aggregates` |
| `ReviewTransactions` | the same workflow with its transactions opened up: read a copy, lock, commit, roll back | `Reviews`, which is also its abstract specification |
| `AggregateRepair` | `reconcile(repair=True)` beside those transactions | `ReviewTransactions` |
| `Outbox` | claiming, draining, projections, faults | |
| `CatalogActivation` | staging and activation of snapshots | `ActivePointer` as its abstract specification |
| `ActivePointer` | one pointer that moves on and never back | |
| `PrerequisiteAst` | expressions, their graph edges, three-valued eligibility (operators only) | |
| `Prerequisites` | the parser (operators only) | `PrerequisiteAst` |
| `CatalogGraph` | `strict_cycles` and the decision of `validate_catalog`, step by step, for any finite graph | |
| `CatalogCompile` | the compilation of a document: its texts are parsed, their graph is searched | `Prerequisites`, `CatalogGraph` |
| `CatalogGrammar` | the grammar of the documents, to compare the parser with | `CatalogCompile` |
| `PlannerReadings` | a request, and the two readings of prerequisites, the validator's and the solver's (operators only) | `PrerequisiteAst` |
| `Planner` | `solve()` and its fallback, validator, oracle, prechecks | `PlannerReadings` |
| `DegreeAudit` | the greedy allocation of `audit_degree` (operators only) | |
| `AuditedPlans` | the last plan is audited | `Planner`, `DegreeAudit` |
| `SectionSearch` | backtracking over sections, linked sections (operators only) | |
| `Advising` | a plan is audited or given sections | `AuditedPlans`, `SectionSearch` |
| `RateLimiter` | the token bucket and its threads | |
| `Contributions` | requests of members served by threads | `RateLimiter` |
| `Startup` | migrations by several processes and the legacy import | |
| `TaskQueueProofs`, `OutboxProofs`, `StartupProofs` | theorems and proofs | their module and `TLAPS` |
| `ReviewsProofs` | theorems about `Reviews`, `ReviewTransactions` and `AggregateRepair` | `AggregateRepair` |
| `PrerequisiteProofs` | recursion and induction over expressions, `evaluate` | `PrerequisiteAst` |
| `CatalogProofs` | theorems about `CatalogActivation`, `CatalogGraph`, `CatalogCompile` and the parser | `CatalogActivation`, `CatalogGrammar`, `PrerequisiteProofs` |
| `ContributionsProofs` | theorems about `RateLimiter` and `Contributions` | `Contributions` |
| `PlannerProofs` | theorems about `Planner`, `AuditedPlans` and `Advising` | `Advising`, `PrerequisiteProofs` |
| `MC*` | small instances for TLC | |

In each module the action's name is the function's, split where the database
lets others in between (`CancelRead`/`CancelWrite`, `VoteRead`/`VoteWrite`,
`Read`/`LockAggregate`/`CommitDecision`).  An operator named after another with a
suffix and introduced as "a plausible bug" or "faulty" (`ClaimableLeased`,
`PastByTime`) belongs to no specification: it is kept to show that the properties
notice it.

### TaskQueue

`row` is the table, `pc` the place of each worker in `run_once`.  `held` is the
worker's `TaskLease`, `view` the copy of the row in the handler's session,
`seen` what recovery's SELECT returned, `locks` the rows a claim has locked.
`lease` abstracts `lease_until` to none, live or expired, because the code only
compares it with the clock.  `result` is the token under which a result or error
was written: it tells which lease an outcome came from.

One turn of a worker is `ReconcileRead`, `ReconcileWrite` (recovery, a
transaction that reads without locks and writes by key), `ClaimLock`,
`ClaimCommit` (the claim locks every runnable row, since its query has no
limit, and leases the earliest), `Begin` (the handler's session loads the
row), heartbeats in transactions of their own, and `Finish` on the loaded copy.
A handler that raises goes through `FailRead` and `FailWrite` in a fresh
session.  `Crash`, `LeaseOutlived` (a lease passes under a live handler) are
the faults, bounded by `MaxFaults`; `LeaseLapses` is the ordinary end of a lease
that nobody holds.

Enqueueing, payloads and progress: a task is its idempotency key, so a second
`enqueue` changes nothing; payloads and progress play no part in any decision.

### Aggregates, Reviews, ReviewTransactions

An aggregate row is a count and four sums over ratings.  The ratings do not
matter to whether a sum is right, only which revisions were added how often, so
`sums` counts that, per review and revision.  Two rows are equal for every
choice of ratings exactly when these counts are.  Revisions are their numbers.

`Reviews` is the workflow with atomic requests.  Its `Moderate` is
`moderate_review` with all of `_transition`: the delta, the pointer, the decision
record.  `Withdrawn` and `AfterDecision` are the two halves of the delta.
The status "withdrawn" has no operation that leads to it in the code: it is in
the type and in the transition matrix and is never reached.

`ReviewTransactions` gives each request a session: `Read` copies the row,
`LockAggregate` reads the aggregate FOR UPDATE and computes the delta from the
copy, `Commit...` writes, `Rollback` is any error.  Nothing keeps two requests on one
review apart, in the code or in the model.  `StaleCommit` names what goes wrong when they
race, the commit of a request whose copy another request has made out of date, and the
properties say that nothing else goes wrong.

### AggregateRepair

A repair is `Scan`, `LoadRows`, `Commit`, interleaved with the requests.  The
commit writes the columns that differ from the loaded row.  `replaced` are rows
deleted meanwhile (an UPDATE of one raises), `touched` is a history variable:
the groups whose aggregate or scan has changed since the repair began.

### Outbox

A worker claims up to `Limit` events in one transaction, then treats each in a
session of its own: `Load` (skip, give up, or go on), `Apply` (the handler's
effect, which no rollback undoes), `Complete`.  A projector's claim keeps the row
locked through its effect until it commits.  `effects` counts what handlers did.

### CatalogActivation

`Select` and `Lock` are the two halves of `SELECT ... FOR UPDATE`: rows are found
when the statement starts, and those that still match are kept when their locks
are free.  `Written` keeps SQLAlchemy's rule that an attribute assigned the value
it was read with is not written.  `overtaken` is a history variable: the activations that
were in flight when another one committed.

### PrerequisiteAst, Prerequisites, CatalogGraph, CatalogCompile

An expression is a record with the operator and its items.  `Expressions` is the set of those that
occur, closed under parts, and `Depth` a number that decreases from an expression to its
parts: all that is needed to say that an expression is a finite tree
(`ExpressionsAssumption`).  `EdgesOf` and `Eligible` are recursive functions on that set, with the
branches of `_edges` and `evaluate` for each kind of node.

A text is a sequence of tokens [kind, value]; the tokenizer's regular expressions
are abstracted to the kinds.  A call of a method of `_Parser` is a pair: the list or item it
reads and the token it begins at.  `Parser` is a recursive function of the calls; `ParseOr`, `ParseAnd`,
`ParsePrimary`, `ParseItems` (the while loops) say what a method returns, given what its calls
return: the expression and the place where it stopped, or `Failed`, the exception.  `ReadGrade`
does what the code's search for a grade does: it finds the A of the word GRADE.
`CatalogGrammar` states the grammar of the documents beside it, over spans of tokens and without an order of
reading: a list may be cut at any separator, `Readings` is the set of all expressions a text can have.

`strict_cycles` is a recursive function over shared tables, so `CatalogGraph` models it with its
stack made explicit: `calls` holds the activations and how many neighbours each
has done, and `VisitRoot`, `VisitNeighbour`, `SkipNeighbour`, `Return` are the
places where it changes `indices`, `low` and `stack`.  Neighbours are taken in any order.
`Decide` is the end of `validate_catalog`: errors or an accepted document.  Every step of the
compilation is a step of `GraphSpec`, the search of an arbitrary graph.

### Planner, PlannerReadings, DegreeAudit, SectionSearch, Advising

The rules are stated three times, as in the code: `Feasible` are the constraints
of `solver.py` (a co-requisite is constrained only if it is listed earlier, credits
are compared in thousandths), `Valid` is `validator.py` (with its rounding and its
own view of what groups may share), and `Checked`/`OracleScore` the bounded enumeration.  CP-SAT
is external: `SolveOptimal`, `SolveFeasible`, `SolveInfeasible`, `SolveUnknown` are all
answers its contract allows, `BlockRefused` an exception when a plan is blocked (the
code passes comparisons where the library documents literals).  A request that
meets a course without variables ends in phase "failed", the KeyError.

Prerequisites are read twice as well: `Satisfied` is `_evaluate` of the validator,
`LiteralOf` the literal `_expr_bool` builds for the solver.  Both carry a flag that says
whether a reference stands below a co-requisite, so both are recursive functions of an
expression and that flag.  The validator records the reasons of a prerequisite that is not
satisfied rather than the verdict, so it lets an OR without items pass (`Unobjected`): it is
not satisfied, and there is no reason to record.

The terms of a request are records with the index the client chose.  The validator and the
fallback use these indices; the solver's variables run from 0 to the number of terms
(`Solutions`), whatever the indices are.  A requirement group is known by its place, so the
groups of a request are distinct; two groups with one id would share their flags in
`solver.py` and are not modelled.  A course is offered in terms other than 0.

`Audit` is the greedy loop over groups as a fold.  `Search` is the backtracking of
`choose_sections` with the same order of courses and options: a recursive function of the
sections selected so far (`Prefixes`).  `Advising` composes
them: the last plan is audited, or goes to the section search with the offers of
a query.  `SectionsAssumption` is what the schema promises of sections: ids are unique for a
course and term, and a meeting with both times ends after it starts (`db/models.py:131`, `146-147`);
the endpoint does not repeat these checks on what a client sends.
`audit_degree` has no caller among the endpoints; what it is given here
is what its parameters ask for.

### RateLimiter, Contributions

`RateLimiter` splits `consume` where the code does, before the lock: `ReadClock`
takes the time, `Consume` the lock.  Tokens are counted in parts so that no fraction is
needed.  `admitted` and `regress` are history: what was granted, and by how much a late
reading ever set a bucket's time back.

In `Contributions` a thread takes a request (`Arrive`) and goes through the steps
between which others may commit: limiter, idempotency key, policy, insert; read
and write of votes, reports and registrations; one page after another.  Unique keys
are checked in the write.  A transition is one step (`Move`), since `Reviews` and
`ReviewTransactions` are about its inside.  A page of reviews is any sequence that ORDER BY
and LIMIT allow (`Pages`); the order is total, so there is exactly one.  `begun` records what was there when a
request arrived, so that "overlapped" can be said in a property; the `steady` reviews of a reader are
those that have been public since it began.  `Accounts`, `Slots` (a course and term, of which only
those `Offered` are stored), `Keys` (the empty one among them) and `Addresses` are sets of
names, a scenario is a table that satisfies the unique constraints and the requests that will
arrive.  A body is right, against the rules of `ReviewInput`, or malformed, so that a
conversion raises.  The lengths of strings, which PostgreSQL limits (`String(80)` of an
idempotency key) and the endpoint does not check, are not modelled.

### Startup

A process looks for the ledger, creates it, and for each version checks, inspects,
applies and records.  `transactional` says whether the database takes schema changes
back (PostgreSQL) or keeps them (SQLite); both are initial states.  The first migration
creates several objects: the table of the tasks with its index, and the tables before it,
for which one object stands.  On PostgreSQL they appear with the commit, on SQLite one
statement after the other, so that another process or a crash may come in between.  An index is created
after its table and not looked for: one whose statement a crash has kept from running is never
created.  A process that
loses a race dies and is started again.  The import inspects the file, reads which rows are
missing and commits them all or none.

## 3. Runs

| Run | Instance | Checks |
| --- | --- | --- |
| `queue_two` | 2 workers, 1 task, 2 faults | types, one lease per token, cancelled tasks stay down, the state diagram but for two races, no race without a fault, every task ends |
| `queue_stale` | same | **fails**: a stale worker cannot finish a task |
| `review_tx` | 2 requests, on the same of 2 reviews or not, one shared aggregate, 2 revisions, 4 different decisions | public content is approved; only a stale commit leaves the atomic workflow, spoils an aggregate or leaves a newer revision behind a published one |
| `repair` | 2 requests racing on 1 review, 1 repair | no lost edit, a repair restores what nobody changed meanwhile |
| `outbox` | 2 workers, 1 projector, 3 events, batches of 2, 2 faults | duplicates need faults, nothing processed for nothing, every event is processed |
| `catalog` | 3 snapshots, 2 activations that overlap in every way | an activation nobody overtook leaves one active snapshot; only overtaken commits leave the active pointer |
| `compile` | all texts of up to 3 tokens of 12 kinds and of 5 of 6 kinds, all graphs of 3 courses out of 13 texts | parser against grammar, cycles against reachability, accepted catalogs have an order, eligibility |
| `grade_as_written` | same | **fails**: the grade that is written is the grade that is required |
| `advising` | 3 courses, 1 or 2 terms with and without gaps, 899 requests in nine families, 2 alternatives, fallback limit 12, 280 section queries for each of two plans | plans are legal and differ, claims of optimality and infeasibility are true, the fallback and the prechecks claim nothing wrong, two readings of a prerequisite agree, audit and section search against their definitions |
| `planner_gap` | the requests whose terms are 1 and 3, or 2 alone | **fails**: infeasible means that there is no plan |
| `contributions` | 2 threads, up to 5 requests in 196 scenarios, pages of 2, a bucket of 2 requests | the limiter, one review for one key, idempotent retries, explained errors, votes and reports of record, complete paging |
| `startup` | 3 processes (2 of them imports), 1 crash, 3 imports, files of 2 rows | the ledger is true, everyone starts, imports are whole |

Why the bounds are enough.  Workers are symmetric and races in this code are
between two processes on one row, so two of them and one contended row meet every
interleaving; the second review is there for what reviews share, an aggregate.  A second
task would be there for the locks of a claim: with two workers and two tasks the safety
properties hold, too (755 thousand states with one fault), but liveness takes too
long there, and the proofs cover any number of tasks.
The proofs below remove the bound where it
matters most.  Two faults let a crash follow an overrun lease or a second crash
follow the recovery from the first.  Two revisions and four different decisions let an approved revision be replaced, hidden
and shown again; `InBounds` stops a history at the stale commit that makes an aggregate wrong, since the
properties ask what comes before it, and `MaxDecisions` after four decisions; the step that leaves
the bounds is still checked.  Three events and batches of two
leave a batch that is not everything.  `MaxDrift` stops sums that are already
wrong from growing without end: it restricts only histories that have violated
consistency before.  Three courses make components of one, two and three nodes and
chains between them; five tokens nest a parenthesis once inside a list.  Three courses
in two terms let a prerequisite, a co-requisite and a shared requirement group each
involve a pair with one course to spare, and two terms are the fewest with a gap between them; 12 of 27 assignments are enough to find a
plan and too few to see all.  Two threads suffice for a race between a check and a
write; the third and fourth requests come before or after it.  Three processes let
one migrate while another has lost a race and a third starts.

Deadlock is checked everywhere but in `outbox`, `catalog`, `compile`, `advising`,
`planner_gap`, `contributions` and `startup`, where nothing is left to do once everything is
processed, archived, answered or started.

Fairness.  The worker is a command (`make worker`) that calls `run_once` as often as
its `--iterations` say and exits.  The liveness properties assume what the operations
guide does, that it is started again and again: in `TaskQueue` the
database steps of each worker are weakly fair.  A handler is assumed to
return: strongly fair, because heartbeats interrupt the possibility of finishing
again and again.  Time passes: a lease nobody renews lapses.  In `outbox`
calls of `process_events` and the steps of an open transaction are weakly fair; no
module of the repository calls it yet, so the caller is assumed.  In `startup` a
process that can go on does, and one that has died is started again
by whoever runs it.
Faults and cancellations are never fair, and their number is bounded: a task
whose worker always crashes never ends, and no document says it would.  A task that is
cancelled while queued matches neither the claim's filter nor recovery's and stays
queued for ever; `EveryTaskEnds` therefore exempts cancelled tasks.

### What the failing runs show

`queue_stale`: `docs/operations.md:11` says that a stale worker cannot finish a task because
writes require its owner and fencing token.  `finish` compares them with the copy its session
loaded before the handler ran, and the row is written by primary key.  A handler that
outlives its lease records its outcome although the task was requeued or claimed again.

`planner_gap`: `docs/planner-model.md:7` says that `infeasible` means the model proved no
solution.  `TermSpec` accepts any index from 1 (`planning/model.py`), the validator uses
the indices as they are, but the variables of the solver end at the number of terms
(`planning/solver.py:129`).  With the terms 1 and 3 a course that is pinned to term 3 makes the
model infeasible, while `validate_plan` accepts the plan.

`grade_as_written`: `docs/catalog-schema.md:25` lists `GRADE>=B` after a course.  The parser searches
`[A-Fa-f][+-]?` in the token's whole text, which begins with "GRADE", so the
first match is the A of that word: every grade requirement asks for an A.

### Races the code leaves open

Three components do not keep what their documents say when requests race.  Instead of assuming
the races away, their runs and theorems say exactly how far the statement goes.

* **Queue.**  Beside the stale outcome above, recovery reads expired rows without a lock and
  writes them back: a task that ended meanwhile is requeued.  `LifecycleUnlessStale`: every
  other step is one of the documented diagram.  `StaleNeedsFault`: neither race happens
  until a worker has crashed or a lease was outlived.
* **Reviews.**  Two decisions that read the same copy each apply their delta, so an
  aggregate counts a revision twice, although ADR 0002 promises one exact delta; two that both
  subtract drive the count below zero, and the second fails with the assertion of
  `reviews/stats.py:57`.  An edit commits `submitted` over a `hidden` that was decided meanwhile,
  and in the reverse race a published review keeps a newer revision that no queue lists.
  `SerialisableUnlessStale`, `DriftNeedsStaleCommit` and `OverlookedNeedsStaleCommit`: all of
  this takes a commit on a stale copy; requests that see each other's commits, interleaved
  as they may be, act as one after the other.  `NoLostEdit` and
  `PublicContentApproved` hold in all races.
* **Catalog.**  `docs/architecture.md:49` says that activation locks the active pointer.
  There is no such row: an activation locks the snapshots that were active when its
  statement started (`catalog/service.py:151`), so two of them may both commit and leave two
  active snapshots, and one that re-activates the active snapshot beside another may leave none.
  `ActivationExact`: an activation nobody overtook leaves exactly its snapshot active, even after
  such a race.  `PointerUnlessOvertaken`: only an overtaken commit is not a step of one pointer that
  never goes back.

### Further disagreements between code and documents

Each was found while modelling and can be repeated by a small change to a configuration.

* A published review whose later edit is rejected keeps its approved revision
  public (`reviews/query.py` shows rejected reviews with an approved revision), although
  `docs/review-publication.md:3` and ADR 0002 say rejected reviews are not public.
* The moderation queue lists submitted reviews only (`reviews/moderation.py:44`): the newer
  revision of a rejected or a hidden review, which an edit leaves in its status, is in no queue.
* A repair that runs beside one publication, even with all requests on different
  reviews, writes its older scan over the publication's delta.
* The HTTP repair endpoint (`web/app.py:364`) records no audit event although
  `docs/api.md` says it does.
* An outbox worker whose claim ran out completes an event that another has
  claimed since; the table has no token, `docs/architecture.md` mentions one.
* A request without courses is answered "optimal" even when a requirement group is not met:
  an empty assignment is not validated (`solver.py:232`, `if assignment`), although
  `docs/planner-model.md` says that every candidate is checked independently.  `AnswersAreLegal`
  speaks of requests with courses.
* The validator counts the credits of a completed course that a plan takes again, the solver
  does not (`validator.py:43`, `solver.py:84`).  `ClaimsAreTrue` and `SameReading` are therefore about
  plans that take no completed course again (`Fresh`).
* An OR without items, which `catalog/ast.py:77` accepts, is never satisfied for the solver and
  never reported by the validator (`validator.py:85`).  `ReadingsAgree` says that the two differ in
  nothing else; `Legal` takes the verdict, not the reasons.
* The objective of the fallback for a balanced workload looks at the terms 1 to `len(terms)` only
  (`oracle.py:24`): the load of a term with a higher index does not count.
* The solver answers `invalid_model` when a prerequisite is listed after the course that needs it
  (`solver.py:54`), and raises KeyError for a credit requirement of any
  course but the last (`solver.py:87`), although the request has a plan.
* The audit calls a group "satisfied" although a planned course fills part of
  it (`audit.py:66`); `docs/planner-model.md` calls future courses pending.
* The warning about missing meeting times looks at the flag `known` only
  (`scheduler.py:37`): a known meeting without times is neither
  compared nor mentioned.
* Any blocked time makes the section search fail with an AttributeError
  (`scheduler.py:95`) as soon as a section gets that far.
* Credits of groups that may share courses are added up in `prechecks.py:28`, so
  that a request with a plan can be reported as exceeding its capacity.
* A review in the place of a rejected one passes the policy and then violates the
  unique key; a rating that is no number, an unknown course or term, and an empty
  `Idempotency-Key` that is stored already end in the handler for internal errors, too.
  `ErrorsExplained` names these cases and says that only an overlapping request adds to them.
* Two reports of one account that overlap are both stored, although `docs/api.md` calls a report
  idempotent (`QueueCountsReporters` says that nothing else makes the count too high).

## 4. Proofs

TLAPS checks the eight `*Proofs` modules (`TaskQueue`, `Reviews`, `Outbox`, `Prerequisite`,
`Catalog`, `Planner`, `Contributions`, `Startup`) for every value of the
constants.  What they assume of the constants is stated in the modules: workers do
not include None, tasks are numbered, sets of reviews are finite, every review has a group,
bounds are natural numbers, importers are processes, scenarios are tables and requests of the
declared shape, expressions are finite trees, a text is a finite sequence, a parsed text is an expression, courses are
numbered, terms have positive indices in any order and with any gaps, sections are finite sets with unique
ids.  No theorem assumes that workers, operators or requests take turns.

**Queue.**  `Typing`: `TypeOK` is not inductive by itself, since a worker's step
uses `row[held[w].task]`; with `HoldsTask` (a worker in the part of the loop
that uses its lease has one) it is.  `LeasesAreExclusive` adds one fact: only
`ClaimCommit` makes a lease, and it makes one with a token above everything in
flight (`OnlyClaimsLease`, `LeaseExclusiveNext`).  `RunningRowsRecoverable` holds
because every write of a running status also writes owner and lease, and every
write that clears them also writes another status.  `CancelledStays` needs
`LockedNotCancelled`: the row locks of a claim keep the flag out from its
SELECT to its commit.

`LifecycleButForRaces` is the refinement of the diagram.  A step of a row is a step of the
diagram or a stutter as long as the row is what the worker knows of it: `CopiesTrue` says what a copy and a
lease still tell about the row, `Locks` that a claim's rows are its own and still waiting.
What is left over are the two steps `StaleStep` names.  `NoRaceWithoutFault` shows that
they need a fault: until the first one (`Undisturbed`) every lease is live and its holder at work, so
recovery finds nothing and a claim finds queued tasks only.

**Reviews.**  `AggregatesConsistent` is an induction over decisions.
`AggregateConsistent` needs two companions: `TablesOK`, and `DraftUnpublished` (a
draft has no approved revision; the transition matrix would allow a way back to
draft, and a re-submitted draft would then become public behind the aggregates'
back, but no code path takes it).  The lemmas `SubtractDelta` and `AddDelta` say that
one delta is the difference of two full scans.  `TypesAndCounts` gives the types and that
no count is ever negative, so the assertion of `adjust_aggregate` never fires in
a serial history.  `PublicApproved` strengthens the property to all pointers, public
or not (`PointersApproved`).

**Review transactions and repairs.**  `TransactionsTyped` rests on `TxInv`.
`SessionsSound`: a request copied a row it may act on, and the row's revision and approval
have only moved forward since.  `LocksSound`: a request holds the lock of the aggregate it is
about to write and no other, and its draft is still what its decision makes of the stored
row.  `RepairInv` adds what a repair knows of the groups that are not `touched`: its scan is
still true, its copy is still the stored row.  The commit of a repair is a writer that respects the
locks (`OtherWriter`), so `TxInv` survives it.  From both, with no
assumption about how requests race, follow `EditsSurvive` (two edits take the same number from
their copies, the unique key lets one commit), `PublicApprovedInRaces` (the pointer moves
only to a revision with a decision, even in races that break the aggregates) and
`RepairsRestore`.

`TransactionsSerialise` shows that each commit that is not a `StaleCommit` is the atomic request of
`Reviews`, and every other step a stutter: its copy equals the row (`FreshCopy`), and by
`LocksSound` its draft is still what its decision makes of the stored aggregate
(`DecisionRefines`).  The guards that the atomic request has besides, a count above zero and a draft
never published, hold in every interleaving (`SaneInv`).  With the induction of `Reviews` follow
`DriftHasCause` and `OverlookedHasCause`: aggregates that equal the scan keep equal to
it, and no published review is left beside a newer revision, until a commit is stale.

**Outbox.**  `OutboxTyped` is inductive as it stands.
`NothingProcessedForNothing` needs `Ready`: an owner that is past its handler works on an
event the handler took effect for, and a projector has at most one event in hand.  Steps
that touch neither batches nor effects are treated together (`QuietStep`).
`EffectsPaidByFaults` is an accounting (`Paid`): the effects an event has had, plus the owners that
may still apply it, plus one if somebody can still claim it, never exceed one plus the faults.
`Settles` lists what a step may do to the account: lower it, move an amount from one
entry to another, or raise it by one with a fault.

**Catalog.**  `CatalogInv` adds to the types that an activation which nobody overtook
still knows the table (`Fresh`): its copy equals the row, and once it has selected, it
knows every other active snapshot, because statuses change only with a commit, and a commit
overtakes all others in flight.  So its commit archives all other active snapshots (`FreshCommit`): from
this follow `ActivationsExact` and, where at most one snapshot is active, that the commit maps to
`Activate` of the pointer and every other step to a stutter (`PointerStep`,
`PointerButForRaces`).

**Prerequisites.**  `PrerequisiteProofs` is what the proofs about expressions share.  A
recursive function `f[x \in S] == ...` is a CHOOSE, and says nothing until a function that
satisfies its equation is known to exist.  `RecursionExists` shows that one does when a value depends only on
the values at smaller depth (`Local`): such functions exist up to each depth and agree where
both are defined.  `ExpressionInduction` is induction over the parts.  Both rest on the
least-number principle (`LeastNat`), since the library's induction theorems take an operator
and cannot be used here.  `EligibleFollows` applies them to `evaluate`.

**Cycle search.**  `GraphInvariant` is the invariant of Tarjan's algorithm: stack and call stack
are in the order of their indices, each node on the stack reaches an activation that is open,
each activation reaches the next, a low link is the index of a node on the stack that is
reached, no edge leads out of what is finished, and the reports so far are
the finished components with a cycle.  `SearchKeepsOrder` proves it of every finite graph.
`CompileSearchesGraph` is a refinement: a compilation is a behaviour of the search, whose edges are
arbitrary.  So the results carry over: `CyclesFound` (the reports are the strongly
connected components with a cycle, each once, rightly judged) and `AcceptedIsTeachable`: from
an order of terms every cycle has only co-requisites, and conversely the number of
courses from which a course is reached is such an order.

**Parser.**  `ParserIsGrammar` compares the parser with the grammar for texts of any length.  Both
are recursive functions, of calls and of spans, so that they satisfy their equations has to be shown
first (`ParserFollows`, `GrammarFollows`): calls are ordered by the tokens that are left and then
by their level (`CallSize`), spans by their length and level (`SpanSize`).  That a call makes only
smaller calls holds because a call that succeeds takes a token (`Moves`), which is proved
along with it; it is also why the parser ends.  Then two inductions: `ParserSound`, what a call returns is a reading of
the tokens it took; and `ParserComplete`, what a span can be read as is what the call
returns, if the token behind the span cannot go on with it (`Stops`).  From the second follows that no text
has two readings: the grammar is unambiguous, though it may be cut anywhere.

**Eligibility.**  `EligibilityIsExact` compares the three-valued `evaluate` with two-valued
truth at every depth.  By induction over the parts an answer is "satisfied" exactly
when the expression is true with what is verified, and "unsatisfied" exactly when it is false with
everything granted; the rest is unknown.  `HoldsMonotone` says that granting more never makes
less true: the language has no negation.

**Planner.**  The invariant of the loop over alternatives (`PlannerInv`) is that exactly the plans
given so far are blocked while the solver runs.  `BothMakeLegal` and `LegalIsFeasible` are
the two halves of the contract: an assignment that satisfies constraints and validator is
legal, whatever each of them alone lets through, and no constraint excludes a legal
plan.  From the first follows `PlansAreLegal`, from the second `ClaimsAreProved`.
`ClaimsAreProved` is about plans that take no completed course again and lie within
`Solutions`, for terms with any indices.
`LegalIsFeasible` needs the solver to read prerequisites as the validator evaluates them
(`LiteralPrepares`): the two recursions have one shape (`ReadFrom`) and the same leaves.  The
leaves that need an argument are credits: whole credits
rounded down against a comparison in thousandths.  `ReadingsAreOne` adds that a
prerequisite without an OR that lacks items is satisfied when the validator has no reason to object
(`SilenceSatisfies`).  `FallbackIsHonest` says of the enumeration that a
bound it did not reach cut off nothing.  `RefusalsAreRight` is about
requests whose groups do not share courses; where they do, a refusal can be wrong.  It is a double counting: what the
groups need comes from courses that are counted once, these are among the courses taken, and those
are spread over the terms.  Sums over finite sets are folds of the community modules; `SumStep`
and its corollaries say what the proofs need of them.

**Audit.**  `AuditsAreSound` follows the fold group by group: the courses used so far are
those of the rows so far, and no course is in two rows that may not share it.  Where no group
shares courses, a group that the validator accepted finds as many courses as it needs: the
courses earlier groups used are not eligible for it, since the validator allocated once.

**Section search.**  `SearchesAreExact` covers `Sorted` (the sorted sequence lists every element once,
smaller ones first), the existence of the recursive search on prefixes, and an induction over the number of courses left:
from any selection without conflicts the search finds a full one if there is one, and takes a
section with unknown times only where no other option of that course leads to a full selection.
`AdvisingAudits` shows that scheduling and auditing leave the planner alone, so that
the theorems about `Planner` and `AuditedPlans` hold in `Advising`.

**Rate limiter.**  `LimiterTyped`, `RateIsBound` and `WaitSuffices` share one
invariant (`LimiterInv`).  Its core is an accounting: what was granted plus what is in the
bucket never exceeds a full bucket and the refill up to the bucket's own time
plus every stretch by which that time was set back.  Products of constants and
times are beyond linear arithmetic, so `RateProduct` states what is needed of them.

**Startup.**  `MigrationSafe` needs more than `LedgerIsTrue`: a process between its
inspection and its commit knows what is missing, and objects that exist never
disappear (`MigrationInv`); it holds for schema changes that come with the commit and for those that come
one statement after the other.
`ImportsKeepPlaces` proves `OnePerPlace`, one part of `ImportWhole`; it is inductive by itself.
`ImportIsWhole` proves all of it.  `ImportInv` ties the legacy author to the rows: while the
author is missing no row of the file is stored, once it is there all rows are that no
client's key hides (`OriginTells`), and an import that has read which rows are missing
found all or none (`Inserting`).  The second of two imports that both found all meets the
unique name of the author, which is why a half file never commits.

**Contributions.**  The requests and the tables are arbitrary (`ContributionsAssumption`).  `Sched` is the life
of a request: pending, with one thread, or answered, and never two of them.  Each kind of
request adds what its thread still relies on after reading (`CreateClaims`, `VoteClaims`,
`ReportClaims`, `RegisterClaims`, `Reads`), each of the form: what I looked for and did not find was not there
when I arrived, so if it is there now it came during my request.  `Divided` shows once and
for all that the steps of one kind leave the claims of the other kinds alone.  From
`ContributionsSafe` follow `SameReviewAlways` (who was told which review, also when requests
overlap), `RetriesAgree`, `ErrorsHaveCauses`, `LastVoteIsStored` and `QueueCountsAccounts`.
For votes an order is needed: requests that arrive see all answers before them (`Arrivals`), so among the
votes that overlap one stands that none followed (`Ruling`), whichever stale copy was written last.
`PagesAreComplete` keeps for each reader (`Reads`) that its items are strictly in order and not behind its
cursor, and that what has stayed public is among them or behind it; that the last page has all
that is left is an injection between finite sets of one size.  `RequestsAreLimited` shows that
every behaviour of the application is one of `RateLimiter`, so `RateIsBound` and
`WaitSuffices` hold inside it (`ContributionsLimited`).

**Only model-checked.**  Liveness (`EveryTaskEnds`, `EveryEventProcessed`, `EveryoneStarts`), which
is outside the prover's reach.  `StaleWriteFenced`, `GapsAreSeen` and `GradeAsWritten`, which fail.  That a page exists for
every set of reviews (`Pages` is never empty); TLC evaluates it.

## 5. Not modelled

* Formatting, HTTP routing, JSON contracts, cookies, logging, metrics, settings, most of the
  command line and the browser client: they keep no state that a property here is about.
* CP-SAT, PostgreSQL and SQLAlchemy themselves.  Of the database the models use
  what the code relies on: READ COMMITTED, row locks, `SKIP LOCKED`, unique keys,
  writes of changed columns by primary key.
* SQLite, which the tests use, except in `Startup`: it serialises writers, so it shows fewer
  interleavings than the models.
* Payloads, ratings and texts, as said above; the regular expressions of the
  tokenizer.
* Floating-point statistics and ranking (`reviews/stats.py` beyond the
  aggregates, `reviews/ranking.py`): reads whose properties are numerical.
* The search for a minimal explanation of infeasibility
  (`planning/diagnostics.py`), the comparison of tradeoffs
  (`planning/alternatives.py`), `dependency_path` of the graph, adapters, schema and impact of catalogs (pure
  conversions and comparisons), health checks and calendar export.
* Functions without a caller in the program: appeals, `forget` of the rate limiter.

## 6. What could follow

A model of the two writers of one aggregate, repair and decision, with the lock that would keep
them apart; the queue with a token checked in the WHERE of the write, the workflow and the
activation with locked reads, for which the properties of section 3 would hold without
their exceptions.
