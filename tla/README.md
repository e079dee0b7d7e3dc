# Feedback Intelligence in TLA+

Models, model checks and proofs for Feedback Intelligence: the queues, leases and
projections in PostgreSQL and ClickHouse, the commands and credentials of the
workbench, the files of an evaluation, and the calculations in between, from the
import of a row over redaction, decisions and routing to trends and scores. File and
line references are to the repository.

## The system

| Part | State it keeps | Operations | What is hard about it |
|---|---|---|---|
| **Ingestion** (`StorageRepository.enqueue_record`, .NET `EnqueueAsync`) | `feedback_records`, restricted text, `processing_jobs` | store a record and a job, both idempotent | repeated and conflicting requests |
| **Decision worker** (`service.drain_once`) | a claimed job and a claimed event in memory | claim, decide, commit or fail; claim, project, acknowledge or fail | several workers, crashes, lapsed leases, exceptions after a commit, ClickHouse answers that are lost |
| **Operational queues** (migration 004, `storage/repository.py`) | `processing_jobs`, `decision_runs`, `decision_answers`, `outbox_events`, `projection_ledger` | polls with reaping, fenced updates | attempt limits, `SKIP LOCKED`, a row must end exactly once |
| **Workbench runs** (`workbench/repository.py`) | `datasets`, `records`, `runs`, `jobs`, `results`, `outbox` of migration 006 | create (with sample reuse), cancel, resume, mark for deletion, claim, finish, purge | the owner stops, resumes and deletes while a loop classifies |
| **Workbench projection and purge** (`project_and_purge`) | lease of a batch, the loop's position | scan, busy check, erase in ClickHouse, purge; claim, insert, settle | two databases without a common transaction, requests that outlive their client |
| **Upload cache** (`workbench/server.py`) | `UPLOADS`, `UPLOAD_READERS`, `UPLOAD_REMOVED`, two semaphores | preview, validate, import, expire | threads, expiry while in use, admission |
| **Connections** (`Connections.cs`) | encrypted profiles, sign-in attempts, one gate | API key, sign-in, renewal, hand-out, removal | one gate held across awaits of OpenAI, registration saved before the exchange, refresh tokens that are replaced by answers that can get lost |
| **Sessions** (`WorkbenchEndpoints.cs`) | in-memory sessions, rate limits | pair, check, end | expiry, concurrent removal |
| **Evaluation** (`evaluation/`) | the files of a dataset, a sample, labels, predictions | generate, sample, predict (resumed), check labels, score | commands cut short between two files, predictions of another sample or model |
| **Import and data providers** (`workbench/imports.py`, `data/providers`) | none; reports | parse, validate, load, profile | every row is a record or is counted, times without zone, duplicates, joins |
| **Privacy boundary** (`privacy/`) | none | redact, refuse payment data, allow telemetry | replacements see what the earlier ones left |
| **Decision engines, envelopes, policy router** (`decision/`, `policy/`, `workbench/openai.py`) | recordings | decide, validate, record, replay, route, read a streamed answer | overlapping phrases, borders of thresholds, streams that break off |
| **Workbench results** (`workbench/analysis.py`) | none | filter, facet, page, summarise, sample, compare | counts computed apart from the rows they count |
| **Trends and backtest** (`trends/`) | none; reports | detect, group alerts, match incidents, compare | half-open windows, days without data, exact sums |
| **Synthetic data** (`synthetic/`) | files | load a specification, generate, describe | borders of days and shares |
| **Dashboard API, web application** | state of a page | read-only queries | late answers |
| **Telemetry, migrations, scripts, contracts** | – | – | – |

How they interact. Ingestion and workers share tables; workers are the only
writers of decisions, events and the ledger, and the only clients that insert into
`signal_facts`. In the workbench the .NET API forwards commands to the Python
server, whose handler threads and whose one processing loop share the `workbench`
tables; the loop asks the .NET broker for credentials and is the only writer of
`workbench_classifications`. Everything that crosses PostgreSQL and ClickHouse is
an insert or deletion over HTTP that can fail with or without effect. Imports, the
privacy boundary, decisions and results are functions that these parts call; the
offline commands exchange files, and check each other's by checksum.

What makes each part correct: a job or event has one owner who can commit and ends
once, as done or with its attempts used up; a success, its decision and its event
appear together; the ledger and `published` are true of ClickHouse; a stopped or
deleted run takes no result; a record is classified once per run; a deleted dataset
leaves nothing behind in either database; an upload in use stays and an imported one
is not imported again later; a connection stays with one account, keeps the token the
provider accepts and is silent once removed; everything accepted ends; predictions
are of one model over one sample; and every calculation is what its definition says:
no row is lost without a word, no personal number survives the boundary, an answer has
one route, a count is that of its rows, an incident is found or missed exactly by the
protocol.

## Modules

| Module | Models | Notes |
|---|---|---|
| `LeasedRow` | one row of `processing_jobs` / `outbox_events` and the statements on it | no variables; instantiated twice |
| `OperationalPipeline` | ingestion, `drain_once`, both queues, ledger, ClickHouse facts | composes two `LeasedRow` instances |
| `PipelineContract` | what the pipeline promises | abstract, refined by `OperationalPipeline` |
| `OperationalPipelineProofs` | invariants and refinement, proved | |
| `WorkbenchRuns` | `workbench/repository.py` and the loop's claim/classify/finish | |
| `RunContract` | what the workbench promises of a run | abstract, refined by `WorkbenchRuns` |
| `WorkbenchRunsProofs` | invariants and refinement, proved | |
| `WorkbenchProjection` | `project_and_purge`, statement by statement | its environment is a coarse `WorkbenchRuns` |
| `WorkbenchProjectionProofs` | its safety properties, proved | |
| `UploadCache` | the caches and semaphores of `workbench/server.py` | |
| `UploadCacheProofs` | its safety properties, proved | |
| `Connections` | the vault, the sign-in attempts and the gate of `Connections.cs` | OpenAI is external |
| `ConnectionsProofs` | all its properties, proved | |
| `EvaluationRun` | the commands generate, sample and predict and the files between them | crashes anywhere |
| `EvaluationRunProofs` | its properties, proved | |
| `Trends`, `TrendBacktest` | `trends/detector.py`, `statistical.py`; `backtest.py`, `comparison.py` | operators |
| `Annotations`, `Scoring` | `evaluation/sample.py`, `annotations.py`; `scoring.py` | operators |
| `Imports` | `workbench/imports.py`, `import_process.py` | operators |
| `Providers` | `data/providers`, `models.py`, `support.py`, `profile.py` | uses `Imports` for local times |
| `Privacy` | `privacy/` | operators |
| `Decisions` | `decision/`, `policy/`, the stream of `workbench/openai.py` | operators |
| `Analysis` | `workbench/analysis.py` | operators, uses `Trends` |
| `Sampling` | `sample_records` of `workbench/analysis.py`, `runs/preview` | operators |
| `Synthetic` | `synthetic/spec.py`, `generator.py` | operators |
| `StudyChecks`, `RecordChecks`, `ProviderChecks` | inputs, reference definitions and properties of the operators | `CheckedInput` is the variable they share |
| `Optional` | a value that may be missing | shared by the operators |
| `OperatorProofs` | what their operators and those of `Sampling` and `Scoring` compute, for every input | starts with induction over sets, sums and folds |
| `CalculationProofs` | invariants of the calculations, proved | |
| `MC…` | instances for TLC | only constants, `MCCalculations` also joins the three modules above |

A step is one PostgreSQL transaction, one request to ClickHouse or an engine, or one
critical section under `UPLOAD_LOCK`. Processes interleave between steps, clocks pass
and processes die. Definitions that begin with a comment *Fault:* are no part of the
system: each is a plausible mistake in the definition after it and is used to see that
a property notices.

### State and code

*Rows.* A lease is `status`, `attempt`, `token` and one boolean for the clock column
that matters in that status (`elapsed` or `lapsed`: `leased_until` or `available_at` has
passed). A fresh UUID is the number of the attempt it is drawn for. That is enough
because tokens are only compared for equality within a row, and each claim draws one.

*`OperationalPipeline`.* `EnqueueRecord` is `enqueue_record` and `EnqueueAsync` (a
request with other contents raises and is no step). `ClaimJob` and `ClaimEvent` are one
poll each: they reap exhausted rows that are not locked and take one candidate.
`Decide` is everything from the schema check to the envelope, or an exception in it.
`PersistSuccess` commits or rolls back as a whole; after a commit it may still go to
`PersistFailure`, because telemetry runs in the same `try`. `Project` inserts (the
deduplication token makes a repetition invisible), skips an event without an eligible
answer, or fails with or without effect. `Crash` loses what is in memory.

*`WorkbenchRuns`.* One action per method. `Finish` has the three ways out of
`process_job`, and the checks under the locks of run and job. `Head` is the `ORDER BY
created_at … SKIP LOCKED LIMIT 1` of `claim`. `Disconnect` is the pause in
`WorkbenchEndpoints.cs`. `purge` is unguarded here but for the status. The outcome
"interrupted" of `Finish` is a `ProviderFailure` that pauses the run, also the refusal of
a credential.

*`WorkbenchProjection`.* `pc` is the statement the loop sends next. `inflight` has the
events of inserts whose client is gone; `Land` executes or forgets one of them.
`SlowServer` says whether ClickHouse may execute an insert after the client's 30-second
timeout.

*`UploadCache`.* `entry` says whether an identity is a key of `UPLOADS` and whether its
ten minutes are over. A handler is a slot of `COMMAND_SLOTS`.

*`Connections`.* A step goes from one await to the next: what a request does under
the gate before it calls OpenAI is one action (`Register`, `Reregister`, `BeginRenewal`,
`Disconnect`), the answer and what is done with it another (`Exchange`, `Renew`,
`RenewalRejected`, `Revoke`). `task[h].copy` is the profile it has read and will save
`with` changes. Between the two steps others may still start, expire and withdraw.
OpenAI is `grants`: each has an account, a client identity and a current refresh token.
A request that took effect may look like a failure; this also stands for an exception
between the answer and the end of `Save`. `Callback` takes its attempt out before it
waits for the gate. A crash leaves the files and empties the attempts. `HandOut` is
`Credential` without a renewal; `Models` calls `Credential` and writes nothing itself.

*`EvaluationRun`.* A file is named by the generations it was made from: `dataset` by one,
`sample` by the pair of the feedback and the provenance it read. That is what a checksum
tells apart. A step of a command replaces one file or appends one row, and between any two
the command may end. `output` keeps whether the last row lacks its line end and whether a
line cannot be read, since a later `--resume` appends to it.

*Calculations.* A function of the code is an operator on values; an exception that ends it
is `Nothing`, or FALSE where nothing else is returned. A floating-point number is an exact
fraction, percentage or thousandth. A text is a sequence of the tokens, phrases or cells
that the code reacts to, so the length of a phrase is not modelled but what is found in
what is. Random draws and hashes are inputs. In the `…Checks` modules a state is one input
(`CheckedInput`), the initial states are all inputs within the bounds, and each property
compares the operators with a reference definition written independently of the code
(a sum over subsets, a choice of the k-th smallest, a count by quantifiers) or with each
other.

## Runs

| Run | Question | Instance and why it is enough |
|---|---|---|
| `pipeline_safety` | invariants and the contract | 2 workers, 2 jobs of one record that may reach the same decision, one of them eligible, 2 attempts each: a stale and a current owner, a retry, a reap and a collision of decisions all occur (706 325 states) |
| `pipeline_liveness` | every accepted job and event is settled | 2 workers, 1 job, 3 attempts (11 712 states) |
| `runs_safety` | completion, deletion and the contract | 2 loops, 2 records of one dataset, 2 runs of which the second may reuse a sample of the first, 1 attempt (320 518 states) |
| `runs_retries` | one holder, results, the contract, and that active runs stop | 2 loops, 2 runs of one record, 2 attempts: a lapsed owner, a retry, a resumed older run ahead of a newer one (45 695 states) |
| `projection_safety` | erasure, projection; deletions finish, events leave the queue | 2 datasets with one event each, batches of 2, 2 attempts: batches across datasets, purge of one during projection of both (34 990 states) |
| `projection_last_attempt` | *finding 1* | 1 event, 2 attempts |
| `projection_slow_server` | *finding 2* | 2 attempts, `SlowServer` |
| `upload_safety` | bounds, counts, withdrawal, the parser slot | 3 handlers, 3 uploads, 2 slots (367 309 states) |
| `connections_safety` | gate, tokens, accounts, removal | 2 each of requests, connections, sign-ins, accounts, client identities, grants and refresh tokens: a sign-in of another account to a used connection, a replaced token that is presented again, a removal that queues behind a renewal (51 187 states up to symmetry) |
| `evaluation_run` | samples of one dataset, predictions of one run | 2 generations, 2 models, 3 records: a file of each generation side by side, a run resumed with another model or sample (119 259 states) |
| `calculations` | the operators against their references | all inputs within the bounds below (308 139 inputs) |
| `rules_unresolved` | *finding 3* | texts of up to 3 phrases |

What `calculations` shows, property by property:

- `TrendsAreSound`: the Beta probability is that of its definition; episodes are matched to
  the planted events as the protocol says; the events of a report are those that precision
  and recall count, an alert is a rise over adjacent windows, no report beats itself.
- `SamplesAreBalanced`: a sample has its size and every stratum its minimum, splits and
  second passes get their shares; the sample of a user's run takes evenly from its buckets.
- `LabelsAreScorable`: a label with a reference answer passes the readiness check and the
  answer is that of all annotators or of the reviewer; what the scorer refuses of a ready
  label is named.
- `ScoresAreStandard`: what was asked for is scored, and no locked record without unlocking;
  a failed prediction gains nothing; kappa, calibration, thresholds and the area under the
  ROC curve have the properties that define them.
- `ResultsAreConsistent`: a facet counts what its filter selects; pages are the selection,
  each row once; summaries and trends add up; the rules of an accepted template fail for a
  text exactly when a topic without a priority is found in it, otherwise they name one that
  no found topic precedes, and the order of the topics does not matter; runs agree wholly
  exactly when they do not disagree.
- `ImportIsAccounted`: every row of an upload or a mapped CSV becomes a record or one counted
  refusal, and so does every row of the Olist tables or a file of records whose load does
  not raise; which loads raise is said exactly (see *Disagreements within passing runs*);
  ids stay unique; a local time is accepted when it is exactly one instant; nesting and
  limits are respected.
- `RedactionIsComplete`: one wrong digit is never overlooked; a text that leaves has nothing
  left that the boundary would replace, its counts are those of what was replaced.
- `DecisionsAreRouted`: an accepted policy gives every answer one route and a better answer
  no lower one; distributions add up; recordings give back what was recorded; a result is
  taken only from a stream that completed while the run was active.
- `GeneratedIsConsistent`: the records cover the days from first to last, an event has
  records on its days only, and manifest and provenance count the same.

Bounds. `MaxRuns` and the set `Uploads` are finite where the program has no limit;
`IdentityLeft` keeps a preview from starting when no identity is left. Attempt limits are
constants of the code, checked with smaller values. `Attempts` and `Grants` are drawn
once each, and `MaxVersion` bounds how often a refresh token is replaced. Nothing else is
cut off. In `Calculations.cfg`, `MaxShape` 3 bounds the parameters of the Beta
distributions; in `LastDay` 6 days two events can lie before, inside and after episodes;
`Ranks` 4 candidates fill and exhaust two strata; among `Rows` 3 scored rows there are
ties, failures and all classes; `SplitRows` 48 is the smallest sample in the proportion of
the targets 80 : 300 : 100; `MostRows` 3 rows have duplicates beside another one;
`MostTokens` 5 tokens open and close two levels; `MostPhrases` 3 phrases are combined in a
text, as the answers depend on pairs of lists; `TextPhrases` 2 phrases of a redacted text
are replaced in either order; the share of `SpecDays` 4 leaves a remainder.
Symmetry is used for workers and for the identities of `Connections`, which are only
compared for equality, and in no run of a liveness property.
No run switches deadlock checking off.

### Fairness

Only what the code's own loops justify; the comment above each `Fairness` has the
details. `service.run` and `worker` call again for as long as the process lives, and
compose restarts it (`restart: unless-stopped`), so steps of a loop are weakly fair and
clocks advance. Two places need strong fairness. In the pipeline, a poll that has
something to take or reap eventually does so: another worker's short transaction may
hide the row now and then, but not at every poll. In the projection, the loop does not
crash at the same statement every time, and the erasure is confirmed sometimes.
Each thread of the server ends its command: its steps are weakly fair, since
parsers have deadlines and critical sections do not block; nobody has to send a command.
Nothing is assumed of engines, providers, owners, or the success of an insert.
`RunsStop` promises a stop only while no dataset waits for its purge: the loop reaches
`claim` through `project_and_purge`, which raises as long as ClickHouse does not confirm
a deletion, so one dataset that cannot be erased holds up every classification.

## Findings

1. **An event whose last attempt is cut short is never closed**
   (`workbench/server.py:564`). The claim takes a lapsed lease only while `attempt<8`, the
   failure path is the only one that writes `dead`, and a crash has no failure path. The
   event stays `publishing`. `docs/workbench.md:107` says the tables "reuse the operational
   lease/outbox pattern", which since migration 004 reaps such rows. `EventsSettle`
   states what does hold. A deletion is not blocked by it (`DeletionCompletes`).
2. **The lease is given up while its write may still happen**
   (`workbench/server.py:598`). After a client timeout the event is `pending` at once; the
   purge finds the dataset not busy, erases and deletes; if ClickHouse then executes the
   insert, the fact is back for good. `docs/workbench.md:116` says that active leases
   "delay purge until in-flight work can no longer write". Without such a slow server the
   erasure is complete, which is proved.
3. **A text that says that an issue is unresolved is answered as resolved**
   (`decision/rules.py:236`). The resolved list is asked first and holds "solved"
   (`rules.py:195`), which is found inside "remains unresolved", a phrase of the list that
   is asked next (`rules.py:210`). `src/schemas/feedback-decision/1.0.0/manifest.json:139`
   says of the choice "unresolved": "The issue remains open, failed, missing, or explicitly
   unsolved."

### Disagreements within passing runs

Two more disagreements met while modelling are stated inside properties that pass: these
say exactly when the code fails, and promise the rest for all other inputs.

- **A load that ends instead of counting** (`ProvidedIsAccounted`, in
  `ImportIsAccounted`). `docs/data-sources.md:97` says that "invalid feedback rows are counted
  and reported rather than silently coerced". A row of an Olist table that is shorter
  than its header has cells without a value, and where such a cell is asked for its text the
  load ends with an exception; `OlistRaises` lists the cells. A line of a file of records
  whose number cannot be converted raises what the `except` of `synthetic.py:83` does not
  name. In both cases no report is written at all.
- **An accepted topic that fails in use** (`RulesAreStable`, in `ResultsAreConsistent`).
  `validate_template` checks `topic.get("priority", 0)` (`analysis.py:219`) and keeps the
  topic as it came, while `rule_classify` reads `topic["priority"]` (`analysis.py:249`). A
  template whose topic has no priority is accepted, and each text in which the topic is
  found is closed by `process_job` as `classification_failed`.

## Proofs

Checked by TLAPS for every value of the constants under the named assumptions
`PipelineAssumption`, `RunsAssumption`, `ProjectionAssumption`, `UploadAssumption` (which
includes that handlers are finitely many: they are slots of a semaphore),
`ConnectionsAssumption`, `CountAssumption`, `NamesAssumption`, `SpecAssumption`,
`RowsAssumption`, `TextAssumption` (types, positive limits, `None` is not a value) and `SampleAssumption`
(three positive split targets, as many rows as they are together: `SPLIT_TARGETS` and the
check of the size in `_select`).

**Pipeline.** The checked invariants are not inductive: nothing in them keeps a stale
worker from holding a token that is drawn later. `IInv` in `OperationalPipelineProofs`
adds the shape of rows (`LeasedRow!WellFormed`: exactly a leased row has a token, that of
its last attempt), that a busy worker's token is in `1..attempt` of its row, that two
workers that pass the fence of a row are the same, and what an acknowledging worker knows
of the facts. Lemmas about `Polled` and the other row operators are stated once; then
there is one lemma per action. From it follow `TypesAreCorrect`, `OwnersAreUnique`,
`DeathsAreExhaustion`, `SuccessesAreBacked`, `LedgerTellsTheTruth`.
`PipelineImplementsContract` is the refinement: under `IInv` each action maps to one step
of the contract or to a stutter. A poll maps to `GiveUpJobs` of the rows it reaps.

**Runs.** Again the properties do not keep a late owner apart from a later one. `IInv` in
`WorkbenchRunsProofs` adds that a running job's token is the number of its last attempt
(`JobInv`), that rows exist for runs that were created and go with their dataset
(`RunInv`), and that no loop holds a token above the attempts of its job (`LeaseInv`).
Attempts never fall, so a claim draws a token that no loop has held. Most transactions
rewrite the jobs of one run and set its status, and the lemma `RewriteKeeps` says once what
such a rewriting must keep. From it follow `HolderIsUnique`, `ResultsAreOfSuccesses`,
`CompletionIsSettled`, `DeletionStays` and `RunsAreTyped`. `RunsImplementContract` maps each
transaction, under `IInv`, to a step of `RunContract` on the stages of the runs (`Stage`),
or to a stutter.

**Uploads.** The admission check and the insert of a preview are two critical sections.
`IInv` in `UploadCacheProofs` says that only the handler with the parser slot is between
them (`ParserInv`), so there is still room at the insert (`RoomInv`); that a handler uses an
upload from the step that finds it to the step that returns it (`UsingInv`), and the counts
are the cardinalities of those sets (this needs that handlers are finitely many, and the
library's theorems on finite sets); and that an upload whose import was carried through is
marked or gone (`CommittedInv`). `CommittedStaysClosed` follows as an action property.

**Evaluation.** `IInv` in `EvaluationRunProofs` says that a sample being written has the
content that was fixed when both checksums matched, so the files of a sample agree whichever
of them a crash left behind; and that a prediction command works on rows 1 to k of one run
(`ProgressInv`), which is all that a resumption accepts.

**Projection.** `ProjectionInvariant` says: a batch is covered by live leases while its
insert is under way; the dataset being purged has no live lease; an insert left behind is
covered by a live lease (this needs `~SlowServer`). Hence nothing lands between the
erasure and the purge or afterwards: `ErasuresAreComplete`, assuming `~SlowServer`.
`PublicationsAreProjected` and `ProjectionTypes` need no such assumption.

**Connections.** The invariants come in layers, each proved from the ones below.
`Typed` adds to the types what a request has in hand at each step. `Gated` says that
exactly the request that awaits OpenAI holds the gate and that its copy has the account,
registration and refresh token that the vault has; no other request can have written in
between, which is what makes the later `Save` of a whole profile sound. `Consistent` then
relates tokens to grants: each token in the vault is of an issued grant with the account
and client identity of its connection, and is current unless an answer was lost. `Silent`,
`SignIns` (an attempt that was taken out is in at most one request or one grant, never
both) and `KeepsAccounts` give the remaining three. All six properties are proved, `AccountIsKept` as an action property.

**Calculations.** A behaviour of `Calculations.cfg` is one input that stays as it is
(`InputStays`), so an invariant is a statement about every input of its kind (`InputKind`).
TLC enumerates the inputs within the bounds; the proofs in `OperatorProofs` are about any
input, and `CalculationProofs` shows that the inputs of a run, for every value of its
bounds, are among them. Induction over lengths, which this needs, comes from three lemmas
in place of the library's schemes: a non-empty set of numbers has a least one (`NatLeast`,
from well-foundedness), a set of numbers that is closed under successors is everything
above its start (`SetInduction`), and the same for subsets of a finite set
(`SubsetInduction`). On them rest existence and recursion of the folds (`FoldExists`) and
what sums do when a term is taken out (`SumRemove`). Proved invariants: `LabelsScorable`,
`DecisionsRouted`, `RedactionsComplete`, `GeneratedConsistent`, `SamplesBalanced`,
`ResultsConsistent`, `ScoresStandard`. The facts behind them are theorems of their own, without assumption on
a constant:

- *Redaction*: one wrong digit of a card number or one wrong character of an IBAN is noticed
  whatever the length (`CardDigitsAreChecked`, `AccountDigitsAreChecked`: weights that are
  invertible modulo 10 and 97); `IdentityNumbersAreDates`; what the boundary lets through it
  would let through again, and its counts are those of what it replaced, for any text
  (`RedactionIsStable`). `RedactionsComplete` says it of the invariant, for texts of any
  number of phrases (`TextPhrases`) of the kinds of the inputs.
- *Decisions*: the answers of the rules are valid and agree with each other on any text
  (`RuleAnswersAreValid`, `RuleAnswersAgree`); fixtures replay the last recording
  (`FixtureReplays`); a stream gives a result only if it completed and nothing was lost
  (`StreamsThatSucceed`); probabilities become valid answers and distributions
  (`MappedChoices`, `MappedScores`, `ConfidentAnswersAreValid`); a policy that loads is
  monotone (`ActivePolicyRoutes`).
- *Samples*: `FirstRanked` takes the best ranked of a set, as many as asked or all
  (`RankedFirst`), so a selection keeps its size and the minima (`SelectionKeepsStrata`)
  and the second pass is filled (`SecondPassIsFilled`). The splits rest on the invariant
  `Fair` of the assignment, that no split's share passes the share another one had before
  its last row; from it follows the bound on any stretch of rows for any three targets
  (`SplitsKeepTheirShares`). The sample of a run rests on `RoundsAreFair`: after k rounds
  a bucket has given k rows unless it is empty or the sample full (`BucketsAreBalanced`).
- *Results*: a selection is a fold over the rows, so its length is the number of rows that
  match (`SelectionCounts`), which is what facets, days and rates count; its pages put
  together are the selection again, and none is empty but the only one of an empty selection
  (`PagesAreTheSelection`, by induction over the pages); sums over days partition the dated
  rows (`SummariesAddUp`). The rules fail exactly when a topic found has no priority and
  otherwise name the first by priority and id (`FoundTopicsAreRanked`), which makes them
  independent of the order of a template (`TemplatesAreStable`); a comparison is symmetric (`ComparisonIsSymmetric`).
- *Scores*: the rows of a run are a function of the row, so that a sum over them does not
  depend on their order and counts are cardinalities (`PartsAddUp`: the parts of a set add
  up to it, which makes supports, slices, bins and errors by kind complete). A failure is a
  row in no cell but the missed one of its class; the right answer moves it to the found
  ones, and shares and their sums grow with that (`SharesGrow`, `FractionSumAtMost`,
  `FailuresDoNotHelp`). The area under the ROC curve counts won and tied contests of a
  positive with a negative row: swapping the labels turns the won into the lost ones
  (`RocIsComplementary`), another order is a bijection (`RocIsOfAnyOrder`). Kappa is full
  exactly when every answer is right (`KappaIs`). Any values have one at
  every position of their order, the least that has enough of them up to it
  (`OrderedIs`), so that percentiles grow (`PercentilesGrow`), and answers without squared
  error are right (`WithoutErrorAllIsRight`). The only assumption is that the number of
  rows is natural (`RowsAssumption`).
- *Generator*: the days of the records are covered in order (`DaysAreCovered`), weights are
  shares of the draws (`WeightsAreShares`), and a record has what its specification allows,
  whatever is drawn (`RecordsFollowTheSpec`).

Only model-checked:

- all liveness (`EverythingSettles`, `RunsStop`, `DeletionCompletes`, `EventsSettle`,
  `ParserIsFreed`): TLAPS has no rules for `ENABLED` in use here;
- `TrendsAreSound`: that the Beta probability, a sum of binomials, is that of its definition
  is an identity of combinatorics, beyond the solvers;
- `ImportIsAccounted`: records and refusals of an import are taken out of the rows with
  `SelectSeq`, which the prover cannot unfold, and the nesting of JSON is compared with a
  definition over all parses.

## Limits of the models

- A poll takes any candidate, not the oldest: the order by `created_at` is left out of the
  pipeline. In `WorkbenchRuns` the order of runs is kept.
- ClickHouse's deduplication window and the merge of `ReplacingMergeTree` are taken to
  work: repeated inserts of one event are one fact.
- `Eligible` is a parameter. The event builder of today writes every eligibility as false
  (`storage/events.py:73`), so all its events are skipped; `drain_once` supports others.
- `EventClock` assumes that ClickHouse is done with a request before the 90-second lease
  of its events passes, whether its client waits or not.
- `WorkbenchProjection` has one loop, as the deployment (`compose.workbench.yaml`) and the
  comment at `workbench/server.py:579` say. With two, a claim could see a snapshot
  older than the deletion of a dataset while the other loop finds it not busy.
  `WorkbenchRuns` is checked with two, as `scripts/quality_workbench_storage.py` exercises.
- Two commands that read one upload at the same time can import it twice; the code does
  not prevent it and no document promises otherwise. `CommittedIsClosed` is about later
  commands.
- The check of `leased_until` in `finish` is modelled; the invariants would hold without it
  because the token alone fences.
- In `Connections` the order in which requests pass the gate is free, and waiting at it is
  no state of its own: a waiting request has read nothing, but for a callback. Whether a
  sign-in is granted, an identity valid or a catalog answered is free as well.
- A second removal of a connection finds no token and answers that its revocation is
  confirmed, whatever became of the first; likewise the grant of an earlier sign-in stays
  with OpenAI when the connection is signed in to again. The documents promise nothing
  about either, so no property does.
- The check of the run's status and its dataset that the broker makes before it hands out a
  credential, and the pause of runs that goes with a removal, are not part of `Connections`; the latter
  is `Disconnect` in `WorkbenchRuns`.
- A run that is created or resumed between the pause and the removal of its connection asks
  the broker, is answered 409 and paused by `finish`; `WorkbenchRuns` and `Connections` are
  not composed, so no property says so.
- Redaction is modelled for phrases that ordinary words keep apart. Numbers of fewer than 7
  or more than 15 digits that pass no check digit are kept by the code, and by the model.
- The missing dates of an import count rows that a later check refuses for their rating; a
  mapped CSV reports the rows it discovered also when a decoding error blocks it; the
  identity of a decision leaves out channel and language; a recording has one answer for
  each redacted text. The models do the same, and no document says otherwise.
- Readiness accepts a label that has only its second pass, and goes by the record and not by
  `label.requires_second_pass`; the scorer refuses both. `LabelsAreScorable` names the two
  cases and shows that there is no other.
- Times of a source that leave the calendar once they are in UTC (an `OverflowError` of
  `astimezone`) are not among the inputs.
- `IsPayment` refuses less than `redactor.py:51`: the patterns also find a CVV label in front
  of the first digits of a date or an address, and card numbers inside longer codes.
- `RowsOf` is the reading of a table. That a JSON file is an array (`JsonRows`) and the
  budget of 64 MiB for previews are checked apart from it.
- The words of a request are found inside longer words as well; `requests` in a lexicon is
  the set of words that hold one.
- A prediction run that ended inside a row and is resumed leaves an unreadable line, which
  the scorer refuses (`broken`). The scorer itself does not compare the predictions with the
  hash of the records.
- A failed response without an `error` object raises in `openai.classify`; `process_job`
  then records `classification_failed` and does not pause the run (`StreamStep`).
- A generator with a single product fails when a scenario draws a second one. The wording
  of its templates is left out, so an unknown placeholder, which makes
  `template.format` (`generator.py:132`) raise, is not among its failures. The
  `total_failure` branch of `rules.py` for physical damage cannot be reached.

## Not modelled

- **Sessions and pairing**: a set of random identities in memory, one pairing code and the
  rate limiter of the framework. No operation relates two sessions.
- **Dashboard API**: read-only queries and their serialization, without state.
- **Web application**: presentation. Its one hazard, a late answer in
  `use-model-catalog.ts:62`, stays on a page.
- **Telemetry export**: observes. What it may do to the worker (raise inside the `try`
  after a commit) is in `PersistSuccess` and `Acknowledge`; what may leave is in `Privacy`.
- **Migrations, bootstrap, scripts, contracts and schemas**: run once or outside the
  program; read as evidence of what it promises.
- **Transports of the hosted engines** (`llm.py`, `system_one.py`, `registry.py`): HTTP and
  prompts; the result they return passes the validation modelled in `Decisions`.
- **The bootstrap** of `scoring.py`: a statistic of random resamples, without an exact
  reference. (The area under the precision-recall curve is the operator `Auprc`; as it
  depends on the order of tied rows, only its value for a perfect ranking is checked.)
- **Compositions** of `WorkbenchRuns` with `WorkbenchProjection` and with `Connections`.
  The former is replaced by a coarse environment in `WorkbenchProjection` (events of ready
  datasets appear, jobs hold a dataset busy, deletions are requested), the latter by the
  outcome "interrupted" of `Finish`. Neither replacement is shown to be implemented.
