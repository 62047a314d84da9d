# Verification of bedrock_usage_insights

TLA+ models of the Python package `src/bedrock_usage_insights` (token-cost and usage
insights over Bedrock invocation logs), the TLC runs that check them, and theorems about
them that TLAPS checks. `PROJECT.json` lists components, runs, mutants, findings, hazards
and theorems, and maps every definition that models code to its lines.

## 1. The system

Bedrock's invocation logs reach an S3 data lake through CloudWatch Logs and Firehose; an
Athena view makes them queryable. The package reads a bounded part of the view for an
*analysis run*, normalizes rows to `InvocationRecord`s, passes previews of prompts and
responses through a privacy gate, extracts signals, classifies the usage, assesses prompts,
and may ask a model endpoint for extra features. Every stage is a library call: the
repository has no orchestrator, no persistence and no publisher, only the data models
(`AnalysisRun`, `AggregateInsightResult`, ...) they would exchange.

    logs --(Firehose)--> lake --> view --(AthenaSourceReader)--> rows --(normalizer)--> record
                                                                                          |
                                                            +-----------------------------+
                                                            |
          configuration --(ConfigurationSchemaOracle)--+    v
                                                       +--> privacy gate --> decision
                                                       |        |     |          |
                                                       |        v     v          v
                                                       |   extractor assessor model adapter
                                                       |        |                |
                                                       +--> classifier       endpoint
                                                                |
                                                    CanonicalSchemaOracle

| component (source) | state | operations | what is hard | what makes it correct |
|---|---|---|---|---|
| Athena source reader (`source_access.py`) | `_results_by_run`, the locals of `read()`; Athena's executions | `read`: admit, remember, plan, submit, poll, load | retries of what may have been done, late submissions, crashes, several processes on one run, midnight between plan and query, partial loads | at most one query per run; only complete rows of a succeeded query are published; processes agree; every requested day is accounted for; the approved scope is never left; every read returns |
| Scope planner (`source_access.py`) | none | `resolve_source_scope`, `build_source_query` | off-by-one days, missing dimensions | the plan splits the requested days; it never widens the approval |
| Availability window (`source_access.py`) | the clock | `six_months_through` | month ends, leap years | real dates, 181 to 184 days, never moves back |
| Privacy gate and redactor (`privacy.py`) | none | `authorize`, `redact` | a dozen denials in order, rules and bound in the right order | nothing excluded or unapproved gets past it |
| Signal extractor (`signals.py`) | none | `extract` | decision and configuration may be of different ages; metadata keys that are one when cut | a denied record yields no content-derived signal; direct signals are bounded and never malformed for a record the normalizer made |
| Prompt assessor (`prompt_assessment.py`) | none | `assess` | the same; settings nobody validated | denied content is not assessed; agrees with the extractor; dimensions do not touch each other, scores pass the oracle |
| Model adapter (`model_assistance.py`) | the locals of `extract_features()` | check, minimize, invoke with retries, validate | timeouts that were processed, shared length bound, untrusted answers | endpoints see only approved, redacted, bounded content; proposals are bounded advice |
| Classifier (`classification.py`) | none | `classify` | conflicts, precedence, equality at thresholds, repeated signals | monotonic in evidence and thresholds; rules settle conflicts and nothing else |
| Schema oracles (`oracle.py`) | none | `validate*` | two validators of one thing disagreeing | what they accept, the stages accept |
| Canonical models (`models.py`) | frozen records | serialization | - | they appear as record types in the modules |
| Normalizer (`normalization.py`) | none | `normalize` | aliases that shadow each other, nulls, values of any type, times without zone, declared format against model id against the absence of bodies | one bad column costs one field; no made-up values; no body is judged by another model's format; content needs both switches |
| Firehose data lake (`bedrock-firehose-data-lake.yaml`) | the objects of the lake, by date of arrival | delivery, the view | at-least-once delivery, late arrival after midnight or after the day was read, a view that cuts by time under a planner that cuts by date | a read of a day that is over is final; adjacent reads share no row and miss none; copies can be recognised |
| Logging stack, dashboard, legacy ETL, guard rules, CI, smoke tests | - | - | - | not modelled (section 8) |

The hazards the properties are for are listed in `PROJECT.json`, each at its line.

## 2. Modules and how they correspond to the code

Source access, from the bottom up; each module EXTENDS the one before it:

- **`SourceScope`** is the pure planner. Dates are integers, a scope is four filters and
  two dates. `Resolvable` is the conjunction of the refusals of `resolve_source_scope`,
  `ResolveSourceScope` its result, `BuildSourceQuery` what the rendered SQL selects (filters,
  days, content columns or not); the SQL text itself is abstracted.
- **`AthenaService`** (external) is Athena as the reader sees it: executions by client
  request token, submissions that arrive late, executions that end once.
- **`SourceReader`** is `AthenaSourceReader`. A step is a remote call together with all code up
  to the next one: `Enter` (the refusals, the memory, the disabled and the unavailable read,
  or a new query), `Submit`, `Poll`, `Load`, each answered, answered unusably, or raised
  (`RetryOrFinish` is `_call_with_retries`). `Finish` stores the result, failures included,
  as every exit of `read()` does. Several readers share Athena; `Crash` replaces a process by
  one with an empty memory and any constructor arguments; `NextDay` moves the UTC date.
- **`SourceReadContract`** is the abstract specification: per run at most one execution, which
  settles once; a reader publishes only from a succeeded one; an answer stays until the process
  dies. `SourceReader!Contract` is the refinement mapping.
- **`SourceWindow`** is separate: calendar dates with years, months and days, and the month
  arithmetic of the window. `SourceScope` takes the window as two day numbers.

From the lake to records:

- **`DataLake`** (external but for the stack's two decisions) is what the reader reads from:
  `Invoke`, `Deliver` (late by at most the day the subscription retries, repeated any number of
  times), `Tick`. `Partition` is the Firehose prefix (date of arrival), `InView` the view's
  WHERE clause (time of the event), `EventTime` its timestamp column.
- **`Normalizer`** is `InvocationRecordNormalizer.normalize` as operators, from `FirstPresent` (of
  the aliases of a field that are columns, `Here`, the first decides, `Deciding`, also when null)
  over one parser per kind of field to `SelectAdapter` and `Normalize`. A cell is the `str` it is,
  or `NotText`, and what it reads as: a number, a time with or without zone, an object, or a word
  nothing parses, blank texts (`BlankTexts`) among them; `IsCell` says what these promise of each
  other.
- **`DirectSignals`** is the part of `SignalExtractor` that needs no content, with the filtering,
  cutting and bounding of request metadata, and `CanonicalSchemaOracle.validate_invocation` with its
  demands on text (neither missing nor blank, `NonEmpty`) and time (`IsUtc`). A value that is no
  text is malformed, whatever the normalizer did before.
- **`UsageFeed`** composes the three with `SourceScope`: `Read(request)` plans with the window of
  the moment, selects from the view what the query selects, has the loader render the rows and
  normalizes them, while the lake goes on receiving. The loader is not in the repository: it is
  any of a set that renders times in UTC, in a zone of its own or without zone, and may spoil or
  add columns. `SourceReader` has the steps between planning and loading, here a read is one step.

The record path:

- **`ModelAssist`** is `ModelAssistedFeatureAdapter.extract_features`: `Refuse` or `Begin`, then
  `Answered` or `Raised` per invocation. `Refusal` gives the checks in the code's order.
  `received` remembers all an endpoint ever got, also from calls that timed out.
- **`PromptQuality`** is the arithmetic of the assessor: the scores of the five dimensions,
  evidence, bands, thresholds, and the oracle's demands on an assessment. What the regular
  expressions count in a prompt is a parameter (`Features`).
- **`ContentPath`** EXTENDS `ModelAssist` and composes it with the gate (`Authorize`), the
  extractor (`Extract`), the assessor (`Assess`, with `PromptQuality`), and a configuration and a
  clock that may change between any two steps. The caller that hands results from stage to stage
  is external: it is modelled from the way the tests compose them
  (`replace(decision.record, sensitive_content=decision.content)`).
- **`Classification`** is `classify()` as operators, with the two oracles around it. Its caller
  analyses one record again with other evidence or another configuration, so that properties
  about *two* results are action properties.

`MCSourceReader`, `MCUsageFeed`, `MCModelAssist`, `MCContentPath` and `MCClassification` hold the
instances for TLC. The `*_proofs` modules hold the theorems, `SourceReadRefinement_proofs` those
about the reader's memory and the contract. `Induction` holds what they need of induction: the
least-number principle of the library, stated for sets of naturals.

Abstractions: a text is a sequence of words with one space between two; other whitespace is a word
of its own, `Break`, which collapsing takes out, so what an endpoint is sent and what its answer
is compared with can differ. Lengths count words, no word is part of another, letter case is left
out, and the texts of less than four characters are a parameter (`Short`). In rows a text is one
value, blank or not. The redaction marker is two words, longer than what it replaces, so that the
order of redaction and bound shows; an exclusion rule is the word it matches, or no valid pattern;
the first signal of a name is usable or not; scores are fractions compared exactly (in
`PromptQuality`, whole units of 1/1200), where the code rounds floats; a diagnostic is its code
and field; year, month and day are one column; wording, logging, backoff times and metadata
without consequence are left out.

## 3. Runs

| run | what it asks | bounds |
|---|---|---|
| `two_processes` | Two processes serve one run, one of them may die: one execution per run, complete rows, agreement, accounted days, content only to approved readers, and the refinement of the contract | 2 readers, 1 query each, 1 crash, 2 tokens, 1 retry, 2 polls, 2 days |
| `one_process` | Every constructor configuration and every kind of request: only approved queries, true reports, final answers, and that every read returns | 2 runs, 2 queries, 3 tokens, 1 retry, 2 polls, 1 crash, 2 days, executions that scan |
| `calendar` | Month arithmetic against a reference definition, and the window, for each day | 2023 to 2029, two leap years |
| `model_adapter` | What endpoints receive, attempts, proposals, and that every call returns | 2 calls, 10 policies, 8 contents, 15 responses, at most 3 attempts |
| `classifier` | Monotonicity in evidence and thresholds, irrelevance of other signals, what disabling a definition may do, rules, agreement of oracles and classifier | every list of at most 3 signals over 3 names, 14 configurations, thresholds 0, 1/2, 1 |
| `content_path` | What leaves through the gate, what a denied record yields, agreement of the stages, switching analysis off, sound assessments, agreement with the configuration oracle | 8 kinds of record, 9 configurations that change at any time, 1 adapter call, 2 days (about 643,000 states) |
| `usage_feed` | Which copies a read finds and two reads find between them, at the window's edges too; that copies can be recognised; what a spoiled column costs; formats; usable records; where content gets in | 2 invocations, 2 copies, 4 requests of which 2 are read, 3 1/2 days of 2 ticks, a window 2 days back, 49 loaders (about 200,000 states) |
| `loader_flags`, `default_read`, `empty_requests`, `result_oracle`, `evidence_loss` | one finding each (section 6) | as above |

Why the bounds are enough. A retried call differs from a first one only by its counter, so one
retry shows loss, repetition and a late copy; two polls show one that is pending and one that is
the last. Two processes and one crash give every pair of histories on a token; a third process
would meet Athena in a state two can leave. Two days, and a window of three days against requests
of two to three days, make a plan change under a read, clip a request on its left and expire it. A
second token shows what a token that depended on the date would do. In `content_path` one record
at a time is what the code keeps: no stage remembers another. In `usage_feed` a day has two ticks,
so that an event, its arrival and a read can share a day or straddle midnight in either order; the
window of two days back against a clock that reaches the fourth day puts events on its first and
second day and beyond, with a day inside that no edge may touch;
two copies are two of one invocation or one of each of two; and the properties about two reads are
about pairs, which two reads of four kinds of request supply (adjacent, overlapping, with and
without content, of one account). Loaders that spoil columns are followed for one tick, those that
differ in zone for two, the sound one to the end (`until`): rows are normalized one by one, so
what a bad column does shows at the first row, and time matters to the selection of rows, which no
loader touches. The configurations of the classifier come in pairs that differ in one thing (a
threshold, the rules, one more rule, a disabled signal), which is what its action properties
compare. The proofs of section 5 hold for every bound.

Fairness. `one_process` assumes weak fairness of each reader's steps inside `read()`, and
`model_adapter` of the invocation: both are synchronous loops whose remote call returns or
raises (boto clients time out; the endpoint client is given `timeout_seconds`). Nothing is
assumed of Athena, which may leave a query running for ever, of the endpoint, of callers, or of
the clock. The remaining runs check safety only. Deadlock is not checked where the bounded
environment ends: callers stop calling, the clock stops at its last day.

Each property has a mutant in `PROJECT.json`: a plausible bug in one definition (a dropped
check, an off-by-one, a swapped order) under which TLC finds the property violated.

## 4. Assumptions

- Athena, given a token it has seen, returns its execution for an equal request and refuses a
  different one; an execution leaves its active states once (`AthenaService`).
- SHA-256 does not collide on the run ids in use (`TokenAssumption`).
- A result loader, which is not in the repository, returns every row when it reports no error
  for a succeeded query and an error otherwise; about its flags and which errors nothing is assumed.
  The scanned bytes it reports are none or Athena's (`LoaderAnswers`); the code takes any number
  (`source_access.py:407`), so `ReportIsTrue` says nothing of a loader that counts otherwise. The
  response to a submission carries no scanned bytes, though the code would take them
  (`source_access.py:350`): StartQueryExecution gives an id only. A loader renders rows the same way
  throughout (`UsageFeed`).
- The subscription delivers within a day or never (`Deliver`): its retries end after 24 hours.
- Cells are what their types say (`CellsAreSound`, `SoundCell`): a word is text, a number is an
  integer, a time has a local part and an offset or none, an object has finitely many keys in
  places of their own, which like its items may be no text, and a blank text reads as nothing.
  What a loader spoils is a cell too: it may be null, blank, of the wrong type or anything else,
  but it is a value of the kind it says it is.
- The empty text is short and a break is a word (`ModelAssistAssumption`).
- A redacted preview is text: what `Redact` makes of the previews of a record is among the contents
  the adapter may be given (`GateContents`); previews, bounds and days are of their types
  (`ContentPathAssumption`).
- Four theorems about `UsageFeed` and one about `ContentPath` name what they need beside the
  constants' types: no two invocations share a request id (`DuplicatesStayRecognisable`), `Family`
  gives families of the adapters only (`FormatsStayWithTheirModels`), loaders add no preview
  column (`ContentTakesBothSwitches`), a metadata key that is not blocked is not blocked when it
  is cut (`RecordsStayUsable`: stripping and cutting give a part of the key, and the blocklist is
  a search for parts; it also needs that a format in lower case is text and, like the theorem on
  formats, what `Family` gives), and what the regular expressions count is a natural number
  (`AssessmentsStaySound`).
- The sentinels (`NoCall`, `NoResult`, ...) are none of the values they stand beside.

## 5. Theorems

All are proved for every value of the constants under the named assumptions.

- **Planner** (`SourceReader_proofs`): for every bounded request and window, queried and
  unavailable days split the requested ones (`PlanPartitionsRequest`), and a resolvable
  request's plan stays within the approval (`PlanStaysApproved`).
- **Window** (`SourceWindow_proofs`): going back a number of months keeps the order of dates
  (`MonthsBackKeepsOrder`), hence the window never moves back (`WindowAdvances`); it agrees with
  the reference definition (`MonthsBackIsTheLastDay`); and it spans 181 to 184 days
  (`WindowLengthIsBounded`, by the lengths of months and the count of leap days between two
  years). All for every year, where TLC runs through seven.
- **Reader** (`SourceReader_proofs`): the inductive invariant is
  `IInv == TypeOK /\ TokensAreOwn /\ OnlyApprovedQueries /\ GoodCalls /\ GoodMemory`. The
  properties of results are not inductive alone: that a published result has the rows of its
  own query needs that the call it came from knew the execution under its run's token
  (`GoodCalls`), which needs that every submission and execution carries the token of its run
  (`TokensAreOwn`), and it must survive what others do afterwards, for which the lemma
  `ExecutionsGrow` says that an execution keeps its run and query and that a settled one never
  changes. From `IInv` follow `TypeCorrect`, `RunsAreQueriedOnce`, `QueriesStayApproved`,
  `PublishedRowsAreComplete`, `PublishersAgree`, `DaysAreAccounted` (with the planner's
  theorem) and `ReportsAreTrue`, for any number of processes, runs, retries and crashes.
  `ReadsMakeBoundedCalls` is the safety half of `EveryReadReturns`: `CallsLeft` counts the remote
  calls a read may still make, a round of tries for each poll left, for loading and for the
  submission; it is at most `(MaxAttempts + 2) * (MaxRetries + 1)`, each step of the read's own
  lowers it, no other step raises it, and it is 0 exactly when the read is over. What fairness has
  to add is that the steps are taken.
- **Memory and contract** (`SourceReadRefinement_proofs`): what a step does to the memory is said
  once, by the lemma `StepCases`: a read ends with a first answer for its run, goes on, gives what
  is remembered, dies with its process, or leaves readers alone. `ReadInv` adds to `IInv` that a
  read in progress has no answer yet, that what was admitted stays approved and that what was
  given is remembered. From it follow `AnswersAreFinal` and `ContentReachesTheApproved`. For the
  refinement, one token per run makes the contract's execution the phase of the execution under
  the run's token, so each of Athena's steps is a launch, a settlement or a stutter, and a read
  that ends publishes, withholds or both launches and withholds: `ReaderImplementsContract`.
- **Feed** (`UsageFeed_proofs`): the invariant says that each batch holds what its query selected
  when it was read, all that was stored before that tick, and that a copy arrives within a day of
  its event. Then what a day that is over holds cannot change (`ClosedDaysStayFinal`), adjacent
  reads divide the lake (`AdjacentReadsPartitionTheLake`), and only the window's first two days
  can be cut (`InnerDaysAreWhole`), for any number of invocations, copies, reads, days and ticks.
  About records: `DuplicatesStayRecognisable`, `FormatsStayWithTheirModels`,
  `ContentTakesBothSwitches`, from lemmas that the aliases of no other field are preview columns.
  `OneBadColumnStaysAlone` rests on the lemma `PresentIsDecided`: two rows agree on a field when
  the column that decides it in one is in the other and the other has no further alias of it; so a
  row and its clean version differ in the fields a spoiled column decides at most.
  `RecordsStayUsable` follows the cells through the parsers: text that is missing, blank or no
  text never reaches a required field, nothing but text an optional one or the metadata, a time is
  in UTC; that bounded metadata has no more keys than its bound is `MetadataIsBounded`: the last
  key reached comes after fewer than the bound of different ones, and that there is a last one
  among finitely many is proved by induction (`LastOfFinitelyMany`).
- **Adapter** (`ModelAssist_proofs`): the invariant adds to the properties that a call in progress
  passed every check (`CallIsApproved`), without which a retry could not be shown to be as
  approved as the first attempt, and that whatever an endpoint received was cut from the collapsed
  previews (`RequestsAreCuts`). `ProposalsAreBounded` says no more of summaries than
  `model_assistance.py:395` does: one of four characters or more is no word of what an endpoint
  was sent of the content, and no passage of it when the preview it was cut from has no break. The
  source text is searched as it came while the endpoint was sent it collapsed, so the proof shows
  that a part of a cut (`PassageOfCut`, `HandedBackIsRaw`) is a part of the preview itself, and
  hence of both previews joined (`PassageOfPart`). `AdapterTypes`, `EndpointsAreProtected`,
  `AttemptsAreTrue`, `ProposalsAreBounded`.
- **Content path** (`ContentPath_proofs`): the invariant says that the decision held is the gate's
  for the record and that each stage's result is that of this decision under the configuration it
  remembers (`StagesFollowTheDecision`). `DenialIsComplete`, `DisablingStopsTheStages`,
  `AcceptedMeansUsable`, `AssessmentsStaySound`. What has left needs the past as well:
  `PathInv` adds to it that everything granted was the redaction of a record under the configuration
  of that moment, and everything an endpoint received was granted (`HistoryHolds`). What redaction
  does is proved for any number of rules and words, by induction over the rules: after rule `i` no
  word that one of the first `i` excludes is left but those of the marker (`SubstitutedFacts`);
  hence
  `NothingExcludedReachesAModel` and `ConsumersAlwaysAgree`. `PathImplementsAdapter` shows that
  behind the gate the adapter behaves as `ModelAssist` says, each step of the path being one of the
  adapter's or leaving it alone, so its theorems hold of the composition
  (`EndpointsAreProtectedBehindTheGate`).
- **Classifier** (`Classification_proofs`): the invariant says that the last result is
  `Classify` of its arguments; the theorems then rest on lemmas about the operators: scores
  grow with evidence, results depend on the relevant signals alone, candidates grow, the first rule
  that applies decides (`FirstRuleWins`, `LaterRulesDoNotMatter`).
  `EvidenceIsMonotonic`, `OtherSignalsAreIgnored`, `ThresholdsAreMonotonic`, `DisablingIsFair`,
  `RulesAreForConflicts`, `AcceptedMeansClassifiable`, for every catalog and configuration.

Only model-checked: the liveness properties (`EveryReadReturns`, `EveryCallReturns`), which need
fairness and `ENABLED` and are out of the prover's reach (that a read can take only so many steps
is a theorem, `ReadsMakeBoundedCalls`). Every invariant and every action property
of the runs is a theorem. Induction is done with sets: what holds of every natural number is the
set of the numbers it holds of, and `NatSetInduction` says when that set is `Nat`; recursive
functions (`Substituted`, the flattening of words) are unfolded by proving that their defining
equation has the function as a solution.

## 6. Findings

Each has a run that TLC finds violated, and quotes the document, comment or test it
contradicts in `PROJECT.json`.

1. `loader_flags`: the flags a result loader sets survive the errors it reports, so a result
   without rows can say `publication_allowed` (`source_access.py:406`).
2. `default_read`: results are remembered by run alone, so a default read returns the rows with
   previews of an earlier content read (`source_access.py:271`). The reader involved is
   approved for content; `ContentNeedsApproval` holds.
3. `empty_requests`: a preview of blanks passes the adapter's check for content, and an empty
   request is sent (`model_assistance.py:274`).
4. `result_oracle`: the result oracle refuses every summary with the word "prompt", which the
   extractor puts into the summary of each content-derived signal (`oracle.py:166`).
5. `evidence_loss`: losing evidence can end a conflict and so turn an unknown record into a
   known one (`classification.py:107`).

Also seen, and no contradiction of anything written: `_bounded_strings(allow_empty=True)` still
leads to a refusal of an empty list, which is falsy; a summary a model returns may be a word of the
content of up to three characters, hold words of it among others, or be a passage that runs over a
line break of the preview, which the endpoint was sent as a space (`model_assistance.py:395`); a
threshold of 0.0 gives a primary
category without evidence; disabling a signal definition shrinks the denominator of the score,
which may rise (exactly when is `DisablingMovesScoresFairly`); the gate's `redaction_required`
denial cannot be reached by a configuration the oracle accepts; no approved endpoints means any
endpoint; the oracle does not compile exclusion rules, so a bad one denies every record as
`redaction_failed`; the adapter looks at its own policy only, so a caller that holds an older
decision may still invoke it after content analysis was switched off; retention is checked when
the gate decides and never again; after a re-plan (a new day, other columns) Athena refuses the
run's token and the run stays without rows; nothing stops a query whose read gave up.

Of the feed:

- The default projection has both `input_token_count` and `usage_input_tokens`; the normalizer
  prefers the first even when it is null (`normalization.py:488`), so the usage taken from the body
  never becomes a record's count, while `README.md:263` sums `usage_input_tokens`.
- The view casts the event time to a timestamp without zone and `normalize` refuses such a time:
  a loader that attaches no zone loses every record.
- The projection has no format, body, content type, session name or identity name column; so
  every record of a known model gets its family's format unseen, and of an unknown one no format
  and no diagnostic, since without body columns the flattened adapter takes it. A blank or
  malformed declared format counts as none declared.
- Model ids with a region in front (`eu.`, `us.`) belong to no adapter.
- A float is never a token count, 12.0 included, and a digit `int()` does not read (`isdigit` takes
  superscripts) would raise; the model has no such cell.
- A preview or an identity of the wrong type is dropped without a diagnostic.
- The first two days of the window may miss rows although the plan reports them as covered
  (`OnlyEdgeDaysAreCut` says that no other day does).
- The assessor never asks the oracle: an invalid threshold costs its own dimension only.
- `code_development` and `personal_work` of the default catalog rest on the same signals with the
  same thresholds: whenever one is a candidate both are, and only a precedence rule decides.

## 7. Plan

Done:

1. `SourceScope`, `AthenaService`, `SourceReader`, `SourceReadContract`: the one part with
   concurrency, failure and time.
2. `SourceWindow`: its arithmetic, on real dates.
3. `ModelAssist`, then `ContentPath`, which composes it with gate, extractor and assessor.
4. `Classification` with its oracles.
5. `Normalizer`, `DataLake`, `DirectSignals` and their composition `UsageFeed`.
6. `PromptQuality`, in `ContentPath`.
7. Proofs of the refinement, of the reader's memory, of the feed, the content path, and of the
   window for every year.
8. Proofs about redaction and about spoiled columns, by induction; the adapter's specification
   implemented by the content path.

Left:

9. Extraction followed by classification: what the gate denies, related to the category a record
   gets. The parts are there (`ContentPath`, `DirectSignals`, `Classification`); the composition
   needs signals as lists in both.
10. The rest of the configuration oracle, as far as a stage depends on it.

## 8. Not modelled

- **Member-account logging stack, dashboard, policy rules, CI and smoke tests**: CloudFormation
  resources, SQL, static rules and scripts without behaviour of their own.
- **Legacy ETL script**: nothing calls it and nothing reads what it writes
  (`src/OVERVIEW.md:274` calls it an orphan).
- **Orchestration, persistence, publication**: no code does it; only the data models exist.
- **Oracles of results, runs, aggregates, audit and error records**: they judge records no code in
  the repository produces. Serialization (`to_dict`) copies.
- **Inside what is modelled**: caller-supplied format adapters and redactors; Firehose's buffering
  and Parquet conversion; floats and their rounding; regular expressions (the words they find are
  parameters); SQL text and quoting; wording, logging, backoff.

## 9. Running

    tlc -workers 2 -config ReaderTwoProcesses.cfg MCSourceReader
    tlc -workers 2 -config ReaderAlone.cfg MCSourceReader
    tlc -config Calendar.cfg SourceWindow
    tlc -workers 2 -config ModelAssist.cfg MCModelAssist
    tlc -workers 2 -config Classification.cfg MCClassification
    tlc -workers 2 -config ContentPath.cfg MCContentPath
    tlc -workers 2 -config UsageFeed.cfg MCUsageFeed
    tlapm SourceReader_proofs.tla      (and the other *_proofs modules)
