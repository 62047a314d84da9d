----------------------------- MODULE SourceReader -----------------------------
(***************************************************************************)
(* AthenaSourceReader of source_access.py: read() submits one bounded      *)
(* query, polls it, loads its rows, and remembers one result per analysis  *)
(* run.  Several reader processes, each with its own memory, may serve the *)
(* same run; a process may stop anywhere and start again with nothing      *)
(* remembered.                                                             *)
(*                                                                         *)
(* The steps are the remote calls: between two of them a reader touches    *)
(* nothing that others see.  A call that raises may have reached Athena,   *)
(* may never, or may reach it after the reader has moved on.               *)
(***************************************************************************)
EXTENDS AthenaService

CONSTANTS
  Readers,        \* reader processes
  Requests,       \* the arguments read() is called with
  Versions,       \* configuration versions
  Configs,        \* how a process may construct its reader
  ApprovedScope,  \* the scope the readers are approved for
  LastDay,        \* bound: the clock stops here
  SourceWindow,   \* SourceWindow[d]: the dates the source view holds on day d
  Sha256,         \* Sha256[run]: the digest used as the client request token
  MaxRetries,     \* max_retries
  MaxAttempts,    \* ceil(timeout / poll interval), at least 1
  MaxQueries,     \* bound: queries one process starts
  MaxCrashes,     \* bound: crashes in a behaviour
  LoaderErrors,   \* what a result loader may put in its errors
  NoCall, NoPlan, NoResult, NoReturn, Raised

Config == [enabled                 : BOOLEAN,
           content_access_approved : BOOLEAN,
           result_loader           : BOOLEAN,    \* one was given
           pollable                : BOOLEAN]    \* the client has get_query_execution

Request == [run             : Runs \cup {Blank},
            version         : Versions \cup {Blank},
            scope           : Scope,
            include_content : BOOLEAN]

ASSUME ReaderAssumption ==
  /\ Requests \subseteq Request
  /\ Configs \subseteq Config
  /\ Configs # {}
  /\ ApprovedScope \in Scope
  /\ LastDay \in Nat
  /\ SourceWindow \in [0..LastDay -> Window]
  /\ MaxRetries \in Nat
  /\ MaxAttempts \in Nat \ {0}
  /\ MaxQueries \in Nat
  /\ MaxCrashes \in Nat
  /\ Blank \notin Runs

\* Two runs never share a token: no collision of SHA-256 is assumed.
ASSUME TokenAssumption ==
  /\ Sha256 \in [Runs -> Tokens]
  /\ \A a, b \in Runs : Sha256[a] = Sha256[b] => a = b

VARIABLES
  pc,        \* the remote call a reader is about to make, or "idle"
  call,      \* the locals of the read() in progress
  cache,     \* _results_by_run
  config,    \* the arguments of __init__
  returned,  \* what the last read() gave its caller
  today,     \* the UTC date
  queries,   \* queries the process has started (bounds the model)
  crashes    \* crashes so far (bounds the model)

rvars == <<pc, call, cache, returned>>
vars  == <<executions, inflight, pc, call, cache, config, returned, today, queries, crashes>>

-----------------------------------------------------------------------------
(* Values.                                                                 *)

\* _bounded_source_errors: the codes a loader may hand through.
PassedErrors == {"ATHENA_SCAN_CUTOFF", "SOURCE_QUERY_FAILED", "SOURCE_QUERY_CANCELLED",
                 "SOURCE_QUERY_STATUS_FAILED", "SOURCE_QUERY_TIMEOUT",
                 "SOURCE_QUERY_RESULT_FAILED"}

ErrorCodes == PassedErrors \cup
              {"SOURCE_UNAVAILABLE", "SOURCE_QUERY_SUBMISSION_FAILED",
               "SOURCE_QUERY_ID_MISSING", "SOURCE_QUERY_STATUS_INVALID",
               "SOURCE_RESULTS_NOT_LOADED"}

QueryStates == Terminal \cup {"NONE", "NOT_POLLED", "UNKNOWN", "TIMEOUT"}

Call == [request : Requests, plan : Plan, token : Tokens, retries : 0..MaxRetries,
         attempts : 0..MaxAttempts, scanned : 0..MaxScan, query_state : QueryStates]

\* SourceReadResult with the metadata the properties need.
Result == [request : Requests, plan : Plan \cup {NoPlan}, errors : SUBSET ErrorCodes,
           rows : {"none", "partial", "complete"}, execution : Tokens \cup {NoExecution},
           query_state : QueryStates, scanned : 0..MaxScan, query_submitted : BOOLEAN,
           source_set_determined : BOOLEAN, publication_allowed : BOOLEAN]

Return == [request : Requests, result : Result \cup {Raised}]

ASSUME SentinelAssumption ==
  /\ NoExecution \notin Execution
  /\ NoExecution \notin Tokens
  /\ NoPlan \notin Plan
  /\ NoCall \notin Call
  /\ NoResult \notin Result
  /\ NoReturn \notin Return
  /\ Raised \notin Result

\* Mutant: a token that changes with the date.
ClientRequestTokenMutant(run) ==
  IF today = 0 THEN Sha256[run] ELSE CHOOSE t \in Tokens : t # Sha256[run]

ClientRequestToken(run) == Sha256[run]

\* Mutant: codes that are not listed vanish.
BoundedSourceErrorsMutant(errors) == errors \cap PassedErrors

BoundedSourceErrors(errors) ==
  IF errors = {} THEN {}
  ELSE IF errors \cap PassedErrors # {} THEN errors \cap PassedErrors
       ELSE {"SOURCE_QUERY_RESULT_FAILED"}

EmptyResult(q, plan, errors) ==
  [request |-> q, plan |-> plan, errors |-> errors, rows |-> "none",
   execution |-> NoExecution, query_state |-> "NONE", scanned |-> 0,
   query_submitted |-> FALSE, source_set_determined |-> FALSE,
   publication_allowed |-> FALSE]

\* A result of call c for which no query id is known.
Unsubmitted(c, error) == EmptyResult(c.request, c.plan, {error})

\* A result of call c once its query is known by id, as a loader left it.
Loaded(c, errors, rows, determined, publication) ==
  [request |-> c.request, plan |-> c.plan, errors |-> errors, rows |-> rows,
   execution |-> c.token, query_state |-> c.query_state, scanned |-> c.scanned,
   query_submitted |-> TRUE, source_set_determined |-> determined,
   publication_allowed |-> publication]

\* The same without rows.
Submitted(c, errors) == Loaded(c, errors, "none", FALSE, FALSE)

Token(r) == call[r].token

\* Mutant: the days asked for are queried, not those of the plan.
SubmissionOfMutant(r) ==
  [run |-> call[r].request.run, token |-> Token(r),
   query |-> [BuildSourceQuery(call[r].plan, call[r].request.include_content)
                EXCEPT !.days = RequestedDays(call[r].request.scope)]]

SubmissionOf(r) ==
  [run |-> call[r].request.run, token |-> Token(r),
   query |-> BuildSourceQuery(call[r].plan, call[r].request.include_content)]

-----------------------------------------------------------------------------
(* How a read ends and how a remote call is tried again.                   *)

Give(r, q, result) == returned' = [returned EXCEPT ![r] = [request |-> q, result |-> result]]

\* Every exit of read() past the memory lookup stores the result, failures included.
Finish(r, result) ==
  /\ cache' = [cache EXCEPT ![r][result.request.run] = result]
  /\ Give(r, result.request, result)
  /\ pc' = [pc EXCEPT ![r] = "idle"]
  /\ call' = [call EXCEPT ![r] = NoCall]

GoOn(r, next, c) ==
  /\ pc' = [pc EXCEPT ![r] = next]
  /\ call' = [call EXCEPT ![r] = c]
  /\ UNCHANGED <<cache, returned>>

\* Mutant: one retry too many.
RetryOrFinishMutant(r, result) ==
  IF call[r].retries <= MaxRetries
  THEN GoOn(r, pc[r], [call[r] EXCEPT !.retries = @ + 1])
  ELSE Finish(r, result)

\* _call_with_retries on an exception.
RetryOrFinish(r, result) ==
  IF call[r].retries < MaxRetries
  THEN GoOn(r, pc[r], [call[r] EXCEPT !.retries = @ + 1])
  ELSE Finish(r, result)

-----------------------------------------------------------------------------
(* read(), up to its first remote call.                                    *)

\* Mutant: content is not asked about.
AdmittedMutant(r, q) == q.run # Blank /\ q.version # Blank

Admitted(r, q) ==
  /\ q.include_content => config[r].content_access_approved
  /\ q.run # Blank
  /\ q.version # Blank

\* Mutant: failures are not remembered.
FreshMutant(r, q) ==
  pc[r] = "idle" /\ Admitted(r, q) /\ (cache[r][q.run] # NoResult => cache[r][q.run].errors # {})

Fresh(r, q) == pc[r] = "idle" /\ Admitted(r, q) /\ cache[r][q.run] = NoResult

Planned(r, q) ==
  Fresh(r, q) /\ config[r].enabled /\ Resolvable(q.scope, ApprovedScope)

Refuse(r, q) ==
  /\ pc[r] = "idle"
  /\ \/ ~Admitted(r, q)
     \/ Fresh(r, q) /\ config[r].enabled /\ ~Resolvable(q.scope, ApprovedScope)
  /\ Give(r, q, Raised)
  /\ UNCHANGED <<executions, inflight, pc, call, cache, config, today, queries, crashes>>

Remember(r, q) ==
  /\ pc[r] = "idle" /\ Admitted(r, q) /\ cache[r][q.run] # NoResult
  /\ Give(r, q, cache[r][q.run])
  /\ UNCHANGED <<executions, inflight, pc, call, cache, config, today, queries, crashes>>

ReadDisabled(r, q) ==
  /\ Fresh(r, q) /\ ~config[r].enabled
  /\ Finish(r, EmptyResult(q, NoPlan, {}))
  /\ UNCHANGED <<executions, inflight, config, today, queries, crashes>>

ReadUnavailable(r, q) ==
  LET plan == ResolveSourceScope(q.scope, SourceWindow[today]) IN
  /\ Planned(r, q) /\ ~Queryable(plan)
  /\ Finish(r, EmptyResult(q, plan, {"SOURCE_UNAVAILABLE"}))
  /\ UNCHANGED <<executions, inflight, config, today, queries, crashes>>

BeginQuery(r, q) ==
  LET plan == ResolveSourceScope(q.scope, SourceWindow[today]) IN
  /\ Planned(r, q) /\ Queryable(plan)
  /\ queries[r] < MaxQueries
  /\ queries' = [queries EXCEPT ![r] = @ + 1]
  /\ pc' = [pc EXCEPT ![r] = "submit"]
  /\ call' = [call EXCEPT ![r] =
       [request |-> q, plan |-> plan, token |-> ClientRequestToken(q.run), retries |-> 0,
        attempts |-> 0, scanned |-> 0, query_state |-> "NONE"]]
  /\ returned' = [returned EXCEPT ![r] = NoReturn]
  /\ UNCHANGED <<executions, inflight, cache, config, today, crashes>>

-----------------------------------------------------------------------------
(* start_query_execution.                                                  *)

\* The query is over as far as the reader can tell: load its rows if it can.
AfterPolling(r, c) ==
  IF config[r].result_loader
  THEN GoOn(r, "load", c)
  ELSE Finish(r, Submitted(c, {"SOURCE_RESULTS_NOT_LOADED"}))

SubmitAnswered(r) ==
  LET c == [call[r] EXCEPT !.retries = 0] IN
  /\ pc[r] = "submit"
  /\ Accepts(SubmissionOf(r))
  /\ executions' = Arrived(SubmissionOf(r))
  /\ IF config[r].pollable
     THEN GoOn(r, "poll", c)
     ELSE AfterPolling(r, [c EXCEPT !.query_state = "NOT_POLLED"])
  /\ UNCHANGED <<inflight, config, today, queries, crashes>>

\* Athena took the submission, but the response is None or carries no id: not tried again.
SubmitUnusable(r) ==
  /\ pc[r] = "submit"
  /\ Accepts(SubmissionOf(r))
  /\ executions' = Arrived(SubmissionOf(r))
  /\ \E e \in {"SOURCE_QUERY_SUBMISSION_FAILED", "SOURCE_QUERY_ID_MISSING"} :
       Finish(r, Unsubmitted(call[r], e))
  /\ UNCHANGED <<inflight, config, today, queries, crashes>>

\* Refused, lost, accepted with the response lost, or still on its way.
SubmitRaised(r) ==
  /\ pc[r] = "submit"
  /\ \/ UNCHANGED <<executions, inflight>>
     \/ /\ Accepts(SubmissionOf(r))
        /\ executions' = Arrived(SubmissionOf(r))
        /\ UNCHANGED inflight
     \/ inflight' = inflight \cup {SubmissionOf(r)} /\ UNCHANGED executions
  /\ RetryOrFinish(r, Unsubmitted(call[r], "SOURCE_QUERY_SUBMISSION_FAILED"))
  /\ UNCHANGED <<config, today, queries, crashes>>

-----------------------------------------------------------------------------
(* _poll_query.                                                            *)

Polling(r) ==
  /\ pc[r] = "poll"
  /\ UNCHANGED <<executions, inflight, config, today, queries, crashes>>

\* Mutant: the scan statistics of a status response are not read.
PolledMutant(r, state) ==
  [call[r] EXCEPT !.retries = 0, !.attempts = @ + 1, !.query_state = state]

\* One more poll was answered: the locals after it.
Polled(r, state) ==
  [call[r] EXCEPT !.retries = 0, !.attempts = @ + 1, !.query_state = state,
                  !.scanned = Later(@, executions[Token(r)].scan)]

PollSucceeded(r) ==
  /\ Polling(r)
  /\ executions[Token(r)].state = "SUCCEEDED"
  /\ AfterPolling(r, Polled(r, "SUCCEEDED"))

PollSettled(r) ==
  LET state == executions[Token(r)].state IN
  /\ Polling(r)
  /\ \/ state = "FAILED" /\ Finish(r, Submitted(Polled(r, state), {"SOURCE_QUERY_FAILED"}))
     \/ /\ state = "CANCELLED"
        /\ Finish(r, Submitted(Polled(r, state), {"SOURCE_QUERY_CANCELLED"}))

\* No response, or one whose state is not a state of Athena's.
PollUnusable(r) ==
  /\ Polling(r)
  /\ \/ Finish(r, Submitted([call[r] EXCEPT !.query_state = "UNKNOWN"],
                            {"SOURCE_QUERY_STATUS_FAILED"}))
     \/ Finish(r, Submitted(Polled(r, "UNKNOWN"), {"SOURCE_QUERY_STATUS_INVALID"}))

\* Mutant: attempts are not counted and the timeout is not looked at.
PollPendingMutant(r) ==
  /\ Polling(r)
  /\ executions[Token(r)].state \in Active
  /\ GoOn(r, "poll", [Polled(r, "NONE") EXCEPT !.attempts = 1])

\* Still queued or running: sleep and poll again while attempts are left and the timeout
\* has not elapsed (calls take time, so it may have after any of them).
PollPending(r) ==
  LET c == Polled(r, "NONE") IN
  /\ Polling(r)
  /\ executions[Token(r)].state \in Active
  /\ \/ c.attempts < MaxAttempts /\ GoOn(r, "poll", c)
     \/ Finish(r, Submitted([c EXCEPT !.query_state = "TIMEOUT"], {"SOURCE_QUERY_TIMEOUT"}))

PollRaised(r) ==
  /\ Polling(r)
  /\ RetryOrFinish(r, Submitted([call[r] EXCEPT !.query_state = "UNKNOWN"],
                                {"SOURCE_QUERY_STATUS_FAILED"}))

-----------------------------------------------------------------------------
(* The result loader and the end of read().                                *)

Loading(r) ==
  /\ pc[r] = "load"
  /\ UNCHANGED <<executions, inflight, config, today, queries, crashes>>

\* What a loader, which is not in the repository, may return for execution t: every row
\* and no error when Athena has the whole result, or any rows it got and some error.
LoaderAnswers(t) ==
  {a \in [rows : {"none", "partial", "complete"}, errors : SUBSET LoaderErrors,
          determined : BOOLEAN, publication : BOOLEAN, scanned : {0, executions[t].scan}] :
     /\ a.errors = {} => a.rows = "complete"
     /\ executions[t].state # "SUCCEEDED" => a.errors # {} /\ a.rows = "none"}

\* Loaded rows are kept only if no error came with them; the loader's metadata, its two
\* flags included, is merged in before that is decided (and then not taken back).
LoadAnswered(r) ==
  /\ Loading(r)
  /\ \E a \in LoaderAnswers(Token(r)) :
       LET errors == BoundedSourceErrors(a.errors)
           c      == [call[r] EXCEPT !.scanned = Later(@, a.scanned)]
       IN  Finish(r, IF errors # {}
                     THEN Loaded(c, errors, "none", a.determined, a.publication)
                     ELSE Loaded(c, {}, a.rows, TRUE, TRUE))

LoadUnusable(r) ==
  /\ Loading(r)
  /\ Finish(r, Submitted(call[r], {"SOURCE_QUERY_RESULT_FAILED"}))

LoadRaised(r) ==
  /\ Loading(r)
  /\ RetryOrFinish(r, Submitted(call[r], {"SOURCE_QUERY_RESULT_FAILED"}))

-----------------------------------------------------------------------------
(* The processes and the clock.                                            *)

\* The process dies and a new one constructs its reader: nothing is remembered, a
\* submission on the wire may still arrive.
Crash(r) ==
  /\ crashes < MaxCrashes
  /\ crashes' = crashes + 1
  /\ \/ UNCHANGED inflight
     \/ pc[r] = "submit" /\ inflight' = inflight \cup {SubmissionOf(r)}
  /\ pc' = [pc EXCEPT ![r] = "idle"]
  /\ call' = [call EXCEPT ![r] = NoCall]
  /\ cache' = [cache EXCEPT ![r] = [run \in Runs |-> NoResult]]
  /\ returned' = [returned EXCEPT ![r] = NoReturn]
  /\ \E c \in Configs : config' = [config EXCEPT ![r] = c]
  /\ queries' = [queries EXCEPT ![r] = 0]
  /\ UNCHANGED <<executions, today>>

NextDay ==
  /\ today < LastDay
  /\ today' = today + 1
  /\ UNCHANGED <<executions, inflight, pc, call, cache, config, returned, queries, crashes>>

Athena == AthenaStep /\ UNCHANGED <<rvars, config, today, queries, crashes>>

Init ==
  /\ AthenaInit
  /\ pc = [r \in Readers |-> "idle"]
  /\ call = [r \in Readers |-> NoCall]
  /\ cache = [r \in Readers |-> [run \in Runs |-> NoResult]]
  /\ config \in [Readers -> Configs]
  /\ returned = [r \in Readers |-> NoReturn]
  /\ today = 0
  /\ queries = [r \in Readers |-> 0]
  /\ crashes = 0

Enter(r, q) ==
  \/ Refuse(r, q)
  \/ Remember(r, q)
  \/ ReadDisabled(r, q)
  \/ ReadUnavailable(r, q)
  \/ BeginQuery(r, q)

Submit(r) == SubmitAnswered(r) \/ SubmitUnusable(r) \/ SubmitRaised(r)

Poll(r) ==
  PollSucceeded(r) \/ PollSettled(r) \/ PollUnusable(r) \/ PollPending(r) \/ PollRaised(r)

Load(r) == LoadAnswered(r) \/ LoadUnusable(r) \/ LoadRaised(r)

ReaderStep(r) == Submit(r) \/ Poll(r) \/ Load(r)

Next ==
  \/ \E r \in Readers :
       \/ \E q \in Requests : Enter(r, q)
       \/ ReaderStep(r)
       \/ Crash(r)
  \/ Athena
  \/ NextDay

Spec == Init /\ [][Next]_vars

\* read() is synchronous and every remote call returns or raises, so a read that began
\* keeps taking steps.  Nothing is assumed of Athena, the callers or the clock.
FairSpec == Spec /\ \A r \in Readers : WF_vars(ReaderStep(r))

-----------------------------------------------------------------------------
(* Properties.                                                             *)

\* Every variable keeps its type; the retry and poll counters stay within max_retries and
\* the attempts the timeout allows.
TypeOK ==
  /\ AthenaTypeOK
  /\ pc \in [Readers -> {"idle", "submit", "poll", "load"}]
  /\ call \in [Readers -> Call \cup {NoCall}]
  /\ cache \in [Readers -> [Runs -> Result \cup {NoResult}]]
  /\ config \in [Readers -> Configs]
  /\ returned \in [Readers -> Return \cup {NoReturn}]
  /\ today \in 0..LastDay
  /\ queries \in [Readers -> 0..MaxQueries]
  /\ crashes \in 0..MaxCrashes

Remembered(r, run) == cache[r][run] # NoResult

\* What a consumer may use: a result without errors whose metadata allows publication.
Published(result) == result.errors = {} /\ result.publication_allowed

QueryOf(result) == BuildSourceQuery(result.plan, result.request.include_content)

\* However often a run's read is retried, repeated after a crash or made by two processes at
\* once, Athena executes (and bills) one query for the run.
OneExecutionPerRun ==
  \A s, t \in Tokens :
    Exists(s) /\ Exists(t) /\ executions[s].run = executions[t].run => s = t

\* A result carries rows exactly when it may be published, and then they are all the rows of
\* the run's own succeeded execution, selected by the query its metadata describes: never
\* rows of a failed, partial or still running read, nor of another request's query.
RowsAreComplete ==
  \A r \in Readers, run \in Runs :
    LET result == cache[r][run]
        t      == result.execution
    IN  Remembered(r, run) =>
          /\ Published(result) <=> result.rows # "none"
          /\ Published(result) =>
               /\ result.rows = "complete"
               /\ result.source_set_determined
               /\ Exists(t) /\ executions[t].state = "SUCCEEDED"
               /\ executions[t].run = run /\ executions[t].query = QueryOf(result)

\* Two processes that publish the same run publish the same rows: the same execution, days,
\* filters and columns, even if their callers asked for different scopes.
ReadersAgree ==
  \A r, s \in Readers, run \in Runs :
    /\ Remembered(r, run) /\ Published(cache[r][run])
    /\ Remembered(s, run) /\ Published(cache[s][run])
    => /\ cache[r][run].execution = cache[s][run].execution
       /\ QueryOf(cache[r][run]) = QueryOf(cache[s][run])

\* A published result accounts for every requested day once: either the execution behind it
\* scanned the day, or the result lists it as unavailable, whatever day the read was planned.
EveryDayAccounted ==
  \A r \in Readers, run \in Runs :
    LET result  == cache[r][run]
        scanned == executions[result.execution].query.days
    IN  Remembered(r, run) /\ Published(result) =>
          /\ scanned \cup UnavailableDays(result.plan) = RequestedDays(result.request.scope)
          /\ scanned \cap UnavailableDays(result.plan) = {}

\* Nothing Athena executes, or may yet receive, reaches outside the approved filters and
\* dates, and none of it is unbounded.
WithinApproved(query) ==
  /\ query.days # {} /\ query.days \subseteq RequestedDays(ApprovedScope)
  /\ \A d \in Dimensions :
       query.filters[d] # {} /\ query.filters[d] \subseteq ApprovedScope.filters[d]

OnlyApprovedQueries ==
  /\ \A t \in Tokens : Exists(t) => WithinApproved(executions[t].query)
  /\ \A s \in inflight : WithinApproved(s.query)

\* Rows with prompt and response previews reach only callers of a reader that is approved
\* for content, also when another process ran the query or the memory answers.
ContentNeedsApproval ==
  \A r \in Readers :
    LET result == returned[r].result IN
    returned[r] # NoReturn /\ result # Raised =>
      (result.rows # "none" /\ executions[result.execution].query.content
         => config[r].content_access_approved)

\* The query state and the bytes scanned that a result reports for a settled query are
\* Athena's own and stay so: no late answer or second reader makes the report wrong.
ReportIsTrue ==
  \A r \in Readers, run \in Runs :
    LET result == cache[r][run]
        t      == result.execution
    IN  Remembered(r, run) /\ t # NoExecution =>
          /\ Exists(t) /\ result.scanned <= executions[t].scan
          /\ result.query_state \in Terminal =>
               /\ executions[t].state = result.query_state
               /\ result.scanned = executions[t].scan

\* Reading a run again never changes its result while the process lives, whatever happens
\* to the query afterwards.
AnswerIsFinal ==
  [][\A r \in Readers, run \in Runs :
       Remembered(r, run) /\ crashes' = crashes => cache'[r][run] = cache[r][run]]_vars

\* Every read returns, even if Athena never answers usefully or the query runs for ever.
EveryReadReturns == \A r \in Readers : pc[r] # "idle" ~> pc[r] = "idle"

\* A loader that reports an error blocks publication.
LoaderErrorBlocksPublication ==
  \A r \in Readers, run \in Runs :
    Remembered(r, run) /\ cache[r][run].errors # {} => ~cache[r][run].publication_allowed

\* A read in the default mode returns no rows of the content projection.
DefaultReadIsContentFree ==
  \A r \in Readers :
    LET result == returned[r].result IN
    returned[r] # NoReturn /\ result # Raised /\ ~returned[r].request.include_content =>
      (result.rows # "none" => ~executions[result.execution].query.content)

-----------------------------------------------------------------------------
(* The reader implements SourceReadContract.                               *)

ExecutionsOf(run) == {t \in Tokens : Exists(t) /\ executions[t].run = run}

\* "many" is no state of the contract's.
ContractExecution(run) ==
  IF ExecutionsOf(run) = {} THEN "none"
  ELSE IF \E s, t \in ExecutionsOf(run) : s # t THEN "many"
  ELSE IF \E t \in ExecutionsOf(run) : executions[t].state \in Active THEN "active"
  ELSE IF \E t \in ExecutionsOf(run) : executions[t].state = "SUCCEEDED" THEN "succeeded"
  ELSE "failed"

ContractAnswer(r, run) ==
  IF ~Remembered(r, run) THEN "none"
  ELSE IF Published(cache[r][run]) THEN "published" ELSE "withheld"

Contract == INSTANCE SourceReadContract WITH
  execution <- [run \in Runs |-> ContractExecution(run)],
  answer    <- [r \in Readers |-> [run \in Runs |-> ContractAnswer(r, run)]]

\* Every step of the readers, Athena and the crashes is a step the contract allows.
ImplementsContract == Contract!Spec

=============================================================================
