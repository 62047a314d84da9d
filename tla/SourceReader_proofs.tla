-------------------------- MODULE SourceReader_proofs --------------------------
(***************************************************************************)
(* The safety of AthenaSourceReader for any number of processes, runs and  *)
(* requests, any retry and poll limits, and any number of crashes.         *)
(*                                                                         *)
(* A result speaks of a query that other processes and Athena go on        *)
(* touching, so no property of the memory is inductive alone.  IInv adds   *)
(* what a read in progress knows (GoodCall) and what every execution owes  *)
(* its token to (TokensAreOwn).  Both survive because executions only grow *)
(* (ExecutionsGrow): that is proved first, and each action then has to     *)
(* show only that the call or result it makes is good when it makes it.    *)
(***************************************************************************)
EXTENDS SourceReader, TLAPS

-----------------------------------------------------------------------------
(* Planning, for every bounded request and every source window.            *)

LEMMA BoundedDates ==
  ASSUME NEW scope \in Scope, Bounded(scope)
  PROVE  /\ scope.start_date \in Int /\ scope.end_date \in Int
         /\ scope.start_date <= scope.end_date
BY DEF Scope, Bounded

\* The effective days are exactly the requested days inside the window.
LEMMA EffectiveIsIntersection ==
  ASSUME NEW scope \in Scope, Bounded(scope), NEW w \in Window
  PROVE  EffectiveDays(scope, w) = RequestedDays(scope) \cap Days(w)
<1>1. w.first \in Int /\ w.last \in Int
  BY DEF Window, Interval
<1> QED BY <1>1, BoundedDates DEF EffectiveDays, RequestedDays, Days, Later, Earlier

\* The unavailable intervals cover exactly the requested days outside the window.
LEMMA UnavailableIsRest ==
  ASSUME NEW scope \in Scope, Bounded(scope), NEW w \in Window
  PROVE  /\ UnavailableIntervals(scope, w) \subseteq Interval
         /\ UNION {Days(i) : i \in UnavailableIntervals(scope, w)}
              = RequestedDays(scope) \ Days(w)
<1> DEFINE s == scope.start_date  e == scope.end_date
           before == BeforeWindow(scope, w)  after == AfterWindow(scope, w)
<1>1. /\ w.first \in Int /\ w.last \in Int /\ w.first <= w.last
      /\ s \in Int /\ e \in Int /\ s <= e
  BY BoundedDates DEF Window, Interval
<1>2. before \in Interval /\ after \in Interval
  BY <1>1 DEF BeforeWindow, AfterWindow, Interval, Earlier, Later
<1>3. s < w.first => Days(before) = {d \in s..e : d < w.first}
  BY <1>1 DEF BeforeWindow, Days, Earlier
<1>4. e > w.last => Days(after) = {d \in s..e : d > w.last}
  BY <1>1 DEF AfterWindow, Days, Later
<1>5. /\ \A i \in UnavailableIntervals(scope, w) :
           (i = before /\ s < w.first) \/ (i = after /\ e > w.last)
      /\ s < w.first => before \in UnavailableIntervals(scope, w)
      /\ e > w.last => after \in UnavailableIntervals(scope, w)
  BY DEF UnavailableIntervals
<1>6. UnavailableIntervals(scope, w) \subseteq Interval
  BY <1>2, <1>5
<1>7. RequestedDays(scope) \ Days(w) = {d \in s..e : d < w.first \/ d > w.last}
  BY <1>1 DEF RequestedDays, Days
<1> HIDE DEF before, after
<1>8. ASSUME NEW d \in UNION {Days(i) : i \in UnavailableIntervals(scope, w)}
      PROVE  d \in {x \in s..e : x < w.first \/ x > w.last}
  <2>1. PICK i \in UnavailableIntervals(scope, w) : d \in Days(i)
    OBVIOUS
  <2> QED BY <1>3, <1>4, <1>5, <2>1
<1>9. ASSUME NEW d \in s..e, d < w.first \/ d > w.last
      PROVE  d \in UNION {Days(i) : i \in UnavailableIntervals(scope, w)}
  <2>1. CASE d < w.first
    <3>1. s < w.first
      BY <1>1, <2>1
    <3> QED BY <1>3, <1>5, <2>1, <3>1
  <2>2. CASE d > w.last
    <3>1. e > w.last
      BY <1>1, <2>2
    <3> QED BY <1>4, <1>5, <2>2, <3>1
  <2> QED BY <1>9, <2>1, <2>2
<1> QED BY <1>6, <1>7, <1>8, <1>9

\* A plan answers for every requested day exactly once: it is queried or reported as
\* unavailable, never both and never neither; and it is well formed.
THEOREM PlanPartitionsRequest ==
  ASSUME NEW scope \in Scope, Bounded(scope), NEW w \in Window
  PROVE  LET plan == ResolveSourceScope(scope, w) IN
         /\ plan \in Plan
         /\ plan.days \cup UnavailableDays(plan) = RequestedDays(scope)
         /\ plan.days \cap UnavailableDays(plan) = {}
<1> DEFINE plan == ResolveSourceScope(scope, w)
<1>1. /\ plan.filters = scope.filters /\ plan.days = EffectiveDays(scope, w)
      /\ plan.unavailable = UnavailableIntervals(scope, w)
  BY DEF ResolveSourceScope
<1>2. UnavailableDays(plan) = RequestedDays(scope) \ Days(w)
  BY <1>1, UnavailableIsRest DEF UnavailableDays
<1>3. plan.days = RequestedDays(scope) \cap Days(w)
  BY <1>1, EffectiveIsIntersection
<1>4. plan \in Plan
  <2>1. RequestedDays(scope) \subseteq Int
    BY BoundedDates DEF RequestedDays
  <2>2. EffectiveDays(scope, w) \in SUBSET Int
    BY <1>1, <1>3, <2>1
  <2> QED BY <2>2, UnavailableIsRest DEF ResolveSourceScope, Plan, Scope
<1> QED BY <1>2, <1>3, <1>4

\* What a resolvable request's plan selects lies within the approved filters and dates, and
\* it selects something in every filter.
THEOREM PlanStaysApproved ==
  ASSUME NEW scope \in Scope, NEW approved \in Scope, NEW w \in Window,
         Resolvable(scope, approved)
  PROVE  LET plan == ResolveSourceScope(scope, w) IN
         /\ plan.days \subseteq RequestedDays(approved)
         /\ \A d \in Dimensions :
              plan.filters[d] # {} /\ plan.filters[d] \subseteq approved.filters[d]
<1>1. Bounded(scope) /\ Bounded(approved) /\ WithinApproval(scope, approved)
  BY DEF Resolvable
<1>2. RequestedDays(scope) \subseteq RequestedDays(approved)
  BY <1>1, BoundedDates DEF RequestedDays, WithinApproval
<1>3. ResolveSourceScope(scope, w).days \subseteq RequestedDays(scope)
  BY <1>1, EffectiveIsIntersection DEF ResolveSourceScope
<1>4. ResolveSourceScope(scope, w).filters = scope.filters
  BY DEF ResolveSourceScope
<1> QED BY <1>1, <1>2, <1>3, <1>4 DEF Bounded, WithinApproval

-----------------------------------------------------------------------------
(* The inductive invariant.                                                *)

\* Every execution and every submission on the wire carries the token of its own run.
TokensAreOwn ==
  /\ \A t \in Tokens : Exists(t) => t = ClientRequestToken(executions[t].run)
  /\ \A s \in inflight : s.token = ClientRequestToken(s.run)

\* What a reader about to make remote call p of read c knows, ex being Athena's executions.
PlanAnswers(plan, q) ==
  /\ plan.days \cup UnavailableDays(plan) = RequestedDays(q.scope)
  /\ plan.days \cap UnavailableDays(plan) = {}

CallIsOwn(c) ==
  /\ c \in Call
  /\ c.request.run \in Runs
  /\ c.token = ClientRequestToken(c.request.run)
  /\ PlanAnswers(c.plan, c.request)
  /\ WithinApproved(BuildSourceQuery(c.plan, c.request.include_content))

CallIsLaunched(ex, c) ==
  /\ ex[c.token] # NoExecution
  /\ ex[c.token].query = BuildSourceQuery(c.plan, c.request.include_content)
  /\ c.scanned <= ex[c.token].scan

CallIsSettled(ex, c) ==
  \/ c.query_state = "NOT_POLLED"
  \/ /\ c.query_state = "SUCCEEDED"
     /\ ex[c.token].state = "SUCCEEDED"
     /\ c.scanned = ex[c.token].scan

GoodCall(ex, p, c) ==
  /\ p # "idle" => CallIsOwn(c)
  /\ p = "submit" => c.scanned = 0 /\ c.attempts = 0
  /\ p = "poll" => c.attempts < MaxAttempts
  /\ p \in {"poll", "load"} => CallIsLaunched(ex, c)
  /\ p = "load" => CallIsSettled(ex, c)

\* What a remembered result of a run says is true of Athena.
PublishedIsTrue(ex, result) ==
  /\ result.rows = "complete"
  /\ result.source_set_determined
  /\ result.execution # NoExecution
  /\ ex[result.execution].state = "SUCCEEDED"
  /\ ex[result.execution].query = QueryOf(result)
  /\ PlanAnswers(result.plan, result.request)

ExecutionIsTrue(ex, result, run) ==
  LET t == result.execution IN
  /\ t = ClientRequestToken(run)
  /\ ex[t] # NoExecution
  /\ result.scanned <= ex[t].scan
  /\ result.query_state \in Terminal =>
       /\ ex[t].state = result.query_state
       /\ result.scanned = ex[t].scan

GoodResult(ex, result, run) ==
  /\ result \in Result
  /\ result.request.run = run
  /\ Published(result) <=> result.rows # "none"
  /\ Published(result) => PublishedIsTrue(ex, result)
  /\ result.execution # NoExecution => ExecutionIsTrue(ex, result, run)

GoodCalls == \A r \in Readers : GoodCall(executions, pc[r], call[r])

GoodMemory == \A r \in Readers, run \in Runs :
                Remembered(r, run) => GoodResult(executions, cache[r][run], run)

IInv == TypeOK /\ TokensAreOwn /\ OnlyApprovedQueries /\ GoodCalls /\ GoodMemory

-----------------------------------------------------------------------------
(* Executions only grow.                                                   *)

ExecutionsGrow ==
  \A t \in Tokens :
    Exists(t) =>
      /\ executions'[t] \in Execution
      /\ executions'[t].run = executions[t].run
      /\ executions'[t].query = executions[t].query
      /\ executions[t].scan <= executions'[t].scan
      /\ executions[t].state \in Terminal => executions'[t] = executions[t]

ServiceOK == AthenaTypeOK /\ TokensAreOwn /\ OnlyApprovedQueries

LEMMA TokenFacts ==
  /\ \A run \in Runs : ClientRequestToken(run) \in Tokens
  /\ \A a, b \in Runs : ClientRequestToken(a) = ClientRequestToken(b) => a = b
BY TokenAssumption DEF ClientRequestToken

LEMMA SameExecutionsGrow ==
  ASSUME AthenaTypeOK, executions' = executions
  PROVE  ExecutionsGrow
<1> SUFFICES ASSUME NEW t \in Tokens, Exists(t)
             PROVE  executions[t] \in Execution /\ executions[t].scan <= executions[t].scan
  BY DEF ExecutionsGrow
<1>1. executions[t] \in Execution
  BY DEF AthenaTypeOK, Exists
<1>2. executions[t].scan \in 0..MaxScan
  BY <1>1 DEF Execution
<1> QED BY <1>1, <1>2, MaxScanAssumption

\* A submission of its own run's token leaves the service in order when it arrives.
LEMMA ArrivalIsSafe ==
  ASSUME ServiceOK, NEW s \in Submission, s.token = ClientRequestToken(s.run),
         WithinApproved(s.query), executions' = Arrived(s), inflight' \subseteq inflight
  PROVE  /\ ServiceOK' /\ ExecutionsGrow /\ Exists(s.token)'
         /\ Accepts(s) => executions'[s.token].query = s.query
<1> DEFINE new == [run |-> s.run, query |-> s.query, state |-> "QUEUED", scan |-> 0]
<1>1. s.run \in Runs /\ s.token \in Tokens /\ s.query \in Query
  BY DEF Submission
<1>2. new \in Execution
  BY <1>1, MaxScanAssumption DEF Execution, Active, Terminal
<1>3. new # NoExecution
  BY <1>2, SentinelAssumption
<1>4. CASE Exists(s.token)
  <2>1. executions' = executions
    BY <1>4 DEF Arrived
  <2> QED BY <1>4, <2>1, SameExecutionsGrow
        DEF ServiceOK, AthenaTypeOK, TokensAreOwn, OnlyApprovedQueries, Exists, Accepts
<1>5. CASE ~Exists(s.token)
  <2>1. executions' = [executions EXCEPT ![s.token] = new]
    BY <1>5 DEF Arrived
  <2>2. executions' \in [Tokens -> Execution \cup {NoExecution}]
    BY <1>1, <1>2, <2>1 DEF ServiceOK, AthenaTypeOK
  <2>3. executions'[s.token] = new
        /\ \A t \in Tokens : t # s.token => executions'[t] = executions[t]
    BY <1>1, <2>1 DEF ServiceOK, AthenaTypeOK
  <2>4. ExecutionsGrow
    <3> SUFFICES ASSUME NEW t \in Tokens, Exists(t)
                 PROVE  /\ executions'[t] = executions[t]
                        /\ executions[t] \in Execution /\ executions[t].scan \in Nat
      BY DEF ExecutionsGrow
    <3>1. executions[t] \in Execution
      BY DEF ServiceOK, AthenaTypeOK, Exists
    <3> QED BY <1>5, <2>3, <3>1, MaxScanAssumption DEF Execution
  <2>5. \A t \in Tokens : Exists(t)' => t = ClientRequestToken(executions'[t].run)
    BY <2>3 DEF ServiceOK, TokensAreOwn, Exists
  <2> QED BY <1>1, <1>3, <2>2, <2>3, <2>4, <2>5
        DEF ServiceOK, AthenaTypeOK, TokensAreOwn, OnlyApprovedQueries, Exists, ClientRequestToken
<1> QED BY <1>4, <1>5

\* One execution moves on: same run and query, more bytes, and not once it has settled.
LEMMA ProgressIsSafe ==
  ASSUME ServiceOK, NEW t \in Tokens, Exists(t), executions[t].state \in Active,
         NEW e \in Execution, e.run = executions[t].run, e.query = executions[t].query,
         executions[t].scan <= e.scan,
         executions' = [executions EXCEPT ![t] = e], UNCHANGED inflight
  PROVE  ServiceOK' /\ ExecutionsGrow
<1>1. /\ executions' \in [Tokens -> Execution \cup {NoExecution}]
      /\ executions'[t] = e
      /\ \A u \in Tokens : u # t => executions'[u] = executions[u]
  BY DEF ServiceOK, AthenaTypeOK
<1>2. ExecutionsGrow
  <2> SUFFICES ASSUME NEW u \in Tokens, Exists(u)
               PROVE  /\ executions'[u] \in Execution
                      /\ executions'[u].run = executions[u].run
                      /\ executions'[u].query = executions[u].query
                      /\ executions[u].scan <= executions'[u].scan
                      /\ executions[u].state \in Terminal => executions'[u] = executions[u]
    BY DEF ExecutionsGrow
  <2>1. executions[u] \in Execution /\ executions[u].scan \in Nat
    BY MaxScanAssumption DEF ServiceOK, AthenaTypeOK, Exists, Execution
  <2> QED BY <1>1, <2>1 DEF Active, Terminal
<1>3. \A u \in Tokens : Exists(u)' => u = ClientRequestToken(executions'[u].run)
  BY <1>1 DEF ServiceOK, TokensAreOwn, Exists
<1>4. \A u \in Tokens : Exists(u)' => WithinApproved(executions'[u].query)
  BY <1>1 DEF ServiceOK, OnlyApprovedQueries, Exists
<1> QED BY <1>1, <1>2, <1>3, <1>4
      DEF ServiceOK, AthenaTypeOK, TokensAreOwn, OnlyApprovedQueries, ClientRequestToken

LEMMA AthenaIsSafe ==
  ASSUME ServiceOK, AthenaStep
  PROVE  ServiceOK' /\ ExecutionsGrow
<1>1. CASE ArriveLate
  <2>1. PICK s \in inflight : executions' = Arrived(s) /\ inflight' = inflight \ {s}
    BY <1>1 DEF ArriveLate
  <2>2. s \in Submission /\ s.token = ClientRequestToken(s.run) /\ WithinApproved(s.query)
    BY DEF ServiceOK, AthenaTypeOK, TokensAreOwn, OnlyApprovedQueries
  <2> QED BY <2>1, <2>2, ArrivalIsSafe
<1>2. ASSUME NEW t \in Tokens, Run(t) \/ ScanMore(t) \/ Succeed(t) \/ GiveUp(t)
      PROVE  ServiceOK' /\ ExecutionsGrow
  <2>1. /\ Exists(t) /\ executions[t].state \in Active /\ UNCHANGED inflight
        /\ executions[t] \in Execution
    BY <1>2 DEF Run, ScanMore, Succeed, GiveUp, Active, ServiceOK, AthenaTypeOK, Exists
  <2>2. executions[t].scan \in 0..MaxScan
    BY <2>1 DEF Execution
  <2>3. CASE Run(t)
    <3> DEFINE e == [executions[t] EXCEPT !.state = "RUNNING"]
    <3>1. executions' = [executions EXCEPT ![t] = e]
      BY <2>3 DEF Run
    <3>2. e \in Execution /\ e.run = executions[t].run /\ e.query = executions[t].query
          /\ executions[t].scan <= e.scan
      BY <2>1, <2>2, MaxScanAssumption DEF Execution, Active
    <3> HIDE DEF e
    <3> QED BY <2>1, <3>1, <3>2, ProgressIsSafe
  <2>4. CASE ScanMore(t)
    <3> DEFINE e == [executions[t] EXCEPT !.scan = executions[t].scan + 1]
    <3>1. executions' = [executions EXCEPT ![t] = e] /\ executions[t].scan < MaxScan
      BY <2>4 DEF ScanMore
    <3>2. e \in Execution /\ e.run = executions[t].run /\ e.query = executions[t].query
          /\ executions[t].scan <= e.scan
      BY <2>1, <2>2, <3>1, MaxScanAssumption DEF Execution, Active
    <3> HIDE DEF e
    <3> QED BY <2>1, <3>1, <3>2, ProgressIsSafe
  <2>5. CASE Succeed(t)
    <3> DEFINE e == [executions[t] EXCEPT !.state = "SUCCEEDED"]
    <3>1. executions' = [executions EXCEPT ![t] = e]
      BY <2>5 DEF Succeed
    <3>2. e \in Execution /\ e.run = executions[t].run /\ e.query = executions[t].query
          /\ executions[t].scan <= e.scan
      BY <2>1, <2>2, MaxScanAssumption DEF Execution, Terminal
    <3> HIDE DEF e
    <3> QED BY <2>1, <3>1, <3>2, ProgressIsSafe
  <2>6. CASE GiveUp(t)
    <3>0. PICK s \in {"FAILED", "CANCELLED"} :
            executions' = [executions EXCEPT ![t].state = s]
      BY <2>6 DEF GiveUp
    <3> DEFINE e == [executions[t] EXCEPT !.state = s]
    <3>1. executions' = [executions EXCEPT ![t] = e]
      BY <3>0
    <3>2. e \in Execution /\ e.run = executions[t].run /\ e.query = executions[t].query
          /\ executions[t].scan <= e.scan
      BY <2>1, <2>2, MaxScanAssumption DEF Execution, Terminal
    <3> HIDE DEF e
    <3> QED BY <2>1, <3>1, <3>2, ProgressIsSafe
  <2> QED BY <1>2, <2>3, <2>4, <2>5, <2>6
<1> QED BY <1>1, <1>2 DEF AthenaStep

-----------------------------------------------------------------------------
(* What is good stays good.                                                *)

LEMMA GoodCallStays ==
  ASSUME ExecutionsGrow, AthenaTypeOK, NEW p, NEW c, GoodCall(executions, p, c)
  PROVE  GoodCall(executions', p, c)
<1>1. CASE p \in {"poll", "load"}
  <2>1. c \in Call /\ c.token \in Tokens /\ c.scanned \in 0..MaxScan
    BY <1>1 DEF GoodCall, CallIsOwn, Call
  <2>2. Exists(c.token) /\ executions[c.token] \in Execution
    BY <1>1, <2>1 DEF GoodCall, CallIsLaunched, Exists, AthenaTypeOK
  <2>3. executions'[c.token] \in Execution /\ executions'[c.token] # NoExecution
    BY <2>1, <2>2, SentinelAssumption DEF ExecutionsGrow
  <2>4. executions[c.token].scan \in Nat /\ executions'[c.token].scan \in Nat
        /\ c.scanned \in Nat
    BY <2>1, <2>2, <2>3, MaxScanAssumption DEF Execution
  <2>5. CallIsLaunched(executions', c)
    BY <1>1, <2>1, <2>2, <2>3, <2>4 DEF GoodCall, CallIsLaunched, ExecutionsGrow
  <2>6. CallIsSettled(executions, c) => CallIsSettled(executions', c)
    BY <2>1, <2>2 DEF CallIsSettled, ExecutionsGrow, Terminal
  <2> QED BY <2>5, <2>6 DEF GoodCall
<1>2. CASE p \notin {"poll", "load"}
  BY <1>2 DEF GoodCall
<1> QED BY <1>1, <1>2

LEMMA GoodResultStays ==
  ASSUME ExecutionsGrow, AthenaTypeOK, NEW result, NEW run \in Runs,
         GoodResult(executions, result, run)
  PROVE  GoodResult(executions', result, run)
<1> DEFINE t == result.execution
<1>1. CASE t # NoExecution
  <2>1. ExecutionIsTrue(executions, result, run)
    BY <1>1 DEF GoodResult
  <2>2. t \in Tokens /\ Exists(t) /\ executions[t] \in Execution
    BY <2>1, TokenFacts DEF ExecutionIsTrue, Exists, AthenaTypeOK
  <2>3. executions'[t] \in Execution /\ executions'[t] # NoExecution
    BY <2>2, SentinelAssumption DEF ExecutionsGrow
  <2>4. executions[t].scan \in Nat /\ executions'[t].scan \in Nat /\ result.scanned \in Nat
    BY <2>2, <2>3, MaxScanAssumption DEF Execution, GoodResult, Result
  <2>5. ExecutionIsTrue(executions', result, run)
    BY <2>1, <2>2, <2>3, <2>4 DEF ExecutionIsTrue, ExecutionsGrow
  <2>6. PublishedIsTrue(executions, result) => PublishedIsTrue(executions', result)
    BY <2>2 DEF PublishedIsTrue, ExecutionsGrow, Terminal
  <2> QED BY <2>5, <2>6 DEF GoodResult
<1>2. CASE t = NoExecution
  BY <1>2 DEF GoodResult, PublishedIsTrue
<1> QED BY <1>1, <1>2

\* TypeOK of the variables a read changes.
LocalTypeOK ==
  /\ pc \in [Readers -> {"idle", "submit", "poll", "load"}]
  /\ call \in [Readers -> Call \cup {NoCall}]
  /\ cache \in [Readers -> [Runs -> Result \cup {NoResult}]]
  /\ returned \in [Readers -> Return \cup {NoReturn}]

LEMMA UntouchedIsGood ==
  ASSUME IInv, ExecutionsGrow, UNCHANGED rvars
  PROVE  LocalTypeOK' /\ GoodCalls' /\ GoodMemory'
<1>1. LocalTypeOK'
  BY DEF IInv, TypeOK, LocalTypeOK, rvars
<1>2. GoodCalls'
  BY GoodCallStays DEF IInv, TypeOK, GoodCalls, rvars
<1>3. GoodMemory'
  BY GoodResultStays DEF IInv, TypeOK, GoodMemory, Remembered, rvars
<1> QED BY <1>1, <1>2, <1>3

LEMMA FinishIsGood ==
  ASSUME IInv, ExecutionsGrow, NEW r \in Readers, NEW result, NEW run \in Runs,
         GoodResult(executions', result, run), Finish(r, result)
  PROVE  LocalTypeOK' /\ GoodCalls' /\ GoodMemory'
<1>1. result \in Result /\ result.request.run = run /\ result.request \in Requests
  BY DEF GoodResult, Result
<1>2. /\ cache' = [cache EXCEPT ![r] = [cache[r] EXCEPT ![run] = result]]
      /\ returned' = [returned EXCEPT ![r] = [request |-> result.request, result |-> result]]
      /\ pc' = [pc EXCEPT ![r] = "idle"]
      /\ call' = [call EXCEPT ![r] = NoCall]
  BY <1>1 DEF Finish, Give
<1>3. [request |-> result.request, result |-> result] \in Return
  BY <1>1 DEF Return
<1>4. LocalTypeOK'
  BY <1>1, <1>2, <1>3 DEF IInv, TypeOK, LocalTypeOK
<1>5. GoodCalls'
  <2> SUFFICES ASSUME NEW s \in Readers
               PROVE  GoodCall(executions', pc'[s], call'[s])
    BY DEF GoodCalls
  <2>1. CASE s = r
    BY <1>2, <2>1 DEF GoodCall, IInv, TypeOK
  <2>2. CASE s # r
    BY <1>2, <2>2, GoodCallStays DEF IInv, TypeOK, GoodCalls
  <2> QED BY <2>1, <2>2
<1>6. GoodMemory'
  <2> SUFFICES ASSUME NEW s \in Readers, NEW x \in Runs, cache'[s][x] # NoResult
               PROVE  GoodResult(executions', cache'[s][x], x)
    BY DEF GoodMemory, Remembered
  <2>1. CASE s = r /\ x = run
    BY <1>2, <2>1 DEF IInv, TypeOK
  <2>2. CASE ~(s = r /\ x = run)
    <3>1. cache'[s][x] = cache[s][x]
      BY <1>2, <2>2 DEF IInv, TypeOK
    <3> QED BY <3>1, GoodResultStays DEF IInv, TypeOK, GoodMemory, Remembered
  <2> QED BY <2>1, <2>2
<1> QED BY <1>4, <1>5, <1>6

LEMMA GoOnIsGood ==
  ASSUME IInv, ExecutionsGrow, NEW r \in Readers, NEW p \in {"submit", "poll", "load"},
         NEW c \in Call, GoodCall(executions', p, c), GoOn(r, p, c)
  PROVE  LocalTypeOK' /\ GoodCalls' /\ GoodMemory'
<1>1. /\ pc' = [pc EXCEPT ![r] = p] /\ call' = [call EXCEPT ![r] = c]
      /\ cache' = cache /\ returned' = returned
  BY DEF GoOn
<1>2. LocalTypeOK'
  BY <1>1 DEF IInv, TypeOK, LocalTypeOK
<1>3. GoodCalls'
  <2> SUFFICES ASSUME NEW s \in Readers
               PROVE  GoodCall(executions', pc'[s], call'[s])
    BY DEF GoodCalls
  <2>1. CASE s = r
    BY <1>1, <2>1 DEF IInv, TypeOK
  <2>2. CASE s # r
    BY <1>1, <2>2, GoodCallStays DEF IInv, TypeOK, GoodCalls
  <2> QED BY <2>1, <2>2
<1>4. GoodMemory'
  BY <1>1, GoodResultStays DEF IInv, TypeOK, GoodMemory, Remembered
<1> QED BY <1>2, <1>3, <1>4

-----------------------------------------------------------------------------
(* The results a read can end with are good.                               *)

LEMMA EmptyResultIsGood ==
  ASSUME NEW q \in Requests, q.run \in Runs, NEW plan \in Plan \cup {NoPlan},
         NEW errors \in SUBSET ErrorCodes, NEW ex
  PROVE  GoodResult(ex, EmptyResult(q, plan, errors), q.run)
<1>1. 0 \in 0..MaxScan
  BY MaxScanAssumption
<1>2. EmptyResult(q, plan, errors) \in Result
  BY <1>1 DEF EmptyResult, Result, QueryStates
<1> QED BY <1>2 DEF EmptyResult, GoodResult, Published

LEMMA UnsubmittedIsGood ==
  ASSUME NEW c, CallIsOwn(c), NEW error \in ErrorCodes, NEW ex
  PROVE  GoodResult(ex, Unsubmitted(c, error), c.request.run)
<1>1. c.request \in Requests /\ c.request.run \in Runs /\ c.plan \in Plan
  BY DEF CallIsOwn, Call
<1>2. {error} \in SUBSET ErrorCodes
  OBVIOUS
<1> QED BY <1>1, <1>2, EmptyResultIsGood DEF Unsubmitted

\* What call c knows of a query that has settled.
CallIsTrue(ex, c) ==
  c.query_state \in Terminal =>
    ex[c.token].state = c.query_state /\ c.scanned = ex[c.token].scan

\* What a call reports of its execution is true of it.
LEMMA CallReportsTruth ==
  ASSUME NEW c, NEW ex, CallIsOwn(c), CallIsLaunched(ex, c), CallIsTrue(ex, c),
         NEW result, result.execution = c.token, result.scanned = c.scanned,
         result.query_state = c.query_state
  PROVE  ExecutionIsTrue(ex, result, c.request.run)
BY DEF ExecutionIsTrue, CallIsOwn, CallIsLaunched, CallIsTrue

\* A read that ends with errors, whatever flags a loader set.
LEMMA FailureIsGood ==
  ASSUME NEW c, NEW ex, CallIsOwn(c), CallIsLaunched(ex, c), CallIsTrue(ex, c),
         NEW errors \in SUBSET ErrorCodes, errors # {},
         NEW determined \in BOOLEAN, NEW publication \in BOOLEAN
  PROVE  GoodResult(ex, Loaded(c, errors, "none", determined, publication), c.request.run)
<1> DEFINE result == Loaded(c, errors, "none", determined, publication)
<1>1. result \in Result
  BY DEF Result, CallIsOwn, Call, Loaded
<1>2. /\ result.execution = c.token /\ result.scanned = c.scanned
      /\ result.query_state = c.query_state /\ result.request = c.request
      /\ result.errors = errors /\ result.rows = "none"
  BY DEF Loaded
<1> HIDE DEF result
<1>3. ExecutionIsTrue(ex, result, c.request.run)
  BY <1>2, CallReportsTruth
<1>4. GoodResult(ex, result, c.request.run)
  BY <1>1, <1>2, <1>3 DEF GoodResult, Published
<1> QED BY <1>4 DEF result

LEMMA PlainFailureIsGood ==
  ASSUME NEW c, NEW ex, CallIsOwn(c), CallIsLaunched(ex, c), CallIsTrue(ex, c),
         NEW error \in ErrorCodes
  PROVE  GoodResult(ex, Submitted(c, {error}), c.request.run)
<1>1. {error} \in SUBSET ErrorCodes /\ {error} # {} /\ FALSE \in BOOLEAN
  OBVIOUS
<1> QED BY <1>1, FailureIsGood DEF Submitted

\* A read that ends with rows.
LEMMA SuccessIsGood ==
  ASSUME NEW c, NEW ex, CallIsOwn(c), CallIsLaunched(ex, c), CallIsTrue(ex, c),
         ex[c.token].state = "SUCCEEDED"
  PROVE  GoodResult(ex, Loaded(c, {}, "complete", TRUE, TRUE), c.request.run)
<1> DEFINE result == Loaded(c, {}, "complete", TRUE, TRUE)
<1>1. result \in Result
  BY DEF Result, CallIsOwn, Call, Loaded
<1>2. /\ result.execution = c.token /\ result.scanned = c.scanned /\ result.plan = c.plan
      /\ result.query_state = c.query_state /\ result.request = c.request
      /\ result.errors = {} /\ result.rows = "complete" /\ result.publication_allowed
      /\ result.source_set_determined
  BY DEF Loaded
<1> HIDE DEF result
<1>3. ExecutionIsTrue(ex, result, c.request.run)
  BY <1>2, CallReportsTruth
<1>4. QueryOf(result) = BuildSourceQuery(c.plan, c.request.include_content)
  BY <1>2 DEF QueryOf
<1>5. c.token \in Tokens /\ c.token # NoExecution
  BY SentinelAssumption DEF CallIsOwn, Call
<1>6. PublishedIsTrue(ex, result)
  BY <1>2, <1>4, <1>5 DEF PublishedIsTrue, CallIsLaunched, CallIsOwn
<1>7. GoodResult(ex, result, c.request.run)
  BY <1>1, <1>2, <1>3, <1>6 DEF GoodResult, Published
<1> QED BY <1>7 DEF result

-----------------------------------------------------------------------------
(* What a reader knows of the call it is about to make, and how it goes on. *)

LEMMA CallFacts ==
  ASSUME IInv, NEW r \in Readers, pc[r] # "idle"
  PROVE  /\ CallIsOwn(call[r]) /\ GoodCall(executions, pc[r], call[r])
         /\ call[r] \in Call /\ call[r].request.run \in Runs /\ Token(r) \in Tokens
         /\ pc[r] \in {"submit", "poll", "load"}
<1>1. GoodCall(executions, pc[r], call[r]) /\ pc[r] \in {"idle", "submit", "poll", "load"}
  BY DEF IInv, TypeOK, GoodCalls
<1> QED BY <1>1 DEF GoodCall, CallIsOwn, Call, Token

\* A call that differs from c in its counters, its query state and its bytes scanned is
\* still a call of the same read.
LEMMA SameReadIsOwn ==
  ASSUME NEW c, CallIsOwn(c), NEW retries \in 0..MaxRetries, NEW attempts \in 0..MaxAttempts,
         NEW scanned \in 0..MaxScan, NEW query_state \in QueryStates,
         NEW d,
         d = [request |-> c.request, plan |-> c.plan, token |-> c.token, retries |-> retries,
              attempts |-> attempts, scanned |-> scanned, query_state |-> query_state]
  PROVE  CallIsOwn(d) /\ d \in Call
BY DEF CallIsOwn, Call

\* The call the raising branch of _call_with_retries goes on with.
LEMMA RetryIsGood ==
  ASSUME IInv, ExecutionsGrow, NEW r \in Readers, pc[r] # "idle", NEW result,
         GoodResult(executions', result, call[r].request.run), RetryOrFinish(r, result)
  PROVE  LocalTypeOK' /\ GoodCalls' /\ GoodMemory'
<1>1. CallIsOwn(call[r]) /\ call[r] \in Call /\ call[r].request.run \in Runs
      /\ pc[r] \in {"submit", "poll", "load"}
  BY CallFacts
<1>2. CASE call[r].retries < MaxRetries
  <2> DEFINE c == [call[r] EXCEPT !.retries = call[r].retries + 1]
  <2>1. GoOn(r, pc[r], c)
    BY <1>2 DEF RetryOrFinish
  <2>2. call[r].retries + 1 \in 0..MaxRetries
    BY <1>1, <1>2, ReaderAssumption DEF Call
  <2>3. c \in Call
    BY <1>1, <2>2 DEF Call
  <2>4. /\ c.request = call[r].request /\ c.plan = call[r].plan /\ c.token = call[r].token
        /\ c.attempts = call[r].attempts /\ c.scanned = call[r].scanned
        /\ c.query_state = call[r].query_state
    BY <1>1 DEF Call
  <2> HIDE DEF c
  <2>5. GoodCall(executions', pc[r], call[r])
    BY CallFacts, GoodCallStays DEF IInv, TypeOK
  <2>6. GoodCall(executions', pc[r], c)
    BY <2>3, <2>4, <2>5 DEF GoodCall, CallIsOwn, CallIsLaunched, CallIsSettled
  <2> QED BY <1>1, <2>1, <2>3, <2>6, GoOnIsGood
<1>3. CASE ~(call[r].retries < MaxRetries)
  BY <1>1, <1>3, FinishIsGood DEF RetryOrFinish
<1> QED BY <1>2, <1>3

-----------------------------------------------------------------------------
(* start_query_execution.                                                  *)

LEMMA SubmissionIsOwn ==
  ASSUME IInv, NEW r \in Readers, pc[r] = "submit"
  PROVE  /\ SubmissionOf(r) \in Submission
         /\ SubmissionOf(r).token = ClientRequestToken(SubmissionOf(r).run)
         /\ SubmissionOf(r).token = Token(r)
         /\ SubmissionOf(r).query =
              BuildSourceQuery(call[r].plan, call[r].request.include_content)
         /\ WithinApproved(SubmissionOf(r).query)
<1>1. CallIsOwn(call[r]) /\ call[r] \in Call /\ call[r].request \in Request
  BY CallFacts, ReaderAssumption DEF Call
<1>2. BuildSourceQuery(call[r].plan, call[r].request.include_content) \in Query
  BY <1>1 DEF BuildSourceQuery, Query, Call, Plan, Request
<1> QED BY <1>1, <1>2 DEF SubmissionOf, Submission, Token, CallIsOwn, Call

\* ServiceOK is the part of IInv that speaks of Athena.
LEMMA ServiceIsOK ==
  ASSUME IInv
  PROVE  ServiceOK
BY DEF IInv, TypeOK, ServiceOK

\* A submission on the wire, its reader having moved on, is a safe one.
LEMMA WireIsSafe ==
  ASSUME IInv, NEW r \in Readers, pc[r] = "submit", executions' = executions,
         inflight' = inflight \cup {SubmissionOf(r)}
  PROVE  ServiceOK' /\ ExecutionsGrow
<1>1. ExecutionsGrow
  BY ServiceIsOK, SameExecutionsGrow DEF ServiceOK
<1> QED BY <1>1, SubmissionIsOwn, ServiceIsOK
      DEF ServiceOK, AthenaTypeOK, TokensAreOwn, OnlyApprovedQueries, Exists, ClientRequestToken

\* Once Athena has accepted the submission, the call knows its execution.
LEMMA AcceptedIsLaunched ==
  ASSUME IInv, NEW r \in Readers, pc[r] = "submit", Accepts(SubmissionOf(r)),
         executions' = Arrived(SubmissionOf(r)), inflight' = inflight
  PROVE  /\ ServiceOK' /\ ExecutionsGrow
         /\ CallIsLaunched(executions', call[r])
<1> DEFINE s == SubmissionOf(r)
<1>1. /\ s \in Submission /\ s.token = ClientRequestToken(s.run) /\ s.token = Token(r)
      /\ s.query = BuildSourceQuery(call[r].plan, call[r].request.include_content)
      /\ WithinApproved(s.query)
  BY SubmissionIsOwn
<1>2. Accepts(s) /\ executions' = Arrived(s) /\ inflight' \subseteq inflight
  OBVIOUS
<1> HIDE DEF s
<1>3. /\ ServiceOK' /\ ExecutionsGrow /\ executions'[Token(r)] # NoExecution
      /\ executions'[Token(r)].query =
           BuildSourceQuery(call[r].plan, call[r].request.include_content)
  BY <1>1, <1>2, ServiceIsOK, ArrivalIsSafe DEF Exists
<1>4. call[r].scanned = 0 /\ Token(r) \in Tokens
  BY CallFacts DEF GoodCall
<1>5. executions'[Token(r)] \in Execution
  BY <1>3, <1>4 DEF ServiceOK, AthenaTypeOK
<1>6. executions'[Token(r)].scan \in Nat
  BY <1>5, MaxScanAssumption DEF Execution
<1> QED BY <1>3, <1>4, <1>5, <1>6 DEF CallIsLaunched, Token

\* The query of call c is over, or cannot be polled: its rows are loaded or done without.
LEMMA AfterPollingIsGood ==
  ASSUME IInv, ExecutionsGrow, NEW r \in Readers, NEW c \in Call,
         CallIsOwn(c), CallIsLaunched(executions', c), CallIsSettled(executions', c),
         AfterPolling(r, c)
  PROVE  LocalTypeOK' /\ GoodCalls' /\ GoodMemory'
<1>1. CASE config[r].result_loader
  <2>1. GoOn(r, "load", c) /\ GoodCall(executions', "load", c)
    BY <1>1 DEF AfterPolling, GoodCall
  <2> QED BY <2>1, GoOnIsGood
<1>2. CASE ~config[r].result_loader
  <2>1. Finish(r, Submitted(c, {"SOURCE_RESULTS_NOT_LOADED"}))
    BY <1>2 DEF AfterPolling
  <2>2. CallIsTrue(executions', c) /\ c.request.run \in Runs
    BY DEF CallIsTrue, CallIsSettled, CallIsOwn, Terminal
  <2>3. GoodResult(executions', Submitted(c, {"SOURCE_RESULTS_NOT_LOADED"}), c.request.run)
    BY <2>2, PlainFailureIsGood DEF ErrorCodes
  <2> QED BY <2>1, <2>2, <2>3, FinishIsGood
<1> QED BY <1>1, <1>2

LEMMA SubmitIsGood ==
  ASSUME IInv, NEW r \in Readers, Submit(r)
  PROVE  ServiceOK' /\ LocalTypeOK' /\ GoodCalls' /\ GoodMemory'
<1>1. /\ pc[r] = "submit"
      /\ SubmitAnswered(r) \/ SubmitUnusable(r) \/ SubmitRaised(r)
  BY DEF Submit, SubmitAnswered, SubmitUnusable, SubmitRaised
<1>2. /\ CallIsOwn(call[r]) /\ call[r] \in Call /\ call[r].request.run \in Runs
      /\ call[r].scanned = 0 /\ call[r].attempts = 0
  BY <1>1, CallFacts DEF GoodCall
<1>3. \A e \in ErrorCodes : \A ex :
        GoodResult(ex, Unsubmitted(call[r], e), call[r].request.run)
  BY <1>2, UnsubmittedIsGood
<1>4. CASE SubmitAnswered(r)
  <2>1. /\ Accepts(SubmissionOf(r)) /\ executions' = Arrived(SubmissionOf(r))
        /\ inflight' = inflight
    BY <1>4 DEF SubmitAnswered
  <2>2. ServiceOK' /\ ExecutionsGrow /\ CallIsLaunched(executions', call[r])
    BY <1>1, <2>1, AcceptedIsLaunched
  <2> DEFINE c == [call[r] EXCEPT !.retries = 0]
             d == [c EXCEPT !.query_state = "NOT_POLLED"]
  <2>3. /\ c \in Call /\ c.request = call[r].request /\ c.plan = call[r].plan
        /\ c.token = call[r].token /\ c.scanned = call[r].scanned /\ c.attempts = 0
    BY <1>2, ReaderAssumption DEF Call
  <2>4. IF config[r].pollable THEN GoOn(r, "poll", c) ELSE AfterPolling(r, d)
    BY <1>4 DEF SubmitAnswered
  <2> HIDE DEF c
  <2>5. /\ d \in Call /\ d.request = c.request /\ d.plan = c.plan /\ d.token = c.token
        /\ d.scanned = c.scanned /\ d.query_state = "NOT_POLLED"
    BY <2>3 DEF Call, QueryStates
  <2> HIDE DEF d
  <2>6. CallIsOwn(c) /\ CallIsLaunched(executions', c) /\ 0 < MaxAttempts
    BY <1>2, <2>2, <2>3, ReaderAssumption DEF CallIsOwn, CallIsLaunched
  <2>7. CallIsOwn(d) /\ CallIsLaunched(executions', d) /\ CallIsSettled(executions', d)
    BY <2>5, <2>6 DEF CallIsOwn, CallIsLaunched, CallIsSettled
  <2>8. CASE config[r].pollable
    <3>1. GoOn(r, "poll", c) /\ GoodCall(executions', "poll", c)
      BY <2>3, <2>4, <2>6, <2>8 DEF GoodCall
    <3> QED BY <2>2, <2>3, <3>1, GoOnIsGood
  <2>9. CASE ~config[r].pollable
    <3>1. AfterPolling(r, d)
      BY <2>4, <2>9
    <3> QED BY <2>2, <2>5, <2>7, <3>1, AfterPollingIsGood
  <2> QED BY <2>8, <2>9
<1>5. CASE SubmitUnusable(r)
  <2>1. /\ Accepts(SubmissionOf(r)) /\ executions' = Arrived(SubmissionOf(r))
        /\ inflight' = inflight
    BY <1>5 DEF SubmitUnusable
  <2>2. PICK e \in {"SOURCE_QUERY_SUBMISSION_FAILED", "SOURCE_QUERY_ID_MISSING"} :
          Finish(r, Unsubmitted(call[r], e))
    BY <1>5 DEF SubmitUnusable
  <2>3. ServiceOK' /\ ExecutionsGrow
    BY <1>1, <2>1, AcceptedIsLaunched
  <2>4. GoodResult(executions', Unsubmitted(call[r], e), call[r].request.run)
    BY <1>3, <2>2 DEF ErrorCodes
  <2> QED BY <1>2, <2>2, <2>3, <2>4, FinishIsGood
<1>6. CASE SubmitRaised(r)
  <2> DEFINE result == Unsubmitted(call[r], "SOURCE_QUERY_SUBMISSION_FAILED")
  <2>1. RetryOrFinish(r, result)
    BY <1>6 DEF SubmitRaised
  <2>2. ServiceOK' /\ ExecutionsGrow
    <3>1. CASE UNCHANGED <<executions, inflight>>
      BY <3>1, ServiceIsOK, SameExecutionsGrow
        DEF ServiceOK, AthenaTypeOK, TokensAreOwn, OnlyApprovedQueries, Exists, ClientRequestToken
    <3>2. CASE /\ Accepts(SubmissionOf(r)) /\ executions' = Arrived(SubmissionOf(r))
               /\ UNCHANGED inflight
      BY <1>1, <3>2, AcceptedIsLaunched
    <3>3. CASE inflight' = inflight \cup {SubmissionOf(r)} /\ UNCHANGED executions
      BY <1>1, <3>3, WireIsSafe
    <3> QED BY <1>6, <3>1, <3>2, <3>3 DEF SubmitRaised
  <2>3. GoodResult(executions', result, call[r].request.run)
    BY <1>3 DEF ErrorCodes
  <2> HIDE DEF result
  <2> QED BY <1>1, <2>1, <2>2, <2>3, RetryIsGood
<1> QED BY <1>1, <1>4, <1>5, <1>6

-----------------------------------------------------------------------------
(* _poll_query and the result loader.                                      *)

LEMMA StandingService ==
  ASSUME IInv, UNCHANGED <<executions, inflight>>
  PROVE  ServiceOK' /\ ExecutionsGrow
BY ServiceIsOK, SameExecutionsGrow
  DEF ServiceOK, AthenaTypeOK, TokensAreOwn, OnlyApprovedQueries, Exists, ClientRequestToken

\* The locals after one more answered poll: the scan statistics are Athena's.
LEMMA PolledFacts ==
  ASSUME IInv, NEW r \in Readers, pc[r] = "poll", NEW state \in QueryStates,
         NEW c, c = Polled(r, state)
  PROVE  /\ c \in Call /\ CallIsOwn(c) /\ CallIsLaunched(executions, c)
         /\ c.request = call[r].request /\ c.token = Token(r) /\ c.query_state = state
         /\ c.scanned = executions[Token(r)].scan
         /\ c.attempts = call[r].attempts + 1 /\ c.retries = 0
<1>1. /\ CallIsOwn(call[r]) /\ CallIsLaunched(executions, call[r]) /\ call[r] \in Call
      /\ Token(r) \in Tokens /\ call[r].attempts < MaxAttempts
  BY CallFacts DEF GoodCall
<1> DEFINE s == executions[Token(r)].scan
<1>2. executions[Token(r)] \in Execution
  BY <1>1 DEF IInv, TypeOK, AthenaTypeOK, CallIsLaunched, Token
<1>3. s \in 0..MaxScan /\ call[r].scanned \in 0..MaxScan /\ call[r].scanned <= s
  BY <1>1, <1>2 DEF Execution, Call, CallIsLaunched, Token
<1>4. Later(call[r].scanned, s) = s
  BY <1>3, MaxScanAssumption DEF Later
<1>5. c = [call[r] EXCEPT !.retries = 0, !.attempts = call[r].attempts + 1,
                          !.query_state = state, !.scanned = s]
  BY <1>4 DEF Polled
<1> HIDE DEF s
<1>6. c = [request |-> call[r].request, plan |-> call[r].plan, token |-> call[r].token,
           retries |-> 0, attempts |-> call[r].attempts + 1, scanned |-> s,
           query_state |-> state]
  BY <1>1, <1>5 DEF Call
<1>7. 0 \in 0..MaxRetries /\ call[r].attempts + 1 \in 0..MaxAttempts
  BY <1>1, ReaderAssumption DEF Call
<1>8. CallIsOwn(c) /\ c \in Call
  BY <1>1, <1>3, <1>6, <1>7, SameReadIsOwn
<1>9. CallIsLaunched(executions, c)
  BY <1>1, <1>3, <1>6, MaxScanAssumption DEF CallIsLaunched, Token, s
<1> QED BY <1>6, <1>8, <1>9 DEF Token, s

LEMMA PollIsGood ==
  ASSUME IInv, NEW r \in Readers, Poll(r)
  PROVE  ServiceOK' /\ LocalTypeOK' /\ GoodCalls' /\ GoodMemory'
<1>1. pc[r] = "poll" /\ UNCHANGED <<executions, inflight>>
  BY DEF Poll, PollSucceeded, PollSettled, PollUnusable, PollPending, PollRaised, Polling
<1>2. ServiceOK' /\ ExecutionsGrow /\ executions' = executions
  BY <1>1, StandingService
<1>3. /\ CallIsOwn(call[r]) /\ CallIsLaunched(executions, call[r]) /\ call[r] \in Call
      /\ call[r].request.run \in Runs /\ call[r].attempts < MaxAttempts
  BY <1>1, CallFacts DEF GoodCall
<1> DEFINE u == [call[r] EXCEPT !.query_state = "UNKNOWN"]
<1>4. /\ u \in Call /\ CallIsOwn(u) /\ CallIsLaunched(executions, u)
      /\ u.request = call[r].request /\ CallIsTrue(executions, u)
  <2>1. /\ u \in Call /\ u.request = call[r].request /\ u.plan = call[r].plan
        /\ u.token = call[r].token /\ u.scanned = call[r].scanned
        /\ u.query_state = "UNKNOWN"
    BY <1>3 DEF Call, QueryStates
  <2> HIDE DEF u
  <2> QED BY <1>3, <2>1 DEF CallIsOwn, CallIsLaunched, CallIsTrue, Terminal
<1> HIDE DEF u
<1>5. GoodResult(executions, Submitted(u, {"SOURCE_QUERY_STATUS_FAILED"}),
                 call[r].request.run)
  BY <1>4, PlainFailureIsGood DEF ErrorCodes, PassedErrors
<1>6. CASE PollSucceeded(r)
  <2> DEFINE c == Polled(r, "SUCCEEDED")
  <2>1. AfterPolling(r, c) /\ executions[Token(r)].state = "SUCCEEDED"
    BY <1>6 DEF PollSucceeded
  <2>2. /\ c \in Call /\ CallIsOwn(c) /\ CallIsLaunched(executions, c)
        /\ c.token = Token(r) /\ c.query_state = "SUCCEEDED"
        /\ c.scanned = executions[Token(r)].scan
    BY <1>1, PolledFacts DEF QueryStates, Terminal
  <2> HIDE DEF c
  <2>3. CallIsSettled(executions, c)
    BY <2>1, <2>2 DEF CallIsSettled
  <2> QED BY <1>2, <2>1, <2>2, <2>3, AfterPollingIsGood
<1>7. CASE PollSettled(r)
  <2>1. PICK state \in {"FAILED", "CANCELLED"}, e \in ErrorCodes :
          /\ executions[Token(r)].state = state
          /\ Finish(r, Submitted(Polled(r, state), {e}))
    BY <1>7 DEF PollSettled, ErrorCodes, PassedErrors
  <2> DEFINE c == Polled(r, state)
  <2>2. /\ c \in Call /\ CallIsOwn(c) /\ CallIsLaunched(executions, c)
        /\ c.request = call[r].request /\ c.token = Token(r) /\ c.query_state = state
        /\ c.scanned = executions[Token(r)].scan
    BY <1>1, PolledFacts DEF QueryStates, Terminal
  <2>3. Finish(r, Submitted(c, {e}))
    BY <2>1
  <2> HIDE DEF c
  <2>4. CallIsTrue(executions, c)
    BY <2>1, <2>2 DEF CallIsTrue
  <2>5. GoodResult(executions, Submitted(c, {e}), call[r].request.run)
    BY <2>2, <2>4, PlainFailureIsGood
  <2> QED BY <1>2, <1>3, <2>3, <2>5, FinishIsGood
<1>8. CASE PollUnusable(r)
  <2>1. CASE Finish(r, Submitted(u, {"SOURCE_QUERY_STATUS_FAILED"}))
    BY <1>2, <1>3, <1>5, <2>1, FinishIsGood
  <2>2. CASE Finish(r, Submitted(Polled(r, "UNKNOWN"), {"SOURCE_QUERY_STATUS_INVALID"}))
    <3> DEFINE c == Polled(r, "UNKNOWN")
    <3>1. /\ CallIsOwn(c) /\ CallIsLaunched(executions, c)
          /\ c.request = call[r].request /\ c.query_state = "UNKNOWN"
      BY <1>1, PolledFacts DEF QueryStates
    <3> HIDE DEF c
    <3>2. CallIsTrue(executions, c)
      BY <3>1 DEF CallIsTrue, Terminal
    <3>3. GoodResult(executions, Submitted(c, {"SOURCE_QUERY_STATUS_INVALID"}),
                     call[r].request.run)
      BY <3>1, <3>2, PlainFailureIsGood DEF ErrorCodes
    <3> QED BY <1>2, <1>3, <2>2, <3>3, FinishIsGood DEF c
  <2> QED BY <1>8, <2>1, <2>2 DEF PollUnusable, u
<1>9. CASE PollPending(r)
  <2> DEFINE c == Polled(r, "NONE")
             d == [c EXCEPT !.query_state = "TIMEOUT"]
  <2>1. /\ c \in Call /\ CallIsOwn(c) /\ CallIsLaunched(executions, c)
        /\ c.request = call[r].request
    BY <1>1, PolledFacts DEF QueryStates
  <2>2. \/ c.attempts < MaxAttempts /\ GoOn(r, "poll", c)
        \/ Finish(r, Submitted(d, {"SOURCE_QUERY_TIMEOUT"}))
    BY <1>9 DEF PollPending
  <2> HIDE DEF c
  <2>3. CASE c.attempts < MaxAttempts /\ GoOn(r, "poll", c)
    <3>1. GoodCall(executions, "poll", c)
      BY <2>1, <2>3 DEF GoodCall
    <3> QED BY <1>2, <2>1, <2>3, <3>1, GoOnIsGood
  <2>4. CASE Finish(r, Submitted(d, {"SOURCE_QUERY_TIMEOUT"}))
    <3>1. /\ d \in Call /\ d.request = c.request /\ d.plan = c.plan /\ d.token = c.token
          /\ d.scanned = c.scanned /\ d.query_state = "TIMEOUT"
      BY <2>1 DEF Call, QueryStates
    <3> HIDE DEF d
    <3>2. CallIsOwn(d) /\ CallIsLaunched(executions, d) /\ CallIsTrue(executions, d)
      BY <2>1, <3>1 DEF CallIsOwn, CallIsLaunched, CallIsTrue, Terminal
    <3>3. GoodResult(executions, Submitted(d, {"SOURCE_QUERY_TIMEOUT"}),
                     call[r].request.run)
      BY <2>1, <3>1, <3>2, PlainFailureIsGood DEF ErrorCodes, PassedErrors
    <3> QED BY <1>2, <1>3, <2>4, <3>3, FinishIsGood
  <2> QED BY <2>2, <2>3, <2>4
<1>10. CASE PollRaised(r)
  <2>1. RetryOrFinish(r, Submitted(u, {"SOURCE_QUERY_STATUS_FAILED"}))
    BY <1>10 DEF PollRaised, u
  <2> QED BY <1>1, <1>2, <1>5, <2>1, RetryIsGood
<1> QED BY <1>6, <1>7, <1>8, <1>9, <1>10 DEF Poll

LEMMA LoadIsGood ==
  ASSUME IInv, NEW r \in Readers, Load(r)
  PROVE  ServiceOK' /\ LocalTypeOK' /\ GoodCalls' /\ GoodMemory'
<1>1. pc[r] = "load" /\ UNCHANGED <<executions, inflight>>
  BY DEF Load, LoadAnswered, LoadUnusable, LoadRaised, Loading
<1>2. ServiceOK' /\ ExecutionsGrow /\ executions' = executions
  BY <1>1, StandingService
<1>3. /\ CallIsOwn(call[r]) /\ CallIsLaunched(executions, call[r])
      /\ CallIsSettled(executions, call[r]) /\ call[r] \in Call
      /\ call[r].request.run \in Runs /\ Token(r) \in Tokens
  BY <1>1, CallFacts DEF GoodCall
<1>4. CallIsTrue(executions, call[r])
  BY <1>3 DEF CallIsTrue, CallIsSettled, Terminal
<1>5. GoodResult(executions, Submitted(call[r], {"SOURCE_QUERY_RESULT_FAILED"}),
                 call[r].request.run)
  BY <1>3, <1>4, PlainFailureIsGood DEF ErrorCodes, PassedErrors
<1>6. CASE LoadAnswered(r)
  <2>1. PICK a \in LoaderAnswers(Token(r)) :
          Finish(r, IF BoundedSourceErrors(a.errors) # {}
                    THEN Loaded([call[r] EXCEPT !.scanned = Later(@, a.scanned)],
                                BoundedSourceErrors(a.errors), "none", a.determined,
                                a.publication)
                    ELSE Loaded([call[r] EXCEPT !.scanned = Later(@, a.scanned)],
                                {}, a.rows, TRUE, TRUE))
    BY <1>6 DEF LoadAnswered
  <2>2. /\ a.determined \in BOOLEAN /\ a.publication \in BOOLEAN
        /\ a.scanned \in {0, executions[Token(r)].scan}
        /\ a.errors = {} => a.rows = "complete" /\ executions[Token(r)].state = "SUCCEEDED"
    BY DEF LoaderAnswers
  <2> DEFINE errors == BoundedSourceErrors(a.errors)
             n == Later(call[r].scanned, a.scanned)
             c == [call[r] EXCEPT !.scanned = n]
  <2>3. errors \in SUBSET ErrorCodes /\ (errors = {} <=> a.errors = {})
    BY DEF BoundedSourceErrors, ErrorCodes, PassedErrors
  <2>4. executions[Token(r)] \in Execution
    BY <1>3 DEF IInv, TypeOK, AthenaTypeOK, CallIsLaunched, Token
  <2>5. /\ executions[Token(r)].scan \in 0..MaxScan /\ call[r].scanned \in 0..MaxScan
        /\ call[r].scanned <= executions[Token(r)].scan
    BY <1>3, <2>4 DEF Execution, Call, CallIsLaunched, Token
  <2>6. /\ n \in 0..MaxScan /\ n <= executions[Token(r)].scan
        /\ call[r].scanned = executions[Token(r)].scan => n = call[r].scanned
    BY <2>2, <2>5, MaxScanAssumption DEF Later
  <2>7. IF errors # {}
        THEN Finish(r, Loaded(c, errors, "none", a.determined, a.publication))
        ELSE Finish(r, Loaded(c, {}, a.rows, TRUE, TRUE))
    BY <2>1
  <2> HIDE DEF errors, n
  <2>8. /\ c \in Call /\ c.request = call[r].request /\ c.plan = call[r].plan
        /\ c.token = call[r].token /\ c.scanned = n
        /\ c.query_state = call[r].query_state
    BY <1>3, <2>6 DEF Call
  <2> HIDE DEF c
  <2>9. CallIsOwn(c) /\ CallIsLaunched(executions, c) /\ CallIsTrue(executions, c)
    BY <1>3, <1>4, <2>6, <2>8 DEF CallIsOwn, CallIsLaunched, CallIsTrue, Token
  <2>10. CASE errors # {}
    <3> DEFINE result == Loaded(c, errors, "none", a.determined, a.publication)
    <3>1. Finish(r, result)
      BY <2>7, <2>10
    <3>2. GoodResult(executions, result, call[r].request.run)
      BY <2>2, <2>3, <2>8, <2>9, <2>10, FailureIsGood
    <3> HIDE DEF result
    <3> QED BY <1>2, <1>3, <3>1, <3>2, FinishIsGood
  <2>11. CASE errors = {}
    <3> DEFINE result == Loaded(c, {}, "complete", TRUE, TRUE)
    <3>1. Finish(r, result) /\ executions[c.token].state = "SUCCEEDED"
      BY <2>2, <2>3, <2>7, <2>8, <2>11 DEF Token
    <3>2. GoodResult(executions, result, call[r].request.run)
      BY <2>8, <2>9, <3>1, SuccessIsGood
    <3> HIDE DEF result
    <3> QED BY <1>2, <1>3, <3>1, <3>2, FinishIsGood
  <2> QED BY <2>10, <2>11
<1>7. CASE LoadUnusable(r)
  BY <1>2, <1>3, <1>5, <1>7, FinishIsGood DEF LoadUnusable
<1>8. CASE LoadRaised(r)
  BY <1>1, <1>2, <1>5, <1>8, RetryIsGood DEF LoadRaised
<1> QED BY <1>6, <1>7, <1>8 DEF Load

-----------------------------------------------------------------------------
(* read() up to its first remote call, the processes and the clock.        *)

LEMMA PlanIsFit ==
  ASSUME IInv, NEW q \in Requests, Bounded(q.scope), Bounded(ApprovedScope),
         WithinApproval(q.scope, ApprovedScope),
         NEW plan, plan = ResolveSourceScope(q.scope, SourceWindow[today])
  PROVE  /\ plan \in Plan /\ PlanAnswers(plan, q)
         /\ Queryable(plan) => WithinApproved(BuildSourceQuery(plan, q.include_content))
<1>1. /\ q.scope \in Scope /\ ApprovedScope \in Scope
      /\ SourceWindow[today] \in Window
  BY ReaderAssumption DEF Request, IInv, TypeOK
<1>2. plan \in Plan /\ PlanAnswers(plan, q)
  BY <1>1, PlanPartitionsRequest DEF PlanAnswers
<1>3. /\ plan.days \subseteq RequestedDays(ApprovedScope)
      /\ \A d \in Dimensions :
           plan.filters[d] # {} /\ plan.filters[d] \subseteq ApprovedScope.filters[d]
  BY <1>1, PlanStaysApproved DEF Resolvable
<1> QED BY <1>2, <1>3 DEF Queryable, WithinApproved, BuildSourceQuery

LEMMA EnterIsGood ==
  ASSUME IInv, NEW r \in Readers, NEW q \in Requests, Enter(r, q)
  PROVE  ServiceOK' /\ LocalTypeOK' /\ GoodCalls' /\ GoodMemory'
<1>1. UNCHANGED <<executions, inflight>>
  BY DEF Enter, Refuse, Remember, ReadDisabled, ReadUnavailable, BeginQuery
<1>2. ServiceOK' /\ ExecutionsGrow /\ executions' = executions
  BY <1>1, StandingService
<1>3. Admitted(r, q) => q.run \in Runs
  BY ReaderAssumption DEF Admitted, Request
<1>4. ASSUME NEW back \in Return, UNCHANGED <<pc, call, cache>>,
             returned' = [returned EXCEPT ![r] = back]
      PROVE  LocalTypeOK' /\ GoodCalls' /\ GoodMemory'
  <2>1. LocalTypeOK'
    BY <1>4 DEF IInv, TypeOK, LocalTypeOK
  <2> QED BY <1>2, <1>4, <2>1 DEF IInv, GoodCalls, GoodMemory, Remembered
<1>5. CASE Refuse(r, q)
  <2> DEFINE back == [request |-> q, result |-> Raised]
  <2>1. back \in Return /\ UNCHANGED <<pc, call, cache>>
        /\ returned' = [returned EXCEPT ![r] = back]
    BY <1>5 DEF Refuse, Give, Return
  <2> HIDE DEF back
  <2> QED BY <1>2, <1>4, <2>1
<1>6. CASE Remember(r, q)
  <2> DEFINE back == [request |-> q, result |-> cache[r][q.run]]
  <2>1. cache[r][q.run] \in Result
    BY <1>3, <1>6 DEF Remember, IInv, TypeOK
  <2>2. back \in Return /\ UNCHANGED <<pc, call, cache>>
        /\ returned' = [returned EXCEPT ![r] = back]
    BY <1>6, <2>1 DEF Remember, Give, Return
  <2> HIDE DEF back
  <2> QED BY <1>2, <1>4, <2>2
<1>7. CASE ReadDisabled(r, q)
  <2>1. q.run \in Runs /\ Finish(r, EmptyResult(q, NoPlan, {}))
    BY <1>3, <1>7 DEF ReadDisabled, Fresh
  <2>2. GoodResult(executions', EmptyResult(q, NoPlan, {}), q.run)
    BY <2>1, EmptyResultIsGood
  <2> QED BY <1>2, <2>1, <2>2, FinishIsGood
<1> DEFINE plan == ResolveSourceScope(q.scope, SourceWindow[today])
<1>8. Planned(r, q) =>
        /\ q.run \in Runs /\ plan \in Plan /\ PlanAnswers(plan, q)
        /\ Queryable(plan) => WithinApproved(BuildSourceQuery(plan, q.include_content))
  BY <1>3, PlanIsFit DEF Planned, Fresh, Resolvable
<1>9. CASE ReadUnavailable(r, q)
  <2>1. Planned(r, q) /\ Finish(r, EmptyResult(q, plan, {"SOURCE_UNAVAILABLE"}))
    BY <1>9 DEF ReadUnavailable
  <2> HIDE DEF plan
  <2>2. GoodResult(executions', EmptyResult(q, plan, {"SOURCE_UNAVAILABLE"}), q.run)
    BY <1>8, <2>1, EmptyResultIsGood DEF ErrorCodes
  <2> QED BY <1>2, <1>8, <2>1, <2>2, FinishIsGood
<1>10. CASE BeginQuery(r, q)
  <2> DEFINE c == [request |-> q, plan |-> plan, token |-> ClientRequestToken(q.run),
                   retries |-> 0, attempts |-> 0, scanned |-> 0, query_state |-> "NONE"]
  <2>1. /\ Planned(r, q) /\ Queryable(plan)
        /\ pc' = [pc EXCEPT ![r] = "submit"] /\ call' = [call EXCEPT ![r] = c]
        /\ returned' = [returned EXCEPT ![r] = NoReturn] /\ cache' = cache
    BY <1>10 DEF BeginQuery
  <2> HIDE DEF plan
  <2>2. 0 \in 0..MaxRetries /\ 0 \in 0..MaxAttempts /\ 0 \in 0..MaxScan
    BY ReaderAssumption, MaxScanAssumption
  <2>3. c \in Call
    BY <1>8, <2>1, <2>2, TokenFacts DEF Call, QueryStates
  <2>4. GoodCall(executions', "submit", c)
    BY <1>8, <2>1, <2>3 DEF GoodCall, CallIsOwn
  <2> HIDE DEF c
  <2>5. LocalTypeOK'
    BY <2>1, <2>3 DEF IInv, TypeOK, LocalTypeOK
  <2>6. GoodCalls'
    <3> SUFFICES ASSUME NEW s \in Readers
                 PROVE  GoodCall(executions', pc'[s], call'[s])
      BY DEF GoodCalls
    <3>1. CASE s = r
      BY <2>1, <2>4, <3>1 DEF IInv, TypeOK
    <3>2. CASE s # r
      BY <1>2, <2>1, <3>2 DEF IInv, TypeOK, GoodCalls
    <3> QED BY <3>1, <3>2
  <2>7. GoodMemory'
    BY <1>2, <2>1 DEF IInv, GoodMemory, Remembered
  <2> QED BY <1>2, <2>5, <2>6, <2>7
<1> QED BY <1>5, <1>6, <1>7, <1>9, <1>10 DEF Enter

LEMMA CrashIsGood ==
  ASSUME IInv, NEW r \in Readers, Crash(r)
  PROVE  ServiceOK' /\ LocalTypeOK' /\ GoodCalls' /\ GoodMemory'
<1>1. /\ pc' = [pc EXCEPT ![r] = "idle"] /\ call' = [call EXCEPT ![r] = NoCall]
      /\ cache' = [cache EXCEPT ![r] = [run \in Runs |-> NoResult]]
      /\ returned' = [returned EXCEPT ![r] = NoReturn] /\ executions' = executions
  BY DEF Crash
<1>2. ServiceOK'
  <2>1. CASE UNCHANGED inflight
    BY <1>1, <2>1, StandingService
  <2>2. CASE pc[r] = "submit" /\ inflight' = inflight \cup {SubmissionOf(r)}
    BY <1>1, <2>2, WireIsSafe
  <2> QED BY <2>1, <2>2 DEF Crash
<1>3. LocalTypeOK'
  BY <1>1 DEF IInv, TypeOK, LocalTypeOK
<1>4. GoodCalls'
  <2> SUFFICES ASSUME NEW s \in Readers
               PROVE  GoodCall(executions', pc'[s], call'[s])
    BY DEF GoodCalls
  <2>1. CASE s = r
    BY <1>1, <2>1 DEF GoodCall, IInv, TypeOK
  <2>2. CASE s # r
    BY <1>1, <2>2 DEF IInv, TypeOK, GoodCalls
  <2> QED BY <2>1, <2>2
<1>5. GoodMemory'
  <2> SUFFICES ASSUME NEW s \in Readers, NEW x \in Runs, cache'[s][x] # NoResult
               PROVE  GoodResult(executions', cache'[s][x], x)
    BY DEF GoodMemory, Remembered
  <2>1. s # r /\ cache'[s] = cache[s]
    BY <1>1 DEF IInv, TypeOK
  <2> QED BY <1>1, <2>1 DEF IInv, GoodMemory, Remembered
<1> QED BY <1>2, <1>3, <1>4, <1>5

-----------------------------------------------------------------------------
(* The invariant, and what it implies.                                     *)

\* The variables that only bound the model, the clock and the configuration.
BoundsOK ==
  /\ config \in [Readers -> Configs]
  /\ today \in 0..LastDay
  /\ queries \in [Readers -> 0..MaxQueries]
  /\ crashes \in 0..MaxCrashes

LEMMA BoundsKept ==
  ASSUME IInv, [Next]_vars
  PROVE  BoundsOK'
<1>1. BoundsOK
  BY DEF IInv, TypeOK, BoundsOK
<1>2. ASSUME UNCHANGED <<config, today, queries, crashes>>
      PROVE  BoundsOK'
  BY <1>1, <1>2 DEF BoundsOK
<1>3. ASSUME NEW r \in Readers, NEW q \in Requests, BeginQuery(r, q)
      PROVE  BoundsOK'
  BY <1>1, <1>3, ReaderAssumption DEF BoundsOK, BeginQuery
<1>4. ASSUME NEW r \in Readers, Crash(r)
      PROVE  BoundsOK'
  BY <1>1, <1>4, ReaderAssumption DEF BoundsOK, Crash
<1>5. ASSUME NextDay
      PROVE  BoundsOK'
  BY <1>1, <1>5, ReaderAssumption DEF BoundsOK, NextDay
<1>6. ASSUME NEW r \in Readers, NEW q \in Requests,
             Refuse(r, q) \/ Remember(r, q) \/ ReadDisabled(r, q) \/ ReadUnavailable(r, q)
      PROVE  BoundsOK'
  BY <1>2, <1>6 DEF Refuse, Remember, ReadDisabled, ReadUnavailable
<1>7. ASSUME NEW r \in Readers, ReaderStep(r)
      PROVE  BoundsOK'
  BY <1>2, <1>7 DEF ReaderStep, Submit, SubmitAnswered, SubmitUnusable, SubmitRaised,
       Poll, PollSucceeded, PollSettled, PollUnusable, PollPending, PollRaised, Polling,
       Load, LoadAnswered, LoadUnusable, LoadRaised, Loading
<1> QED BY <1>2, <1>3, <1>4, <1>5, <1>6, <1>7 DEF Next, Enter, Athena, vars

LEMMA InitIsGood ==
  ASSUME Init
  PROVE  IInv
<1>1. TypeOK
  BY ReaderAssumption DEF Init, AthenaInit, TypeOK, AthenaTypeOK
<1>2. TokensAreOwn /\ OnlyApprovedQueries
  BY DEF Init, AthenaInit, TokensAreOwn, OnlyApprovedQueries, Exists
<1>3. GoodCalls /\ GoodMemory
  BY DEF Init, GoodCalls, GoodCall, GoodMemory, Remembered
<1> QED BY <1>1, <1>2, <1>3 DEF IInv

LEMMA StepIsGood ==
  ASSUME IInv, [Next]_vars
  PROVE  IInv'
<1>1. ASSUME ServiceOK' /\ LocalTypeOK' /\ GoodCalls' /\ GoodMemory'
      PROVE  IInv'
  BY <1>1, BoundsKept DEF ServiceOK, LocalTypeOK, BoundsOK, IInv, TypeOK
<1>2. ASSUME NEW r \in Readers, NEW q \in Requests, Enter(r, q)
      PROVE  IInv'
  BY <1>1, <1>2, EnterIsGood
<1>3. ASSUME NEW r \in Readers, ReaderStep(r)
      PROVE  IInv'
  BY <1>1, <1>3, SubmitIsGood, PollIsGood, LoadIsGood DEF ReaderStep
<1>4. ASSUME NEW r \in Readers, Crash(r)
      PROVE  IInv'
  BY <1>1, <1>4, CrashIsGood
<1>5. CASE Athena
  <2>1. ServiceOK' /\ ExecutionsGrow /\ UNCHANGED rvars
    BY <1>5, ServiceIsOK, AthenaIsSafe DEF Athena
  <2> QED BY <1>1, <2>1, UntouchedIsGood
<1>6. CASE NextDay \/ UNCHANGED vars
  <2>1. UNCHANGED <<executions, inflight>> /\ UNCHANGED rvars
    BY <1>6 DEF NextDay, vars, rvars
  <2> QED BY <1>1, <2>1, StandingService, UntouchedIsGood
<1> QED BY <1>2, <1>3, <1>4, <1>5, <1>6 DEF Next

\* The strengthened invariant holds in every reachable state.
THEOREM InvariantHolds == Spec => []IInv
<1> QED BY InitIsGood, StepIsGood, PTL DEF Spec

\* Every variable keeps its type; retries and polls stay within max_retries and the timeout.
THEOREM TypeCorrect == Spec => []TypeOK
<1>1. IInv => TypeOK
  BY DEF IInv
<1> QED BY <1>1, InvariantHolds, PTL

\* However reads are retried, repeated and restarted, a run has one Athena execution.
THEOREM RunsAreQueriedOnce == Spec => []OneExecutionPerRun
<1>1. IInv => OneExecutionPerRun
  BY DEF IInv, TokensAreOwn, OneExecutionPerRun
<1> QED BY <1>1, InvariantHolds, PTL

\* No query outside the approved scope is ever executed or on its way.
THEOREM QueriesStayApproved == Spec => []OnlyApprovedQueries
<1>1. IInv => OnlyApprovedQueries
  BY DEF IInv
<1> QED BY <1>1, InvariantHolds, PTL

\* What memory holds is good, one result at a time.
LEMMA MemoryFacts ==
  ASSUME IInv, NEW r \in Readers, NEW run \in Runs, Remembered(r, run)
  PROVE  LET result == cache[r][run] IN
         /\ result \in Result /\ result.request.run = run
         /\ Published(result) <=> result.rows # "none"
         /\ Published(result) => PublishedIsTrue(executions, result)
         /\ result.execution # NoExecution =>
              ExecutionIsTrue(executions, result, run) /\ result.execution \in Tokens
BY TokenFacts DEF IInv, GoodMemory, GoodResult, ExecutionIsTrue

\* A result has rows exactly when it may be published, and then all of its own execution's.
THEOREM PublishedRowsAreComplete == Spec => []RowsAreComplete
<1>1. ASSUME IInv, NEW r \in Readers, NEW run \in Runs, Remembered(r, run)
      PROVE  LET result == cache[r][run]  t == result.execution IN
             /\ Published(result) <=> result.rows # "none"
             /\ Published(result) =>
                  /\ result.rows = "complete"
                  /\ result.source_set_determined
                  /\ Exists(t) /\ executions[t].state = "SUCCEEDED"
                  /\ executions[t].run = run /\ executions[t].query = QueryOf(result)
  <2> DEFINE result == cache[r][run]  t == result.execution
  <2>1. SUFFICES ASSUME Published(result)
                 PROVE  Exists(t) /\ executions[t].run = run
    BY <1>1, MemoryFacts DEF PublishedIsTrue
  <2>2. t \in Tokens /\ t = ClientRequestToken(run) /\ Exists(t)
    BY <1>1, <2>1, MemoryFacts DEF PublishedIsTrue, ExecutionIsTrue, Exists
  <2>3. executions[t].run \in Runs
    BY <1>1, <2>2 DEF IInv, TypeOK, AthenaTypeOK, Exists, Execution
  <2> QED BY <1>1, <2>2, <2>3, TokenFacts DEF IInv, TokensAreOwn
<1>2. IInv => RowsAreComplete
  BY <1>1 DEF RowsAreComplete
<1> QED BY <1>2, InvariantHolds, PTL

\* Processes that publish the same run publish the same rows.
THEOREM PublishersAgree == Spec => []ReadersAgree
<1>1. ASSUME IInv, NEW r \in Readers, NEW run \in Runs,
             Remembered(r, run), Published(cache[r][run])
      PROVE  /\ cache[r][run].execution = ClientRequestToken(run)
             /\ QueryOf(cache[r][run]) = executions[ClientRequestToken(run)].query
  BY <1>1, MemoryFacts DEF PublishedIsTrue, ExecutionIsTrue
<1>2. IInv => ReadersAgree
  BY <1>1 DEF ReadersAgree
<1> QED BY <1>2, InvariantHolds, PTL

\* A published result accounts for every requested day, scanned or unavailable, once.
THEOREM DaysAreAccounted == Spec => []EveryDayAccounted
<1>1. ASSUME IInv, NEW r \in Readers, NEW run \in Runs,
             Remembered(r, run), Published(cache[r][run])
      PROVE  LET result == cache[r][run] IN
             /\ executions[result.execution].query.days = result.plan.days
             /\ PlanAnswers(result.plan, result.request)
  <2> DEFINE result == cache[r][run]
  <2>1. /\ executions[result.execution].query = QueryOf(result)
        /\ PlanAnswers(result.plan, result.request)
    BY <1>1, MemoryFacts DEF PublishedIsTrue
  <2> HIDE DEF result
  <2>2. QueryOf(result).days = result.plan.days
    BY DEF QueryOf, BuildSourceQuery
  <2> QED BY <2>1, <2>2 DEF result
<1>2. IInv => EveryDayAccounted
  BY <1>1 DEF EveryDayAccounted, PlanAnswers
<1> QED BY <1>2, InvariantHolds, PTL

\* What a result reports of its query is true, and stays true.
THEOREM ReportsAreTrue == Spec => []ReportIsTrue
<1>1. IInv => ReportIsTrue
  BY MemoryFacts DEF ReportIsTrue, ExecutionIsTrue, Exists
<1> QED BY <1>1, InvariantHolds, PTL

-----------------------------------------------------------------------------
(* How long a read takes.                                                  *)

Tries == MaxRetries + 1

\* The remote calls a read may still make, the one it is about to make included: one round of
\* tries for each poll left, for loading, and for the submission.
CallsLeft(p, c) ==
  CASE p = "idle"   -> 0
    [] p = "load"   -> Tries - c.retries
    [] p = "poll"   -> Tries + (MaxAttempts - c.attempts) * Tries - c.retries
    [] p = "submit" -> Tries + MaxAttempts * Tries + Tries - c.retries

MostCalls == (MaxAttempts + 2) * Tries

LEMMA TriesFacts ==
  /\ Tries \in Nat /\ Tries > 0 /\ MaxAttempts * Tries \in Nat
  /\ MostCalls = Tries + MaxAttempts * Tries + Tries
<1>1. MaxRetries \in Nat /\ MaxAttempts \in Nat
  BY ReaderAssumption
<1>2. Tries \in Nat /\ Tries > 0
  BY <1>1 DEF Tries
<1> QED BY <1>1, <1>2 DEF MostCalls

\* Each poll has a round of tries, and there is one left at least as long as polls are left.
LEMMA PollRounds ==
  ASSUME NEW n \in Nat, NEW k \in Nat, n > 0
  PROVE  n * k \in Nat /\ (n - 1) * k \in Nat /\ n * k = (n - 1) * k + k
OBVIOUS

LEMMA CallsLeftFacts ==
  ASSUME NEW p \in {"submit", "poll", "load"}, NEW c, c.retries \in 0..MaxRetries,
         c.attempts \in 0..MaxAttempts, p = "poll" => c.attempts < MaxAttempts
  PROVE  CallsLeft(p, c) \in 1..MostCalls
<1>1. /\ Tries \in Nat /\ Tries > 0 /\ MaxAttempts * Tries \in Nat
      /\ MostCalls = Tries + MaxAttempts * Tries + Tries
  BY TriesFacts
<1>2. c.retries \in Nat /\ c.retries < Tries
  BY ReaderAssumption DEF Tries
<1>3. CASE p = "load"
  BY <1>1, <1>2, <1>3 DEF CallsLeft
<1>4. CASE p = "submit"
  BY <1>1, <1>2, <1>4 DEF CallsLeft
<1>5. CASE p = "poll"
  <2> DEFINE n == MaxAttempts - c.attempts
  <2>1. n \in Nat /\ n > 0 /\ n <= MaxAttempts /\ MaxAttempts \in Nat
    BY <1>5, ReaderAssumption
  <2>2. CallsLeft(p, c) = Tries + n * Tries - c.retries
    BY <1>5 DEF CallsLeft
  <2>3. n * Tries \in Nat /\ n * Tries <= MaxAttempts * Tries
    <3>1. MaxAttempts * Tries = n * Tries + (MaxAttempts - n) * Tries
      BY <1>1, <2>1
    <3>2. n * Tries \in Nat /\ (MaxAttempts - n) * Tries \in Nat
      BY <1>1, <2>1
    <3> HIDE DEF n
    <3> QED BY <1>1, <3>1, <3>2
  <2> HIDE DEF n
  <2> QED BY <1>1, <1>2, <2>2, <2>3
<1> QED BY <1>3, <1>4, <1>5

LEMMA EndIsFewer ==
  ASSUME IInv, NEW r \in Readers, pc[r] # "idle", NEW result, Finish(r, result)
  PROVE  CallsLeft(pc'[r], call'[r]) < CallsLeft(pc[r], call[r])
<1>1. pc[r] \in {"submit", "poll", "load"} /\ CallsLeft(pc[r], call[r]) \in 1..MostCalls
  BY CallFacts, CallsLeftFacts DEF GoodCall, Call
<1>2. pc'[r] = "idle"
  BY DEF Finish, IInv, TypeOK
<1>3. CallsLeft(pc'[r], call'[r]) = 0
  BY <1>2 DEF CallsLeft
<1>4. MostCalls \in Int
  BY TriesFacts
<1> QED BY <1>1, <1>3, <1>4

\* A call is tried again with one call less, a read that ends has none.
LEMMA RetryIsFewer ==
  ASSUME IInv, NEW r \in Readers, pc[r] # "idle", NEW result, RetryOrFinish(r, result)
  PROVE  CallsLeft(pc'[r], call'[r]) < CallsLeft(pc[r], call[r])
<1>1. pc[r] \in {"submit", "poll", "load"} /\ CallsLeft(pc[r], call[r]) \in 1..MostCalls
  BY CallFacts, CallsLeftFacts DEF GoodCall, Call
<1>2. CASE Finish(r, result)
  BY <1>2, EndIsFewer
<1>3. CASE GoOn(r, pc[r], [call[r] EXCEPT !.retries = @ + 1])
  <2> DEFINE c == [call[r] EXCEPT !.retries = @ + 1]
  <2>1. pc'[r] = pc[r] /\ call'[r] = c
    BY <1>3 DEF GoOn, IInv, TypeOK
  <2>2. call[r] \in Call /\ call[r].retries \in Int /\ call[r].attempts \in Int
    BY CallFacts DEF Call
  <2>3. c.retries = call[r].retries + 1 /\ c.attempts = call[r].attempts
    BY <2>2 DEF Call
  <2> HIDE DEF c
  <2>4. CallsLeft(pc[r], c) = CallsLeft(pc[r], call[r]) - 1
    <3>1. MaxAttempts * Tries \in Int /\ Tries \in Int
      BY TriesFacts
    <3>2. (MaxAttempts - call[r].attempts) * Tries \in Int
      BY <2>2, <3>1, ReaderAssumption
    <3> QED BY <1>1, <2>2, <2>3, <3>1, <3>2 DEF CallsLeft
  <2> QED BY <1>1, <2>1, <2>4
<1> QED BY <1>2, <1>3 DEF RetryOrFinish

\* A read that goes on after a call was answered has its tries again, but one round less.
LEMMA AnswerIsFewer ==
  ASSUME IInv, NEW r \in Readers, pc[r] # "idle", NEW next \in {"poll", "load"}, NEW c \in Call,
         c.retries = 0,
         \/ pc[r] = "submit" /\ c.attempts = 0
         \/ pc[r] = "poll" /\ c.attempts = call[r].attempts + 1,
         next = "poll" => c.attempts < MaxAttempts
  PROVE  CallsLeft(next, c) < CallsLeft(pc[r], call[r])
<1>1. /\ Tries \in Nat /\ Tries > 0 /\ MaxAttempts * Tries \in Nat
      /\ call[r].retries \in Nat /\ call[r].retries < Tries
      /\ call[r].attempts \in Nat /\ MaxAttempts \in Nat
      /\ pc[r] = "poll" => call[r].attempts < MaxAttempts
  <2>1. call[r].retries \in 0..MaxRetries /\ call[r].attempts \in 0..MaxAttempts
    BY CallFacts DEF Call
  <2>2. pc[r] = "poll" => call[r].attempts < MaxAttempts
    BY CallFacts DEF GoodCall
  <2>3. MaxRetries \in Nat /\ MaxAttempts \in Nat
    BY ReaderAssumption
  <2>4. call[r].retries \in Nat /\ call[r].retries < Tries /\ call[r].attempts \in Nat
    BY <2>1, <2>3 DEF Tries
  <2> QED BY <2>2, <2>3, <2>4, TriesFacts
<1>2. CASE pc[r] = "submit"
  <2>1. CallsLeft(pc[r], call[r]) = Tries + MaxAttempts * Tries + Tries - call[r].retries
    BY <1>2 DEF CallsLeft
  <2>2. CallsLeft(next, c) = Tries \/ CallsLeft(next, c) = Tries + MaxAttempts * Tries
    BY <1>1, <1>2 DEF CallsLeft
  <2> QED BY <1>1, <2>1, <2>2
<1>3. CASE pc[r] = "poll"
  <2> DEFINE n == MaxAttempts - call[r].attempts
  <2>1. n \in Nat /\ n > 0 /\ MaxAttempts - c.attempts = n - 1
    BY <1>1, <1>3
  <2>2. CallsLeft(pc[r], call[r]) = Tries + n * Tries - call[r].retries
    BY <1>3 DEF CallsLeft
  <2>3. CallsLeft(next, c) = Tries \/ CallsLeft(next, c) = Tries + (n - 1) * Tries
    BY <1>1, <2>1 DEF CallsLeft
  <2> HIDE DEF n
  <2>4. n * Tries \in Nat /\ (n - 1) * Tries \in Nat /\ n * Tries = (n - 1) * Tries + Tries
    BY <1>1, <2>1, PollRounds
  <2> QED BY <1>1, <2>2, <2>3, <2>4
<1> QED BY <1>2, <1>3

\* Every step of a read in progress leaves it fewer calls.
LEMMA StepsAreFewer ==
  ASSUME IInv, NEW r \in Readers, ReaderStep(r)
  PROVE  pc[r] # "idle" /\ CallsLeft(pc'[r], call'[r]) < CallsLeft(pc[r], call[r])
<1> DEFINE Fewer == CallsLeft(pc'[r], call'[r]) < CallsLeft(pc[r], call[r])
<1>1. pc[r] # "idle"
  BY DEF ReaderStep, Submit, SubmitAnswered, SubmitUnusable, SubmitRaised, Poll, PollSucceeded,
         PollSettled, PollUnusable, PollPending, PollRaised, Polling, Load, LoadAnswered,
         LoadUnusable, LoadRaised, Loading
<1>2. call[r] \in Call /\ GoodCall(executions, pc[r], call[r]) /\ Token(r) \in Tokens
  BY <1>1, CallFacts
<1>3. ASSUME NEW next \in {"poll", "load"}, NEW c, GoOn(r, next, c)
      PROVE  pc'[r] = next /\ call'[r] = c
  BY <1>3 DEF GoOn, IInv, TypeOK
<1>4. ASSUME NEW c \in Call, c.retries = 0, AfterPolling(r, c),
             \/ pc[r] = "submit" /\ c.attempts = 0
             \/ pc[r] = "poll" /\ c.attempts = call[r].attempts + 1
      PROVE  Fewer
  <2>1. CASE GoOn(r, "load", c)
    <3>1. pc'[r] = "load" /\ call'[r] = c
      BY <1>3, <2>1
    <3>2. CallsLeft("load", c) < CallsLeft(pc[r], call[r])
      BY <1>1, <1>4, AnswerIsFewer
    <3> QED BY <3>1, <3>2
  <2>2. CASE Finish(r, Submitted(c, {"SOURCE_RESULTS_NOT_LOADED"}))
    BY <1>1, <2>2, EndIsFewer
  <2> QED BY <1>4, <2>1, <2>2 DEF AfterPolling
<1>5. CASE SubmitAnswered(r)
  <2> DEFINE c == [call[r] EXCEPT !.retries = 0]
             d == [c EXCEPT !.query_state = "NOT_POLLED"]
  <2>1. pc[r] = "submit" /\ call[r].attempts = 0
    BY <1>2, <1>5 DEF SubmitAnswered, GoodCall
  <2>2. c \in Call /\ c.retries = 0 /\ c.attempts = 0
    BY <1>2, <2>1, ReaderAssumption DEF Call
  <2>3. d \in Call /\ d.retries = 0 /\ d.attempts = 0
    BY <2>2 DEF Call, QueryStates
  <2>4. GoOn(r, "poll", c) \/ AfterPolling(r, d)
    BY <1>5 DEF SubmitAnswered
  <2> HIDE DEF c, d
  <2>5. CASE GoOn(r, "poll", c)
    <3>1. pc'[r] = "poll" /\ call'[r] = c
      BY <1>3, <2>5
    <3>2. 0 < MaxAttempts
      BY ReaderAssumption
    <3>3. CallsLeft("poll", c) < CallsLeft(pc[r], call[r])
      BY <1>1, <2>1, <2>2, <3>2, AnswerIsFewer
    <3> QED BY <1>1, <3>1, <3>3
  <2> QED BY <1>4, <2>1, <2>3, <2>4, <2>5
<1>6. CASE SubmitUnusable(r)
  BY <1>1, <1>6, EndIsFewer DEF SubmitUnusable
<1>7. CASE SubmitRaised(r)
  BY <1>1, <1>7, RetryIsFewer DEF SubmitRaised
<1>8. ASSUME pc[r] = "poll", NEW state \in QueryStates, NEW c, c = Polled(r, state)
      PROVE  c \in Call /\ c.retries = 0 /\ c.attempts = call[r].attempts + 1
  BY <1>8, PolledFacts
<1>9. CASE PollSucceeded(r)
  <2> DEFINE c == Polled(r, "SUCCEEDED")
  <2>1. pc[r] = "poll" /\ AfterPolling(r, c)
    BY <1>9 DEF PollSucceeded, Polling
  <2>2. "SUCCEEDED" \in QueryStates
    BY DEF QueryStates, Terminal
  <2>3. c \in Call /\ c.retries = 0 /\ c.attempts = call[r].attempts + 1
    BY <1>8, <2>1, <2>2
  <2> HIDE DEF c
  <2> QED BY <1>4, <2>1, <2>3
<1>10. CASE PollSettled(r)
  <2>1. CASE Finish(r, Submitted(Polled(r, executions[Token(r)].state), {"SOURCE_QUERY_FAILED"}))
    BY <1>1, <2>1, EndIsFewer
  <2>2. CASE Finish(r, Submitted(Polled(r, executions[Token(r)].state),
                                 {"SOURCE_QUERY_CANCELLED"}))
    BY <1>1, <2>2, EndIsFewer
  <2> QED BY <1>10, <2>1, <2>2 DEF PollSettled
<1>11. CASE PollUnusable(r)
  <2>1. CASE Finish(r, Submitted([call[r] EXCEPT !.query_state = "UNKNOWN"],
                                 {"SOURCE_QUERY_STATUS_FAILED"}))
    BY <1>1, <2>1, EndIsFewer
  <2>2. CASE Finish(r, Submitted(Polled(r, "UNKNOWN"), {"SOURCE_QUERY_STATUS_INVALID"}))
    BY <1>1, <2>2, EndIsFewer
  <2> QED BY <1>11, <2>1, <2>2 DEF PollUnusable
<1>12. CASE PollPending(r)
  <2> DEFINE c == Polled(r, "NONE")
  <2>1. /\ pc[r] = "poll"
        /\ \/ c.attempts < MaxAttempts /\ GoOn(r, "poll", c)
           \/ Finish(r, Submitted([c EXCEPT !.query_state = "TIMEOUT"],
                                  {"SOURCE_QUERY_TIMEOUT"}))
    BY <1>12 DEF PollPending, Polling
  <2>2. "NONE" \in QueryStates
    BY DEF QueryStates
  <2>3. c \in Call /\ c.retries = 0 /\ c.attempts = call[r].attempts + 1
    BY <1>8, <2>1, <2>2
  <2> HIDE DEF c
  <2>4. CASE c.attempts < MaxAttempts /\ GoOn(r, "poll", c)
    <3>1. pc'[r] = "poll" /\ call'[r] = c
      BY <1>3, <2>4
    <3>2. CallsLeft("poll", c) < CallsLeft(pc[r], call[r])
      BY <1>1, <2>1, <2>3, <2>4, AnswerIsFewer
    <3> QED BY <1>1, <3>1, <3>2
  <2>5. CASE Finish(r, Submitted([c EXCEPT !.query_state = "TIMEOUT"],
                                 {"SOURCE_QUERY_TIMEOUT"}))
    BY <1>1, <2>5, EndIsFewer
  <2> QED BY <2>1, <2>4, <2>5
<1>13. CASE PollRaised(r)
  BY <1>1, <1>13, RetryIsFewer DEF PollRaised
<1>14. CASE LoadAnswered(r)
  BY <1>1, <1>14, EndIsFewer DEF LoadAnswered
<1>15. CASE LoadUnusable(r)
  BY <1>1, <1>15, EndIsFewer DEF LoadUnusable
<1>16. CASE LoadRaised(r)
  BY <1>1, <1>16, RetryIsFewer DEF LoadRaised
<1> QED BY <1>1, <1>5, <1>6, <1>7, <1>9, <1>10, <1>11, <1>12, <1>13, <1>14, <1>15, <1>16
        DEF ReaderStep, Submit, Poll, Load

\* Every other step leaves it where it is or, when its process dies, ends it.
LEMMA OthersLeaveIt ==
  ASSUME IInv, NEW r \in Readers, pc[r] # "idle",
         \/ \E s \in Readers, q \in Requests : Enter(s, q)
         \/ \E s \in Readers \ {r} : ReaderStep(s)
         \/ \E s \in Readers : Crash(s)
         \/ Athena \/ NextDay \/ UNCHANGED vars
  PROVE  (pc'[r] = pc[r] /\ call'[r] = call[r]) \/ pc'[r] = "idle"
<1>1. ASSUME NEW s \in Readers, NEW next, NEW c, GoOn(s, next, c), s # r
      PROVE  pc'[r] = pc[r] /\ call'[r] = call[r]
  BY <1>1 DEF GoOn, IInv, TypeOK
<1>2. ASSUME NEW s \in Readers, NEW result, Finish(s, result)
      PROVE  (pc'[r] = pc[r] /\ call'[r] = call[r]) \/ pc'[r] = "idle"
  BY <1>2 DEF Finish, IInv, TypeOK
<1>3. ASSUME NEW s \in Readers, NEW result, RetryOrFinish(s, result), s # r
      PROVE  (pc'[r] = pc[r] /\ call'[r] = call[r]) \/ pc'[r] = "idle"
  BY <1>1, <1>2, <1>3 DEF RetryOrFinish
<1>4. ASSUME NEW s \in Readers, NEW c, AfterPolling(s, c), s # r
      PROVE  (pc'[r] = pc[r] /\ call'[r] = call[r]) \/ pc'[r] = "idle"
  BY <1>1, <1>2, <1>4 DEF AfterPolling
<1>5. ASSUME NEW s \in Readers, NEW q \in Requests, Enter(s, q)
      PROVE  (pc'[r] = pc[r] /\ call'[r] = call[r]) \/ pc'[r] = "idle"
  <2>1. CASE Refuse(s, q) \/ Remember(s, q)
    BY <2>1 DEF Refuse, Remember
  <2>2. CASE ReadDisabled(s, q)
    BY <1>2, <2>2 DEF ReadDisabled
  <2>3. CASE ReadUnavailable(s, q)
    BY <1>2, <2>3 DEF ReadUnavailable
  <2>4. CASE BeginQuery(s, q)
    <3>1. pc[s] = "idle" /\ s # r
      BY <2>4 DEF BeginQuery, Planned, Fresh
    <3> QED BY <2>4, <3>1 DEF BeginQuery, IInv, TypeOK
  <2> QED BY <1>5, <2>1, <2>2, <2>3, <2>4 DEF Enter
<1>6. ASSUME NEW s \in Readers \ {r}, ReaderStep(s)
      PROVE  (pc'[r] = pc[r] /\ call'[r] = call[r]) \/ pc'[r] = "idle"
  <2>1. CASE Submit(s)
    <3>1. CASE SubmitAnswered(s)
      BY <1>1, <1>4, <1>6, <3>1 DEF SubmitAnswered
    <3>2. CASE SubmitUnusable(s)
      BY <1>2, <3>2 DEF SubmitUnusable
    <3>3. CASE SubmitRaised(s)
      BY <1>3, <3>3 DEF SubmitRaised
    <3> QED BY <2>1, <3>1, <3>2, <3>3 DEF Submit
  <2>2. CASE Poll(s)
    <3>1. CASE PollSucceeded(s)
      BY <1>4, <3>1 DEF PollSucceeded
    <3>2. CASE PollSettled(s)
      BY <1>2, <3>2 DEF PollSettled
    <3>3. CASE PollUnusable(s)
      BY <1>2, <3>3 DEF PollUnusable
    <3>4. CASE PollPending(s)
      BY <1>1, <1>2, <3>4 DEF PollPending
    <3>5. CASE PollRaised(s)
      BY <1>3, <3>5 DEF PollRaised
    <3> QED BY <2>2, <3>1, <3>2, <3>3, <3>4, <3>5 DEF Poll
  <2>3. CASE Load(s)
    <3>1. CASE LoadAnswered(s)
      BY <1>2, <3>1 DEF LoadAnswered
    <3>2. CASE LoadUnusable(s)
      BY <1>2, <3>2 DEF LoadUnusable
    <3>3. CASE LoadRaised(s)
      BY <1>3, <3>3 DEF LoadRaised
    <3> QED BY <2>3, <3>1, <3>2, <3>3 DEF Load
  <2> QED BY <1>6, <2>1, <2>2, <2>3 DEF ReaderStep
<1>7. ASSUME NEW s \in Readers, Crash(s)
      PROVE  (pc'[r] = pc[r] /\ call'[r] = call[r]) \/ pc'[r] = "idle"
  BY <1>7 DEF Crash, IInv, TypeOK
<1>8. CASE Athena \/ NextDay \/ UNCHANGED vars
  BY <1>8 DEF Athena, NextDay, rvars, vars
<1> QED BY <1>5, <1>6, <1>7, <1>8

\* No read has more than (MaxAttempts + 2) * (MaxRetries + 1) calls to make, and one that
\* has none left is over.
CallsAreBounded ==
  \A r \in Readers : /\ CallsLeft(pc[r], call[r]) \in 0..MostCalls
                     /\ CallsLeft(pc[r], call[r]) = 0 <=> pc[r] = "idle"

\* No step gives a read in progress more calls, and each of its own leaves it fewer.
CallsRunOut ==
  \A r \in Readers : pc[r] # "idle" =>
     /\ CallsLeft(pc'[r], call'[r]) <= CallsLeft(pc[r], call[r])
     /\ ReaderStep(r) => CallsLeft(pc'[r], call'[r]) < CallsLeft(pc[r], call[r])

\* _call_with_retries and the attempt loop of _poll_query together: whatever Athena answers
\* or fails to, and whatever other processes do meanwhile, a read() makes a bounded number
\* of remote calls and has returned after the last of them.
THEOREM ReadsMakeBoundedCalls == Spec => []CallsAreBounded /\ [][CallsRunOut]_vars
<1>1. ASSUME IInv PROVE CallsAreBounded
  <2> SUFFICES ASSUME NEW r \in Readers
               PROVE  /\ CallsLeft(pc[r], call[r]) \in 0..MostCalls
                      /\ CallsLeft(pc[r], call[r]) = 0 <=> pc[r] = "idle"
    BY DEF CallsAreBounded
  <2>1. MostCalls \in Nat
    BY TriesFacts
  <2>2. CASE pc[r] = "idle"
    BY <2>1, <2>2 DEF CallsLeft
  <2>3. CASE pc[r] # "idle"
    <3>1. pc[r] \in {"submit", "poll", "load"} /\ CallsLeft(pc[r], call[r]) \in 1..MostCalls
      BY <1>1, <2>3, CallFacts, CallsLeftFacts DEF GoodCall, Call
    <3> QED BY <2>1, <2>3, <3>1
  <2> QED BY <2>2, <2>3
<1>2. ASSUME IInv, CallsAreBounded, CallsAreBounded', [Next]_vars PROVE CallsRunOut
  <2> SUFFICES ASSUME NEW r \in Readers, pc[r] # "idle"
               PROVE  /\ CallsLeft(pc'[r], call'[r]) <= CallsLeft(pc[r], call[r])
                      /\ ReaderStep(r) => CallsLeft(pc'[r], call'[r]) < CallsLeft(pc[r], call[r])
    BY DEF CallsRunOut
  <2>1. CallsLeft(pc[r], call[r]) \in Nat /\ CallsLeft(pc'[r], call'[r]) \in Nat
    <3>1. MostCalls \in Nat
      BY TriesFacts
    <3> QED BY <1>2, <3>1 DEF CallsAreBounded
  <2>2. CASE ReaderStep(r)
    BY <1>2, <2>1, <2>2, StepsAreFewer
  <2>3. CASE ~ReaderStep(r)
    <3>1. (pc'[r] = pc[r] /\ call'[r] = call[r]) \/ pc'[r] = "idle"
      BY <1>2, <2>3, OthersLeaveIt DEF Next
    <3>2. pc'[r] = "idle" => CallsLeft(pc'[r], call'[r]) = 0
      BY DEF CallsLeft
    <3> QED BY <2>1, <2>3, <3>1, <3>2
  <2> QED BY <2>2, <2>3
<1> QED BY <1>1, <1>2, InvariantHolds, PTL DEF Spec

=============================================================================
