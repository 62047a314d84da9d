---------------------------- MODULE AthenaService ----------------------------
(***************************************************************************)
(* Amazon Athena as source_access.py uses it: StartQueryExecution with a   *)
(* ClientRequestToken, and GetQueryExecution.  The service is outside the  *)
(* repository.  What is assumed of it:                                     *)
(*   - a token that was accepted before returns the execution it made then *)
(*     when the request is the same, and is refused when it is not;        *)
(*   - a submission the caller gave up on may still arrive later;          *)
(*   - an execution leaves QUEUED or RUNNING once, for good, and the bytes *)
(*     it has scanned never decrease.                                      *)
(* An execution's id stands for its token.  "run" is bookkeeping of this   *)
(* model: the analysis run whose read made the request.                    *)
(***************************************************************************)
EXTENDS SourceScope

CONSTANTS
  Runs,         \* analysis run ids
  Tokens,       \* client request tokens
  MaxScan,      \* bound: the bytes one execution may scan
  NoExecution   \* a token Athena has not accepted yet

ASSUME MaxScanAssumption == MaxScan \in Nat

VARIABLES
  executions,   \* executions[t]: what Athena made for token t
  inflight      \* submissions their caller gave up on, not yet arrived

Active   == {"QUEUED", "RUNNING"}
Terminal == {"SUCCEEDED", "FAILED", "CANCELLED"}

Submission == [run : Runs, token : Tokens, query : Query]

Execution == [run : Runs, query : Query, state : Active \cup Terminal, scan : 0..MaxScan]

AthenaTypeOK ==
  /\ executions \in [Tokens -> Execution \cup {NoExecution}]
  /\ inflight \subseteq Submission

AthenaInit ==
  /\ executions = [t \in Tokens |-> NoExecution]
  /\ inflight = {}

Exists(t) == executions[t] # NoExecution

Accepts(s) == Exists(s.token) => executions[s.token].query = s.query

\* The executions once submission s has arrived: made on first sight of the token.
Arrived(s) ==
  IF Exists(s.token)
  THEN executions
  ELSE [executions EXCEPT
          ![s.token] = [run |-> s.run, query |-> s.query, state |-> "QUEUED", scan |-> 0]]

ArriveLate ==
  \E s \in inflight :
    /\ executions' = Arrived(s)
    /\ inflight' = inflight \ {s}

Run(t) ==
  /\ Exists(t) /\ executions[t].state = "QUEUED"
  /\ executions' = [executions EXCEPT ![t].state = "RUNNING"]
  /\ UNCHANGED inflight

ScanMore(t) ==
  /\ Exists(t) /\ executions[t].state = "RUNNING"
  /\ executions[t].scan < MaxScan
  /\ executions' = [executions EXCEPT ![t].scan = @ + 1]
  /\ UNCHANGED inflight

Succeed(t) ==
  /\ Exists(t) /\ executions[t].state = "RUNNING"
  /\ executions' = [executions EXCEPT ![t].state = "SUCCEEDED"]
  /\ UNCHANGED inflight

\* A failure, a cancellation by an operator, or the workgroup's scan limit.
GiveUp(t) ==
  /\ Exists(t) /\ executions[t].state \in Active
  /\ \E s \in {"FAILED", "CANCELLED"} :
       executions' = [executions EXCEPT ![t].state = s]
  /\ UNCHANGED inflight

AthenaStep ==
  \/ ArriveLate
  \/ \E t \in Tokens : Run(t) \/ ScanMore(t) \/ Succeed(t) \/ GiveUp(t)

=============================================================================
