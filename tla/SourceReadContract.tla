-------------------------- MODULE SourceReadContract --------------------------
(***************************************************************************)
(* What AthenaSourceReader promises its callers, whatever calls are lost,  *)
(* repeated or late and whichever processes die: for each analysis run     *)
(* there is at most one query execution, which settles once; a reader      *)
(* publishes rows of a run only from a succeeded execution; and what a     *)
(* reader has answered for a run stays its answer until its process dies.  *)
(***************************************************************************)
CONSTANTS Readers, Runs

VARIABLES
  execution,  \* execution[run]: the state of the run's query
  answer      \* answer[r][run]: what reader r remembers for the run

States  == {"none", "active", "succeeded", "failed"}
Answers == {"none", "withheld", "published"}

vars == <<execution, answer>>

Init ==
  /\ execution = [run \in Runs |-> "none"]
  /\ answer = [r \in Readers |-> [run \in Runs |-> "none"]]

Launched(run) ==
  /\ execution[run] = "none"
  /\ execution' = [execution EXCEPT ![run] = "active"]

Launch(run) == Launched(run) /\ UNCHANGED answer

Settle(run) ==
  /\ execution[run] = "active"
  /\ \E s \in {"succeeded", "failed"} : execution' = [execution EXCEPT ![run] = s]
  /\ UNCHANGED answer

Publish(r, run) ==
  /\ execution[run] = "succeeded"
  /\ answer[r][run] = "none"
  /\ answer' = [answer EXCEPT ![r][run] = "published"]
  /\ UNCHANGED execution

\* No rows: the read failed, found nothing to query or was disabled.  A reader may give up on
\* the very submission that launches the run's query.
Withhold(r, run) ==
  /\ answer[r][run] = "none"
  /\ answer' = [answer EXCEPT ![r][run] = "withheld"]
  /\ Launched(run) \/ UNCHANGED execution

Forget(r) ==
  /\ answer' = [answer EXCEPT ![r] = [run \in Runs |-> "none"]]
  /\ UNCHANGED execution

Next ==
  \/ \E run \in Runs : Launch(run) \/ Settle(run)
  \/ \E r \in Readers, run \in Runs : Publish(r, run) \/ Withhold(r, run)
  \/ \E r \in Readers : Forget(r)

Spec == Init /\ [][Next]_vars

=============================================================================
