------------------------------- MODULE DataLake -------------------------------
(***************************************************************************)
(* What the reader reads from: CloudWatch Logs and Firehose carry the      *)
(* invocation logs into the Parquet data lake, and the Athena view         *)
(* bedrock_invocations_view of bedrock-firehose-data-lake.yaml shows them. *)
(*                                                                         *)
(* The services are outside the repository.  The subscription retries for  *)
(* a day and delivers at least once or, past the day, never; copies arrive *)
(* in any order.  The stack decides where a copy is stored (by the date    *)
(* Firehose receives it) and which copies the view shows (by the time of   *)
(* the event).                                                             *)
(***************************************************************************)
EXTENDS Integers, FiniteSets

CONSTANTS
  Invocations,   \* the invocations that are logged
  Entry,         \* what the view shows of each: a function from its columns to cells
  Nobody,        \* the time of an invocation that has not happened
  TicksPerDay,   \* the clock's resolution
  WindowDays,    \* six calendar months, in days (SourceWindow counts them)
  LastTick,      \* bound: the clock
  MaxCopies      \* bound: copies stored in all

ASSUME DataLakeAssumption ==
  /\ TicksPerDay \in Nat \ {0} /\ WindowDays \in Nat \ {0}
  /\ LastTick \in Nat /\ MaxCopies \in Nat
  /\ Nobody \notin Nat

VARIABLES
  now,      \* the UTC clock
  invoked,  \* when each invocation happened
  stored    \* the copies in the lake: of which invocation, its time, the time of arrival

lakeVars == <<now, invoked, stored>>

DayOf(tick) == tick \div TicksPerDay

-----------------------------------------------------------------------------

LakeInit == now = 0 /\ invoked = [i \in Invocations |-> Nobody] /\ stored = {}

Tick == now < LastTick /\ now' = now + 1 /\ UNCHANGED <<invoked, stored>>

Invoke(i) ==
  /\ invoked[i] = Nobody
  /\ invoked' = [invoked EXCEPT ![i] = now]
  /\ UNCHANGED <<now, stored>>

\* Retries end after 24 hours; what was delivered may be delivered again.
Deliver(i) ==
  /\ invoked[i] # Nobody /\ now <= invoked[i] + TicksPerDay
  /\ Cardinality(stored) < MaxCopies
  /\ stored' = stored \cup {[of |-> i, time |-> invoked[i], arrival |-> now,
                             number |-> Cardinality({c \in stored : c.of = i})]}
  /\ UNCHANGED <<now, invoked>>

LakeNext == Tick \/ \E i \in Invocations : Invoke(i) \/ Deliver(i)

-----------------------------------------------------------------------------
(* The table and the view.                                                 *)

\* Mutant: the date of the event.
PartitionMutant(copy) == DayOf(copy.time)

\* Firehose's prefix data/year=/month=/day=: the date of arrival.
Partition(copy) == DayOf(copy.arrival)

\* Mutant: the view keeps one day less.
InViewMutant(copy, tick) == copy.time >= tick - (WindowDays - 1) * TicksPerDay

\* The view's WHERE clause: the event is at most six months old.
InView(copy, tick) == copy.time >= tick - WindowDays * TicksPerDay

\* Mutant: the time the copy arrived.
EventTimeMutant(copy) == copy.arrival

\* The view's timestamp column.
EventTime(copy) == copy.time

=============================================================================
