----------------------------- MODULE SourceScope -----------------------------
(***************************************************************************)
(* The pure planner of source_access.py: resolve_source_scope and the      *)
(* helpers it calls.  A request names four filters and an inclusive range  *)
(* of UTC dates; the plan is the part of it the source view still holds,   *)
(* together with the date intervals it does not.                           *)
(*                                                                         *)
(* Dates are integers (days), the values of a filter are abstract, and the *)
(* rendered WHERE clause is kept as what it selects: filters and days.     *)
(***************************************************************************)
EXTENDS Integers

CONSTANTS
  Values,   \* what the filters range over: accounts, Regions, models, operations
  Blank,    \* a filter value, run id or version that is empty or only spaces
  NoDate    \* a date left out of a scope (None)

ASSUME ScopeAssumption == NoDate \notin Int

Dimensions == {"accounts", "regions", "models", "operations"}

Scope == [filters    : [Dimensions -> SUBSET (Values \cup {Blank})],
          start_date : Int \cup {NoDate},
          end_date   : Int \cup {NoDate}]

Interval == [first : Int, last : Int]

\* SourceAvailabilityWindow.__post_init__ refuses a window that ends before it starts.
Window == {w \in Interval : w.first <= w.last}

Days(i) == i.first .. i.last

Earlier(a, b) == IF a <= b THEN a ELSE b
Later(a, b)   == IF a >= b THEN a ELSE b

-----------------------------------------------------------------------------
(* Refusals: UnboundedSourceScopeError, then ScopeNotApprovedError.        *)

Bounded(scope) ==
  /\ \A d \in Dimensions : scope.filters[d] # {} /\ Blank \notin scope.filters[d]
  /\ scope.start_date # NoDate
  /\ scope.end_date # NoDate
  /\ scope.start_date <= scope.end_date

\* Mutant: the approved end date is not looked at.
WithinApprovalMutant(requested, approved) ==
  /\ \A d \in Dimensions : requested.filters[d] \subseteq approved.filters[d]
  /\ requested.start_date >= approved.start_date

WithinApproval(requested, approved) ==
  /\ \A d \in Dimensions : requested.filters[d] \subseteq approved.filters[d]
  /\ requested.start_date >= approved.start_date
  /\ requested.end_date <= approved.end_date

Resolvable(requested, approved) ==
  /\ Bounded(requested)
  /\ Bounded(approved)
  /\ WithinApproval(requested, approved)

-----------------------------------------------------------------------------
(* The plan.                                                               *)

RequestedDays(scope) == scope.start_date .. scope.end_date

\* The dates the partition predicate enumerates (_dates_between); none of them when the
\* effective scope is None.
EffectiveDays(scope, window) ==
  Later(scope.start_date, window.first) .. Earlier(scope.end_date, window.last)

\* Mutant: the interval ends on the first available date.
BeforeWindowMutant(scope, window) ==
  [first |-> scope.start_date, last |-> Earlier(scope.end_date, window.first)]

BeforeWindow(scope, window) ==
  [first |-> scope.start_date, last |-> Earlier(scope.end_date, window.first - 1)]

AfterWindow(scope, window) ==
  [first |-> Later(scope.start_date, window.last + 1), last |-> scope.end_date]

UnavailableIntervals(scope, window) ==
  (IF scope.start_date < window.first THEN {BeforeWindow(scope, window)} ELSE {})
    \cup (IF scope.end_date > window.last THEN {AfterWindow(scope, window)} ELSE {})

Plan == [filters     : [Dimensions -> SUBSET (Values \cup {Blank})],
         days        : SUBSET Int,
         unavailable : SUBSET Interval]

ResolveSourceScope(scope, window) ==
  [filters     |-> scope.filters,
   days        |-> EffectiveDays(scope, window),
   unavailable |-> UnavailableIntervals(scope, window)]

Queryable(plan) == plan.days # {}

\* build_source_query over source_select_fields: the days, the filters, and whether the
\* prompt and response previews are among the selected columns.
Query == [filters : [Dimensions -> SUBSET (Values \cup {Blank})],
          days    : SUBSET Int,
          content : BOOLEAN]

BuildSourceQuery(plan, include_content) ==
  [filters |-> plan.filters, days |-> plan.days, content |-> include_content]

UnavailableDays(plan) == UNION {Days(i) : i \in plan.unavailable}

=============================================================================
