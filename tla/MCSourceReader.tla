---------------------------- MODULE MCSourceReader ----------------------------
(***************************************************************************)
(* Instances of SourceReader for TLC.  All filters hold one approved value *)
(* a, or, in the request that must be refused, an unapproved value b.      *)
(***************************************************************************)
EXTENDS SourceReader, TLC

CONSTANTS r1, r2, run1, run2, t1, t2, t3, v1, a, b

AllAre(v) == [d \in Dimensions |-> {v}]

ScopeOf(v, first, last) ==
  [filters |-> AllAre(v), start_date |-> first, end_date |-> last]

\* The view holds the last three days: 2..4 on the first day, 3..5 on the second.
MCWindow == [d \in 0..LastDay |-> [first |-> d + 2, last |-> d + 4]]

MCApproved == ScopeOf(a, 0, 4)

MCSha256 == [x \in Runs |-> IF x = run1 THEN t1 ELSE t2]

Ask(x, scope, content) ==
  [run |-> x, version |-> v1, scope |-> scope, include_content |-> content]

Inside      == ScopeOf(a, 3, 4)   \* in the window on both days
Clipped     == ScopeOf(a, 1, 3)   \* loses its first day, on the second day two
Expired     == ScopeOf(a, 0, 1)   \* gone
Unapproved  == ScopeOf(b, 3, 4)
TooLong     == ScopeOf(a, 3, 5)   \* past the approved dates
Unbounded   == [ScopeOf(a, 3, 4) EXCEPT !.filters["models"] = {}]

\* One run asked for in two ways: other days, other columns.
TwoWays == {Ask(run1, Clipped, FALSE), Ask(run1, Inside, TRUE)}

\* Every way a request is refused or has nothing to read.
EdgeRequests ==
  {Ask(run1, Inside, TRUE), Ask(run1, Clipped, FALSE), Ask(run2, Expired, FALSE),
   Ask(run1, TooLong, FALSE), Ask(run1, Unbounded, FALSE), Ask(run2, Unapproved, FALSE),
   Ask(Blank, Inside, FALSE), [Ask(run1, Inside, FALSE) EXCEPT !.version = Blank]}

On(content, loader, pollable) ==
  [enabled |-> TRUE, content_access_approved |-> content,
   result_loader |-> loader, pollable |-> pollable]

UsualConfigs == {On(c, TRUE, TRUE) : c \in BOOLEAN}

AllConfigs ==
  {On(c, l, p) : c \in BOOLEAN, l \in BOOLEAN, p \in BOOLEAN}
    \cup {[On(FALSE, TRUE, TRUE) EXCEPT !.enabled = FALSE]}

ReaderSymmetry == Permutations(Readers)

=============================================================================
