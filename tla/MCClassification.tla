--------------------------- MODULE MCClassification ---------------------------
(***************************************************************************)
(* Two conflicting categories and one that conflicts with none, over three *)
(* signals, one of them content-derived; every list of at most three       *)
(* signals, repeated names included.                                       *)
(***************************************************************************)
EXTENDS Classification

MCNames == {"operation", "model_id", "prompt_task_marker"}
MCContentNames == {"prompt_task_marker"}
MCIds == {"code", "personal", "other", "insufficient"}
MCConflicting == {"code", "personal"}

MCSignalLists == UNION {[1..n -> Signal] : n \in 0..3}

Of(id, signals, threshold) ==
  [id |-> id, signals |-> signals, threshold |-> threshold, range_ok |-> TRUE,
   enabled |-> TRUE]

Catalog(t) ==
  <<Of("other", {"operation", "prompt_task_marker"}, t),
    Of("code", {"operation", "model_id"}, t),
    Of("personal", {"model_id", "prompt_task_marker"}, 2),
    Of("insufficient", {}, 2)>>

Base ==
  [enabled |-> TRUE, categories |-> Catalog(1), defined |-> MCNames, disabled |-> {},
   rules |-> <<>>, low |-> 0, medium |-> 1, high |-> 2]

Prefer(x) == [kind |-> "prefer", winner |-> x, loser |-> x]

Over(x, y) == [kind |-> "over", winner |-> x, loser |-> y]

MCConfigurations ==
  {Base,
   [Base EXCEPT !.categories = Catalog(0)],
   [Base EXCEPT !.categories = Catalog(2)],
   [Base EXCEPT !.rules = <<Over("personal", "code")>>],
   [Base EXCEPT !.rules = <<Prefer("code")>>],
   [Base EXCEPT !.rules = <<Prefer("code"), Over("personal", "code")>>],
   [Base EXCEPT !.rules = <<Over("code", "insufficient"), Prefer("other")>>],
   [Base EXCEPT !.disabled = {"prompt_task_marker"}],
   [Base EXCEPT !.disabled = {"operation", "prompt_task_marker"}],
   [Base EXCEPT !.categories[2].enabled = FALSE],
   [Base EXCEPT !.categories = Catalog(1) \o <<Of("code", {"operation"}, 1)>>],
   [Base EXCEPT !.categories[1].threshold = Invalid],
   [Base EXCEPT !.medium = 2, !.high = 1],
   [Base EXCEPT !.enabled = FALSE]}

=============================================================================
