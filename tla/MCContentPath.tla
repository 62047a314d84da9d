---------------------------- MODULE MCContentPath ----------------------------
(***************************************************************************)
(* One record of eight at a time, under configurations that pass or fail   *)
(* the checks of the gate and may change between any two steps, over two   *)
(* days; one call of the model adapter.                                    *)
(***************************************************************************)
EXTENDS ContentPath

Secret == "secret"
Task == "task"
MCWords == {Secret, Task, "[RED", "ACTED]", Break}
MCShort == {<<>>}
MCMarker == <<"[RED", "ACTED]">>
MCNames == {"prompt_task_marker", "operation"}
MCContentNames == {"prompt_task_marker"}
MCMarkerWords == [n \in MCContentNames |-> {Task}]

Approved ==
  [enabled |-> TRUE, approved |-> TRUE, endpoint |-> "approved", model |-> "m1",
   allowed |-> <<"prompt_task_marker">>, max_input |-> 3,
   timeout |-> 1, max_attempts |-> 1, schema |-> 1]

Previews(prompt, response) ==
  [prompt |-> prompt, response |-> response, status |-> "not_requested"]

Settings(threshold) == [enabled |-> TRUE, threshold |-> threshold]

\* A word is a marker of a task or a number; the second half of the redaction marker is no word.
MCFeatures(prompt) ==
  LET Count(S) == Cardinality({i \in DOMAIN prompt : prompt[i] \in S}) IN
  [words |-> Count(MCWords \ {"ACTED]", Break}), sentences |-> 1, action_markers |-> Count({Task}),
   context_markers |-> 0, output_markers |-> 0, specificity_markers |-> Count({Secret}),
   punctuation_issues |-> 0]

Base ==
  [enabled |-> TRUE, content |-> TRUE, accounts |-> {"a1"}, regions |-> {"r1"},
   reference |-> "p1", retention |-> 1, max_preview |-> 3, redaction_required |-> TRUE,
   rules |-> <<Secret>>, active |-> MCNames,
   dimensions |-> [d \in PromptDimensions |-> Settings(600)],
   model |-> Approved, otherwise_valid |-> TRUE]

MCConfigurations ==
  {Base,
   [Base EXCEPT !.content = FALSE],
   [Base EXCEPT !.max_preview = None, !.rules = <<"response_preview", Secret>>,
                !.dimensions["clarity"].enabled = FALSE,
                !.dimensions["task_definition"].threshold = One],
   [Base EXCEPT !.rules = <<>>, !.dimensions["specificity"].threshold = None],
   [Base EXCEPT !.rules = <<"prompt_preview">>],
   [Base EXCEPT !.rules = <<BadPattern>>],
   [Base EXCEPT !.redaction_required = FALSE],
   [Base EXCEPT !.model.schema = None],
   [Base EXCEPT !.model.allowed = <<"prompt_task_marker", "prompt_task_marker">>]}

Both == Previews(<<Task, Secret, Secret>>, <<Task, Secret, Task>>)

Record ==
  [account |-> "a1", region |-> "r1", day |-> 0, content |-> Both, direct |-> {"operation"}]

MCRecords ==
  {Record,
   [Record EXCEPT !.region = "r2"],
   [Record EXCEPT !.day = -1],
   [Record EXCEPT !.content = None, !.direct = {}],
   [Record EXCEPT !.content = Malformed],
   [Record EXCEPT !.content.status = "failed"],
   [Record EXCEPT !.content.prompt = <<Break>>, !.day = None],
   [Record EXCEPT !.content = Previews(<<Task, Break, Task, Task>>, None)]}

MCContents ==
  {None} \cup
  {Redact(r.content, c) : r \in {s \in MCRecords : s.content \notin {None, Malformed}},
                          c \in MCConfigurations}

MCPolicies == {c.model : c \in MCConfigurations}

Good ==
  [name |-> "prompt_task_marker", in_bound |-> TRUE,
   evidence |-> [signal_names |-> {"prompt_task_marker"}, content_derived |-> TRUE,
                 summaries |-> {<<Secret>>}, counted |-> {"prompt_task_marker"}]]

MCResponses ==
  {[unsupported_keys |-> FALSE, schema |-> 1, model |-> "m1", features |-> <<Good>>]}

=============================================================================
