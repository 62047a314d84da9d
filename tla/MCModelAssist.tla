---------------------------- MODULE MCModelAssist ----------------------------
(***************************************************************************)
(* Two calls of the adapter: policies that pass or fail each check,        *)
(* previews that fit the bound, exceed it, run over a break or hold only   *)
(* whitespace, and responses that pass or fail each check: summaries that  *)
(* repeat a word or a passage of the content, hold one of its words among  *)
(* others, or are short.                                                   *)
(***************************************************************************)
EXTENDS ModelAssist

W1 == "alpha"
W2 == "beta"
Secretive == "session"
Said == "note"
Brief == "ab"

MCWords == {W1, W2, Secretive, Said, Brief, Break}
MCShort == {<<>>, <<Brief>>}
MCSensitiveWords == {Secretive}
MCNames == {"prompt_task_marker", "prompt_context_marker", "model_id"}
MCContentNames == {"prompt_task_marker", "prompt_context_marker"}

Approved ==
  [enabled |-> TRUE, approved |-> TRUE, endpoint |-> "approved", model |-> "m1",
   allowed |-> <<"prompt_task_marker", "prompt_context_marker">>, max_input |-> 2,
   timeout |-> 1, max_attempts |-> 2, schema |-> 1]

MCPolicies ==
  {Approved,
   [Approved EXCEPT !.max_attempts = 3, !.max_input = 1],
   [Approved EXCEPT !.enabled = FALSE],
   [Approved EXCEPT !.approved = FALSE],
   [Approved EXCEPT !.model = None],
   [Approved EXCEPT !.schema = None],
   [Approved EXCEPT !.endpoint = "other"],
   [Approved EXCEPT !.allowed = <<"prompt_task_marker", "prompt_task_marker">>],
   [Approved EXCEPT !.allowed = <<"model_id">>],
   [Approved EXCEPT !.max_attempts = 0]}

Redacted(prompt, response) ==
  [prompt |-> prompt, response |-> response, status |-> "redacted"]

MCContents ==
  {None,
   Redacted(<<W1>>, <<W2, W2>>),
   Redacted(<<W1, W2>>, None),
   Redacted(None, <<W1, Break, W2>>),
   Redacted(<<Brief, W1>>, None),
   Redacted(<<Break>>, None),
   Redacted(<<>>, None),
   [Redacted(<<W1>>, None) EXCEPT !.status = "not_requested"]}

Good ==
  [name |-> "prompt_task_marker", in_bound |-> TRUE,
   evidence |-> [signal_names |-> {"prompt_task_marker"}, content_derived |-> TRUE,
                 summaries |-> {<<Said>>}, counted |-> {"prompt_task_marker"}]]

Reply(features) ==
  [unsupported_keys |-> FALSE, schema |-> 1, model |-> "m1", features |-> features]

Summed(summaries) == Reply(<<[Good EXCEPT !.evidence.summaries = summaries]>>)

MCResponses ==
  {None, Reply(<<>>), Reply(<<Good>>),
   Reply(<<Good, Good>>),
   Reply(<<Good, [Good EXCEPT !.name = "prompt_context_marker"]>>),
   Reply(<<[Good EXCEPT !.name = "model_id"]>>),
   Reply(<<[Good EXCEPT !.in_bound = FALSE]>>),
   Summed({<<W2>>}), Summed({<<W1, W2>>}), Summed({<<Said, W1>>}), Summed({<<>>, <<Brief>>}),
   Summed({<<Secretive>>, <<Said>>}),
   Reply(<<[Good EXCEPT !.evidence.counted = {"prompt_context_marker"}]>>),
   [Reply(<<Good>>) EXCEPT !.model = "m2"],
   [Reply(<<Good>>) EXCEPT !.unsupported_keys = TRUE]}

=============================================================================
