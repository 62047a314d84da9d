----------------------------- MODULE MCUsageFeed -----------------------------
(***************************************************************************)
(* Two invocations, one of a model with an adapter and one of a model      *)
(* without, logged to two accounts; three and a half days of two ticks     *)
(* each, under a window that goes two days back; loaders that render       *)
(* everything soundly, without zone, in a local zone, or spoil some        *)
(* columns.                                                                *)
(***************************************************************************)
EXTENDS UsageFeed, TLC

Word(w)   == [type |-> "word", text |-> w, value |-> None]
Number(n) == [type |-> "number", text |-> NotText, value |-> n]
Digits(n) == [type |-> "number", text |-> ToString(n), value |-> n]
Wrong     == [type |-> "other", text |-> NotText, value |-> None]
Object(o) == [type |-> "object", text |-> NotText, value |-> o]
Json(o)   == [type |-> "object", text |-> "{}", value |-> o]

\* The keys or the items are not all text.
Mixed == {Object("team" :> NotText), Object("team" :> "t" @@ NotText :> "x")}

\* A key that is blocked, two that are one when cut, and one beyond the bound of two.
Team ==
  "prompt_id" :> "x" @@ "team-a" :> "t1" @@ "team-b" :> "t2" @@ "stage" :> "s" @@ "unit" :> "u"

MCBlocked(key) == key = "prompt_id"
MCRank(key) ==
  CASE key = "prompt_id" -> 1 [] key = "stage" -> 2 [] key = "team-a" -> 3
    [] key = "team-b" -> 4 [] key = NotText -> 6 [] OTHER -> 5
MCClip(text) == IF text \in {"team-a", "team-b"} THEN "team" ELSE text

MCEntry ==
  "i1" :> [accountid |-> Word("a1"), region |-> Word("r1"), requestid |-> Word("req1"),
           operation |-> Word("Converse"), modelid |-> Word("amazon.nova-lite"),
           identity_arn |-> Word("arn1"), identity |-> Word("arn1"),
           requestmetadata |-> Object(Team),
           input_token_count |-> None, output_token_count |-> Number(2),
           input_content_type |-> Word("json"), output_content_type |-> Word("json"),
           usage_input_tokens |-> Number(3), usage_output_tokens |-> Number(2),
           usage_total_tokens |-> Number(5), usage_cache_read_tokens |-> Number(0),
           usage_cache_write_tokens |-> None, stop_reason |-> Word("end"),
           prompt_preview |-> Word("p1"), response_preview |-> None]
  @@
  "i2" :> [accountid |-> Word("a2"), region |-> Word("r1"), requestid |-> Word("req2"),
           operation |-> Word("Converse"), modelid |-> Word("eu.nova-lite"),
           identity_arn |-> None, identity |-> None, requestmetadata |-> None,
           input_token_count |-> Number(1), output_token_count |-> Number(1),
           input_content_type |-> None, output_content_type |-> None,
           usage_input_tokens |-> None, usage_output_tokens |-> None,
           usage_total_tokens |-> None, usage_cache_read_tokens |-> None,
           usage_cache_write_tokens |-> None, stop_reason |-> None,
           prompt_preview |-> None, response_preview |-> None]

MCFamily(model) == IF model = "amazon.nova-lite" THEN "nova" ELSE None

MCFormatName(format) ==
  CASE format = "Amazon-Nova" -> "amazon_nova"
    [] format = "Claude"      -> "claude"
    [] OTHER                  -> "palm"

Filters(accounts) ==
  [accounts |-> accounts, regions |-> {"r1"}, models |-> {"amazon.nova-lite", "eu.nova-lite"},
   operations |-> {"Converse"}]

ScopeOf(accounts, first, last) ==
  [filters |-> Filters(accounts), start_date |-> first, end_date |-> last]

MCApproved == ScopeOf({"a1", "a2"}, 0, 3)

Request(run, scope, content, include, logic) ==
  [scope |-> scope, content |-> content, include |-> include,
   context |-> [analysis_run_id |-> run, configuration_version |-> "c1",
                analysis_logic_version |-> logic]]

Both == {"a1", "a2"}

MCRequests ==
  {Request("run1", ScopeOf(Both, 0, 0), FALSE, TRUE, "l1"),
   Request("run2", ScopeOf(Both, 0, 1), TRUE, TRUE, "l2"),
   Request("run3", ScopeOf(Both, 2, 2), TRUE, FALSE, "l1"),
   Request("run4", ScopeOf({"a1"}, 3, 3), TRUE, TRUE, "  ")}

MCValues == {"a1", "a2", "r1", "amazon.nova-lite", "eu.nova-lite", "Converse",
             "run1", "run2", "run3", "run4", "c1", "l1", "l2"}

Spoiling(spoils) == [zone |-> "utc", spoils |-> spoils, until |-> 1]

MCLoaders ==
  {[zone |-> "utc", spoils |-> <<>>, until |-> LastTick]}
  \cup {[zone |-> z, spoils |-> <<>>, until |-> 2] : z \in {"local", "none"}}
  \cup {Spoiling(c :> cell) :
          c \in {"input_token_count", "request_metadata", "stop_reason", "identity_arn",
                 "account_id", "model_format", "content_type"},
          cell \in {None, Wrong, Word("")}}
  \cup {Spoiling(c :> Number(-1)) : c \in {"output_token_count", "usage_cache_read_tokens"}}
  \cup {Spoiling("request_metadata" :> cell) : cell \in Mixed \cup {Json(Team), Digits(5)}}
  \cup {Spoiling(c :> Digits(1)) : c \in {"output_token_count", "stop_reason"}}
  \cup {Spoiling("source_request_id" :> Word(w)) : w \in {"", "  "}}
  \cup {Spoiling("source_account" :> None), Spoiling("source_region" :> Wrong),
        Spoiling("source_timestamp_utc" :> Wrong)}
  \cup {Spoiling("model_format" :> Word(f)) : f \in {"Amazon-Nova", "Claude", "PaLM"}}
  \cup {Spoiling("input_body_json" :> b @@ "model_format" :> f) :
          b \in {None, Wrong, Object(Team)}, f \in {None, Wrong, Word("Claude")}}

=============================================================================
