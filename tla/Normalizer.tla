------------------------------ MODULE Normalizer ------------------------------
(***************************************************************************)
(* normalization.py: a row of the source view becomes an InvocationRecord, *)
(* or is refused.  InvocationRecordNormalizer keeps no state between rows, *)
(* so this module has operators only; UsageFeed gives them rows.           *)
(*                                                                         *)
(* A row is a function from the columns it has to cells.  A cell is null   *)
(* (None) or says what the parsers can make of the value: the text it is,  *)
(* if it is a str, and what it reads as.  A dotted alias                   *)
(* ("input.inputtokencount") is a column of its own, present when the      *)
(* nested path is.  The order and the wording of diagnostics are left out: *)
(* each is its code and field.                                             *)
(***************************************************************************)
EXTENDS Integers

CONSTANTS
  None,            \* null in a row, None in a record
  Missing,         \* _MISSING: no alias of the field is a column
  NotAMapping,     \* a row that is no Mapping
  NoMetadata,      \* {}
  NotText,         \* any value but null that is no str
  BlankTexts,      \* the strs that are empty or only spaces
  FormatName(_),   \* a format in lower case, "-" and " " as "_"
  Family(_)        \* the adapter whose prefix a model id begins with, or None

\* A cell that is not null is [type, text, value]: the str it is or NotText, and what it reads
\* as.  "word" is text nothing parses, "time" a datetime or its ISO text, "object" a mapping or
\* its JSON text (what is no str among its keys and items is NotText), "number" an int or
\* digits, "other" everything else, every float among it.
Null(cell) == cell = Missing \/ cell = None

\* A datetime: its wall clock, and its offset from UTC or None without a zone.
Times == [local : Int, offset : Int \cup {None}]

\* What the types of a cell promise of its text and value.
IsCell(cell) ==
  cell # None =>
    /\ cell.text # None
    /\ cell.type = "word"   => cell.text # NotText
    /\ cell.type = "other"  => cell.text = NotText
    /\ cell.type = "number" => cell.value \in Int
    /\ cell.type = "time"   => cell.value \in Times
    /\ cell.text \in BlankTexts => cell.type = "word"

\* The codes of diagnostics.
Codes == {"MISSING_TRACEABILITY", "INVALID_TRACEABILITY", "MALFORMED_SOURCE_ROW",
          "MALFORMED_TIMESTAMP", "MALFORMED_TOKEN_COUNT", "MALFORMED_REQUEST_METADATA",
          "MALFORMED_SOURCE_FIELD", "MALFORMED_MODEL_FORMAT", "MALFORMED_MODEL_JSON",
          "UNSUPPORTED_MODEL_FORMAT"}

-----------------------------------------------------------------------------
(* Columns.                                                                *)

FieldAliases ==
  [source_request_id |-> <<"source_request_id", "request_id", "requestid">>,
   source_timestamp_utc |->
     <<"source_timestamp_utc", "timestamp", "event_timestamp", "source_timestamp">>,
   source_account |-> <<"source_account", "account", "account_id", "accountid">>,
   source_region |-> <<"source_region", "region">>,
   model_id |-> <<"model_id", "model", "modelid">>,
   operation |-> <<"operation">>,
   input_token_count |->
     <<"input_token_count", "usage_input_tokens", "input_tokens", "input.inputtokencount",
       "input.input_token_count", "inputTokenCount">>,
   output_token_count |->
     <<"output_token_count", "usage_output_tokens", "output_tokens",
       "output.outputtokencount", "output.output_token_count", "outputTokenCount">>,
   cache_read_token_count |->
     <<"cache_read_token_count", "usage_cache_read_tokens", "cache_read_tokens",
       "cache.readtokencount">>,
   cache_write_token_count |->
     <<"cache_write_token_count", "usage_cache_write_tokens", "cache_write_tokens",
       "cache.writetokencount">>,
   stop_reason |-> <<"stop_reason", "stopReason", "output.stopreason">>,
   content_type |-> <<"content_type", "contentType">>,
   request_metadata |-> <<"request_metadata", "requestmetadata", "requestMetadata">>,
   model_format |-> <<"model_format", "format">>,
   identity_arn |-> <<"identity_arn", "identityArn">>,
   session_name |-> <<"identity_session_name", "session_name", "sessionName">>,
   name |-> <<"identity_name", "name">>,
   account_owner |-> <<"account_owner", "accountOwner">>,
   prompt_preview |-> <<"prompt_preview", "prompt">>,
   response_preview |-> <<"response_preview", "response">>,
   input_body_json |->
     <<"input_body_json", "inputbodyjson", "input_body", "input.body_json">>,
   output_body_json |->
     <<"output_body_json", "outputbodyjson", "output_body", "output.body_json">>]

RequiredTexts == {"source_request_id", "source_account", "source_region", "model_id", "operation"}
Tokens == {"input_token_count", "output_token_count", "cache_read_token_count",
           "cache_write_token_count"}
OptionalTexts == {"stop_reason", "content_type"}
IdentityFields == {"identity_arn", "session_name", "name", "account_owner"}
Bodies == {"input_body_json", "output_body_json"}

\* The aliases of a field that are columns, by their place.
Here(row, field) == {i \in DOMAIN FieldAliases[field] : FieldAliases[field][i] \in DOMAIN row}

\* The first of them decides, also when it is null.
Deciding(row, field) ==
  FieldAliases[field][CHOOSE i \in Here(row, field) : \A j \in Here(row, field) : i <= j]

FirstPresent(row, field) ==
  IF Here(row, field) = {} THEN Missing ELSE row[Deciding(row, field)]

-----------------------------------------------------------------------------
(* Parsers: what a field becomes, and the code of its diagnostic or None.  *)

Parsed(value, code) == [value |-> value, code |-> code]

\* Mutant: only the empty text is blank, strip() is forgotten.
RequiredTextMutant(cell) ==
  IF Null(cell) THEN Parsed(None, "MISSING_TRACEABILITY")
  ELSE IF cell.text \in {"", NotText} THEN Parsed(None, "INVALID_TRACEABILITY")
  ELSE Parsed(cell.text, None)

RequiredText(cell) ==
  IF Null(cell) THEN Parsed(None, "MISSING_TRACEABILITY")
  ELSE IF cell.text \in BlankTexts \cup {NotText} THEN Parsed(None, "INVALID_TRACEABILITY")
  ELSE Parsed(cell.text, None)

\* The instant in UTC; a time without zone is no instant.
Timestamp(cell) ==
  IF Null(cell) THEN Parsed(None, "MISSING_TRACEABILITY")
  ELSE IF cell.type # "time" THEN Parsed(None, "MALFORMED_TIMESTAMP")
  ELSE IF cell.value.offset = None THEN Parsed(None, "MALFORMED_TIMESTAMP")
  ELSE Parsed([local |-> cell.value.local - cell.value.offset, offset |-> 0], None)

\* Mutant: what is no count counts as zero.
NonnegativeIntMutant(cell) ==
  IF Null(cell) THEN Parsed(None, None)
  ELSE IF cell.type # "number" THEN Parsed(0, "MALFORMED_TOKEN_COUNT")
  ELSE IF cell.value < 0 THEN Parsed(0, "MALFORMED_TOKEN_COUNT")
  ELSE Parsed(cell.value, None)

NonnegativeInt(cell) ==
  IF Null(cell) THEN Parsed(None, None)
  ELSE IF cell.type # "number" THEN Parsed(None, "MALFORMED_TOKEN_COUNT")
  ELSE IF cell.value < 0 THEN Parsed(None, "MALFORMED_TOKEN_COUNT")
  ELSE Parsed(cell.value, None)

Textual(items) == \A k \in DOMAIN items : NotText \notin {k, items[k]}

Metadata(cell) ==
  IF Null(cell) THEN Parsed(NoMetadata, None)
  ELSE IF cell.type # "object" THEN Parsed(NoMetadata, "MALFORMED_REQUEST_METADATA")
  ELSE IF ~Textual(cell.value) THEN Parsed(NoMetadata, "MALFORMED_REQUEST_METADATA")
  ELSE Parsed(cell.value, None)

\* Mutant: what is no text is let through.
OptionalTextMutant(cell) ==
  IF Null(cell) THEN Parsed(None, None) ELSE Parsed(cell.text, None)

OptionalText(cell) ==
  IF Null(cell) THEN Parsed(None, None)
  ELSE IF cell.text = NotText THEN Parsed(None, "MALFORMED_SOURCE_FIELD")
  ELSE Parsed(cell.text, None)

DeclaredFormat(cell) ==
  IF Null(cell) THEN Parsed(None, None)
  ELSE IF cell.text \in BlankTexts \cup {NotText} THEN Parsed(None, "MALFORMED_MODEL_FORMAT")
  ELSE Parsed(FormatName(cell.text), None)

\* What a field other than the bodies parses to.
Field(row, f) ==
  LET cell == FirstPresent(row, f) IN
  CASE f \in RequiredTexts          -> RequiredText(cell)
    [] f = "source_timestamp_utc"   -> Timestamp(cell)
    [] f \in Tokens                 -> NonnegativeInt(cell)
    [] f = "request_metadata"       -> Metadata(cell)
    [] f = "model_format"           -> DeclaredFormat(cell)
    [] OTHER                        -> OptionalText(cell)

-----------------------------------------------------------------------------
(* Model format adapters.                                                  *)

FormatAliases ==
  [nova      |-> {"nova", "amazon_nova", "amazon.nova"},
   anthropic |-> {"anthropic", "claude", "anthropic_claude"},
   titan     |-> {"titan", "amazon_titan", "amazon.titan"},
   cohere    |-> {"cohere", "command", "cohere_command"},
   llama     |-> {"llama", "meta_llama", "meta.llama"},
   mistral   |-> {"mistral"}]

Flattened == "flattened_view"

ASSUME NormalizerAssumption ==
  /\ None \notin Codes \cup DOMAIN FormatAliases \cup {Flattened} \cup Int
  /\ None \notin Times /\ None # NotText /\ None \notin BlankTexts
  /\ NotText \notin BlankTexts \cup DOMAIN FormatAliases /\ "" \in BlankTexts

\* A row with the columns of a flattened view only: no body column, not even a null one.
NoBodyColumn(row) == \A b \in Bodies : FirstPresent(row, b) = Missing

\* Mutant: a format nobody knows is left to the model id.
SelectAdapterMutant(row, model, declared) ==
  LET owners == {a \in DOMAIN FormatAliases : declared \in FormatAliases[a]} IN
  IF owners # {} THEN CHOOSE a \in owners : TRUE
  ELSE IF Family(model) # None THEN Family(model)
  ELSE IF NoBodyColumn(row) THEN Flattened ELSE None

\* A declared format is decisive; the model id is looked at only without one.
SelectAdapter(row, model, declared) ==
  LET owners == {a \in DOMAIN FormatAliases : declared \in FormatAliases[a]} IN
  IF declared # None THEN (IF owners = {} THEN None ELSE CHOOSE a \in owners : TRUE)
  ELSE IF Family(model) # None THEN Family(model)
  ELSE IF NoBodyColumn(row) THEN Flattened ELSE None

BodyErrors(row) ==
  {[code |-> "MALFORMED_MODEL_JSON", field |-> b] :
     b \in {b \in Bodies : /\ ~Null(FirstPresent(row, b))
                           /\ FirstPresent(row, b).type # "object"}}

FormatErrors(row, adapter) ==
  CASE adapter = None      -> {[code |-> "UNSUPPORTED_MODEL_FORMAT", field |-> "adapter"]}
    [] adapter = Flattened -> {}
    [] OTHER               -> BodyErrors(row)

ModelFormat(adapter, declared) ==
  CASE adapter = None      -> declared
    [] adapter = Flattened -> None
    [] OTHER               -> adapter

-----------------------------------------------------------------------------
(* InvocationRecordNormalizer.normalize.                                   *)

Traceability == RequiredTexts \cup {"source_timestamp_utc"}
Optional == Tokens \cup OptionalTexts \cup {"request_metadata", "model_format"}

Errors(row, fields) ==
  {[code |-> Field(row, f).code, field |-> f] : f \in {g \in fields : Field(row, g).code # None}}

\* The run id and the two versions the caller passes.
MissingContext(context) ==
  {[code |-> "MISSING_TRACEABILITY", field |-> f] :
     f \in {g \in DOMAIN context : context[g] \in BlankTexts \cup {None, NotText}}}

\* Restricted: no diagnostic is given for a value that is not text.
Identity(row) ==
  LET values == [f \in IdentityFields |-> Field(row, f).value] IN
  IF \A f \in IdentityFields : values[f] \in {None, ""} THEN None ELSE values

\* Mutant: whoever asks for the record gets the previews.
SensitiveMutant(row, include) ==
  LET prompt   == Field(row, "prompt_preview").value
      response == Field(row, "response_preview").value
  IN  IF prompt = None /\ response = None THEN None
      ELSE [prompt |-> prompt, response |-> response]

Sensitive(row, include) ==
  LET prompt   == Field(row, "prompt_preview").value
      response == Field(row, "response_preview").value
  IN  IF ~include \/ (prompt = None /\ response = None) THEN None
      ELSE [prompt |-> prompt, response |-> response]

Plain == RequiredTexts \cup Tokens \cup OptionalTexts
           \cup {"source_timestamp_utc", "request_metadata"}

\* The record of a row that can be traced.
InvocationRecord(row, context, include) ==
  LET declared == Field(row, "model_format").value
      adapter  == SelectAdapter(row, Field(row, "model_id").value, declared)
  IN  [fields    |-> [f \in Plain |-> Field(row, f).value],
       context   |-> context,
       format    |-> ModelFormat(adapter, declared),
       identity  |-> Identity(row),
       sensitive |-> Sensitive(row, include)]

Refused(errors) == [record |-> None, errors |-> errors]

Diagnostics(row) ==
  Errors(row, Optional)
    \cup FormatErrors(row, SelectAdapter(row, Field(row, "model_id").value,
                                         Field(row, "model_format").value))

Normalize(row, context, include) ==
  IF row = NotAMapping THEN Refused({[code |-> "MALFORMED_SOURCE_ROW", field |-> "row"]})
  ELSE IF MissingContext(context) # {} THEN Refused(MissingContext(context))
  ELSE IF Errors(row, Traceability) # {} THEN Refused(Errors(row, Traceability))
  ELSE [record |-> InvocationRecord(row, context, include), errors |-> Diagnostics(row)]

=============================================================================
