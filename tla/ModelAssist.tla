----------------------------- MODULE ModelAssist -----------------------------
(***************************************************************************)
(* ModelAssistedFeatureAdapter of model_assistance.py: extract_features()  *)
(* refuses what the policy does not approve, sends a minimized request to  *)
(* a model endpoint, tries again when the client raises, and turns the     *)
(* first response into bounded proposals or an error.                      *)
(*                                                                         *)
(* An invocation that raises may have reached the endpoint or not.         *)
(*                                                                         *)
(* A text is a sequence of words with one space between two that follow    *)
(* each other; any other whitespace is a word of its own, Break.  Lengths  *)
(* count words.  No word is part of another, and letter case is left out.  *)
(***************************************************************************)
EXTENDS Integers, Sequences, FiniteSets, Functions

Seqs == INSTANCE SequencesExt

CONSTANTS
  Words,              \* what a text is made of
  Break,              \* whitespace that is no single space between two words
  Short,              \* the texts of less than four characters
  SensitiveWords,     \* words _SENSITIVE_KEY matches
  Names,              \* feature names
  ContentNames,       \* CONTENT_SIGNAL_NAMES
  Endpoints, Models,  \* a model is a model id with its version
  ApprovedEndpoints,  \* approved_endpoint_references; none means any
  MaxFeatures,        \* MAX_FEATURES_PER_RESPONSE
  Policies,           \* the policies extract_features() is called with
  Contents,           \* the content it is called with
  Responses,          \* what the client may return
  MaxCalls,           \* bound: calls in a behaviour
  None                \* Python's None, and a value of the wrong type

Preview == Seq(Words)

Content == [prompt : Preview \cup {None}, response : Preview \cup {None},
            status : {"not_requested", "redacted", "failed"}]

Policy == [enabled : BOOLEAN, approved : BOOLEAN, endpoint : Endpoints \cup {None},
           model : Models \cup {None}, allowed : Seq(Names), max_input : Int,
           timeout : Int, max_attempts : Int, schema : Nat \cup {None}]

Evidence == [signal_names : SUBSET Names, content_derived : BOOLEAN,
             summaries : SUBSET Seq(Words), counted : SUBSET Names]

\* in_bound: the value is a truth or in 0..1, and no list, name, summary or count too long.
Feature == [name : Names, in_bound : BOOLEAN, evidence : Evidence]

Response == [unsupported_keys : BOOLEAN, schema : Nat, model : Models, features : Seq(Feature)]

Request == [endpoint : Endpoints, model : Models, prompt : Seq(Words), response : Seq(Words)]

ASSUME ModelAssistAssumption ==
  /\ Policies \subseteq Policy
  /\ Contents \subseteq Content \cup {None}
  /\ Responses \subseteq Response \cup {None}
  /\ ApprovedEndpoints \subseteq Endpoints
  /\ Break \in Words /\ <<>> \in Short
  /\ MaxCalls \in Nat /\ MaxFeatures \in Nat
  /\ None \notin Endpoints /\ None \notin Models
  /\ None \notin Preview /\ None \notin Content /\ None \notin Response

VARIABLES
  pc,        \* "idle", or "invoke" when the client is about to be called
  policy, content,  \* the arguments of the call
  attempt,   \* attempt
  answer,    \* what the last call returned
  sent,      \* history: invocations the call made
  received,  \* history: what reached an endpoint, with the arguments it was made from
  calls      \* calls so far (bounds the model)

vars == <<pc, policy, content, attempt, answer, sent, received, calls>>

-----------------------------------------------------------------------------
(* Answers.                                                                *)

RefusalCodes == {"model_assistance_disabled", "model_approval_required", "content_redacted",
                 "model_policy_invalid", "endpoint_rejected"}

ResponseCodes == {"unsupported_model_version", "invalid_model_response"}

Codes == RefusalCodes \cup ResponseCodes \cup {"model_retry_exhausted"}

Answer == [code : Codes \cup {"features"}, attempts : Nat, features : Seq(Feature)]

ModelError(code, attempts) == [code |-> code, attempts |-> attempts, features |-> <<>>]

ProposedFeatures(features) == [code |-> "features", attempts |-> 0, features |-> features]

-----------------------------------------------------------------------------
(* What is checked before anything is sent.                                *)

\* _validate_policy of an enabled and approved policy.
ValidPolicy(p) ==
  /\ p.endpoint # None /\ p.model # None /\ p.schema # None
  /\ p.allowed # <<>> /\ IsInjective(p.allowed)
  /\ Range(p.allowed) \subseteq ContentNames
  /\ p.max_input >= 1 /\ p.timeout > 0 /\ p.max_attempts >= 1

Truthy(v) == v # None /\ v # <<>>

ValidContent(c) ==
  /\ c # None
  /\ c.status = "redacted"
  /\ Truthy(c.prompt) \/ Truthy(c.response)

EndpointAllowed(p) == ApprovedEndpoints = {} \/ p.endpoint \in ApprovedEndpoints

\* Mutant: approval is looked at after the endpoint, and only if endpoints are approved.
RefusalMutant(c, p) ==
  IF ~p.enabled THEN "model_assistance_disabled"
  ELSE IF ~ValidPolicy(p) THEN "model_policy_invalid"
  ELSE IF ~EndpointAllowed(p) THEN "endpoint_rejected"
  ELSE IF ~ValidContent(c) THEN "content_redacted"
  ELSE "none"

\* Why extract_features() returns without calling the client, in the order of its checks.
Refusal(c, p) ==
  IF ~p.enabled THEN "model_assistance_disabled"
  ELSE IF ~p.approved THEN "model_approval_required"
  ELSE IF ~ValidPolicy(p) THEN "model_policy_invalid"
  ELSE IF ~EndpointAllowed(p) THEN "endpoint_rejected"
  ELSE IF ~ValidContent(c) THEN "content_redacted"
  ELSE "none"

-----------------------------------------------------------------------------
(* The request.                                                            *)

\* " ".join(value.split())
Collapsed(v) ==
  IF v = None THEN <<>>
  ELSE Seqs!FlattenSeq([i \in DOMAIN v |-> IF v[i] = Break THEN <<>> ELSE <<v[i]>>])

\* value[:n]
Cut(words, n) == IF n >= Len(words) THEN words ELSE SubSeq(words, 1, n)

\* Mutant: each preview gets the whole bound.
BuildRequestMutant(c, p) ==
  [endpoint |-> p.endpoint, model |-> p.model,
   prompt |-> Cut(Collapsed(c.prompt), p.max_input),
   response |-> Cut(Collapsed(c.response), p.max_input)]

\* The prompt first; the response takes what is left of max_input_length.
BuildRequest(c, p) ==
  LET prompt == Cut(Collapsed(c.prompt), p.max_input) IN
  [endpoint |-> p.endpoint, model |-> p.model, prompt |-> prompt,
   response |-> Cut(Collapsed(c.response), p.max_input - Len(prompt))]

-----------------------------------------------------------------------------
(* The response.                                                           *)

SourceWords(c) == Range(Collapsed(c.prompt)) \cup Range(Collapsed(c.response))

\* A text in a text.
Passage(s, t) == \E k \in 0..(Len(t) - Len(s)) : \A i \in DOMAIN s : s[i] = t[k + i]

Raw(v) == IF v = None THEN <<>> ELSE v

\* Both previews as they are, not collapsed, one after the other.
SourceText(c) == Raw(c.prompt) \o Raw(c.response)

\* Mutant: only the prompt is looked at.
ValidEvidenceMutant(e, p, c) ==
  /\ e.signal_names # {} /\ e.signal_names \subseteq Range(p.allowed)
  /\ e.content_derived
  /\ e.summaries # {}
  /\ \A s \in e.summaries :
       /\ Range(s) \cap SensitiveWords = {}
       /\ s \in Short \/ ~Passage(s, Raw(c.prompt))
  /\ e.counted \subseteq e.signal_names

\* A summary is refused if it is a passage of the source text as a whole, and not short.  An
\* empty list of summaries is refused as well: _bounded_strings returns it and it is falsy.
ValidEvidence(e, p, c) ==
  /\ e.signal_names # {} /\ e.signal_names \subseteq Range(p.allowed)
  /\ e.content_derived
  /\ e.summaries # {}
  /\ \A s \in e.summaries :
       /\ Range(s) \cap SensitiveWords = {}
       /\ s \in Short \/ ~Passage(s, SourceText(c))
  /\ e.counted \subseteq e.signal_names

ValidFeature(f, p, c) ==
  f.name \in Range(p.allowed) /\ f.in_bound /\ ValidEvidence(f.evidence, p, c)

UniqueNames(features) ==
  \A i, j \in DOMAIN features : features[i].name = features[j].name => i = j

\* _validate_response
ResponseError(r, p, c) ==
  IF r = None THEN "invalid_model_response"
  ELSE IF r.unsupported_keys \/ r.schema # p.schema THEN "invalid_model_response"
  ELSE IF r.model # p.model THEN "unsupported_model_version"
  ELSE IF /\ Len(r.features) <= MaxFeatures
          /\ \A i \in DOMAIN r.features : ValidFeature(r.features[i], p, c)
          /\ UniqueNames(r.features)
       THEN "none" ELSE "invalid_model_response"

-----------------------------------------------------------------------------
(* extract_features().                                                     *)

Arguments(c, p) ==
  /\ pc = "idle" /\ calls < MaxCalls
  /\ calls' = calls + 1
  /\ policy' = p /\ content' = c
  /\ sent' = 0
  /\ UNCHANGED received

Refuse(c, p) ==
  /\ Arguments(c, p)
  /\ Refusal(c, p) # "none"
  /\ answer' = ModelError(Refusal(c, p), 0)
  /\ attempt' = 0
  /\ UNCHANGED pc

Begin(c, p) ==
  /\ Arguments(c, p)
  /\ Refusal(c, p) = "none"
  /\ pc' = "invoke" /\ attempt' = 1
  /\ answer' = None

Delivery ==
  [policy |-> policy, content |-> content, request |-> BuildRequest(content, policy)]

Invoke ==
  /\ pc = "invoke"
  /\ sent' = sent + 1
  /\ UNCHANGED <<policy, content, calls>>

\* The first response, valid or not, ends the call.
Answered(r) ==
  LET error == ResponseError(r, policy, content) IN
  /\ Invoke
  /\ received' = received \cup {Delivery}
  /\ answer' = IF error = "none" THEN ProposedFeatures(r.features) ELSE ModelError(error, 0)
  /\ pc' = "idle"
  /\ UNCHANGED attempt

\* Mutant: the last attempt is followed by one more.
RaisedMutant ==
  /\ Invoke
  /\ \/ received' = received \cup {Delivery}
     \/ UNCHANGED received
  /\ IF attempt <= policy.max_attempts
     THEN attempt' = attempt + 1 /\ UNCHANGED <<pc, answer>>
     ELSE /\ pc' = "idle" /\ UNCHANGED attempt
          /\ answer' = ModelError("model_retry_exhausted", attempt)

\* Mutant: after the last attempt the count starts again.
RaisedForever ==
  /\ pc = "invoke"
  /\ attempt' = (attempt % policy.max_attempts) + 1
  /\ UNCHANGED <<pc, policy, content, answer, sent, received, calls>>

\* A timeout, a connection error or any other exception: all are tried again, the ones
\* marked retryable=False too.
Raised ==
  /\ Invoke
  /\ \/ received' = received \cup {Delivery}
     \/ UNCHANGED received
  /\ IF attempt < policy.max_attempts
     THEN attempt' = attempt + 1 /\ UNCHANGED <<pc, answer>>
     ELSE /\ pc' = "idle" /\ UNCHANGED attempt
          /\ answer' = ModelError("model_retry_exhausted", attempt)

Init ==
  /\ pc = "idle" /\ policy = None /\ content = None /\ answer = None
  /\ attempt = 0 /\ sent = 0 /\ received = {} /\ calls = 0

InvokeStep == (\E r \in Responses : Answered(r)) \/ Raised

Next ==
  \/ \E c \in Contents, p \in Policies : Refuse(c, p) \/ Begin(c, p)
  \/ InvokeStep

Spec == Init /\ [][Next]_vars

\* The client's invoke() returns or raises: it is given timeout_seconds.
FairSpec == Spec /\ WF_vars(InvokeStep)

-----------------------------------------------------------------------------
(* Properties.                                                             *)

\* Every variable keeps its type, and the attempt counter its bound.
TypeOK ==
  /\ pc \in {"idle", "invoke"}
  /\ policy \in Policies \cup {None} /\ content \in Contents \cup {None}
  /\ attempt \in Nat /\ (pc = "invoke" => attempt \in 1..policy.max_attempts)
  /\ answer \in Answer \cup {None}
  /\ sent \in Nat /\ calls \in 0..MaxCalls
  /\ received \subseteq [policy : Policies, content : Contents, request : Request]

\* Whatever an endpoint receives, also from an invocation that was given up, came from an
\* approved policy for that endpoint and model, carries only words of the prompt and response
\* of content that was redacted, and both together fit max_input_length.
EndpointsSeeOnlyApproved ==
  \A d \in received :
    /\ d.policy.enabled /\ d.policy.approved
    /\ d.request.endpoint = d.policy.endpoint
    /\ ApprovedEndpoints # {} => d.request.endpoint \in ApprovedEndpoints
    /\ d.content.status = "redacted"
    /\ Range(d.request.prompt) \cup Range(d.request.response) \subseteq SourceWords(d.content)
    /\ Len(d.request.prompt) + Len(d.request.response) <= d.policy.max_input

\* The attempts an exhausted call reports are the invocations it really made, and no call
\* makes more of them than its policy allows.
AttemptsAreInvocations ==
  /\ sent # 0 => sent <= policy.max_attempts
  /\ pc = "idle" /\ sent # 0 => sent = attempt
  /\ answer # None /\ answer.code = "model_retry_exhausted" =>
       answer.attempts = sent /\ sent = policy.max_attempts

\* The model hands back what an endpoint was sent: a text of it that is one word, or that was
\* cut from a preview without breaks.
HandsBack(s, part, preview) ==
  Passage(s, part) /\ (Len(s) = 1 \/ Break \notin Range(Raw(preview)))

\* Proposals are advice about the allowed content-derived features only, one per name, with
\* evidence that names allowed features.  No summary of four characters or more hands back a
\* word, or an unbroken passage, of what any endpoint ever was sent of the content.  What the
\* code lets through is left out: shorter summaries, content words among other words, and a
\* passage that runs over a break of the preview, which the endpoint was sent collapsed.
ProposalsAreAdvice ==
  answer # None /\ answer.code = "features" =>
    /\ \A i \in DOMAIN answer.features :
         LET f == answer.features[i] IN
         /\ f.name \in ContentNames \cap Range(policy.allowed)
         /\ f.evidence.signal_names \subseteq ContentNames
         /\ \A d \in received, s \in f.evidence.summaries \ Short :
              d.content = content =>
                /\ ~HandsBack(s, d.request.prompt, content.prompt)
                /\ ~HandsBack(s, d.request.response, content.response)
    /\ Cardinality({answer.features[i].name : i \in DOMAIN answer.features})
         = Len(answer.features)

\* Every call returns, whatever the endpoint does.
EveryCallReturns == pc = "invoke" ~> pc = "idle"

\* Content the assessor would call unavailable is not sent to a model.
RequestsCarryContent ==
  \A d \in received : d.request.prompt # <<>> \/ d.request.response # <<>>

=============================================================================
